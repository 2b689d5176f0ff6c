-------------------------------- MODULE Rand --------------------------------
(***************************************************************************)
(* rand:uniform/1 of the shim: an integer of 1..N from words of WordBits   *)
(* bits (32), with the draws rejected that would favour some of them       *)
(* (rand.erl:246-283).  What the generator yields is any word.             *)
(***************************************************************************)
EXTENDS Integers, FiniteSets, Trial

CONSTANTS
  WordBits,  \* 32
  MaxTries   \* 32

ASSUME WordBitsAssumption == WordBits \in Nat /\ WordBits >= 2 /\ MaxTries \in Nat

\* 1 bsl k.
Shifted[k \in Nat] == IF k = 0 THEN 1 ELSE 2 * Shifted[k - 1]

WORDS == Shifted[WordBits]
Word == 0 .. WORDS - 1

\* 1 bsl 62: two words less the two bits that AtomVM's integers do not have.
RANGE == Shifted[2 * WordBits - 2]

IsWide(N) == N > WORDS

\* (Hi bsl 30) bor (Lo bsr 2)
WideValue(hi, lo) == hi * Shifted[WordBits - 2] + lo \div 4

\* What one try takes from the generator, and the value it makes of it.
Draws(N)    == IF IsWide(N) THEN Word \X Word ELSE Word
Value(N, d) == IF IsWide(N) THEN WideValue(d[1], d[2]) ELSE d

\* How many values a draw can have.
Span(N) == IF IsWide(N) THEN RANGE ELSE WORDS

\* Mutant: one more than the last multiple of N is let through.
LimitOffByOne(N) == (Span(N) \div N) * N

Limit(N) == (Span(N) \div N) * N - 1

\* bounded_loop/4 and bounded_loop_wide/4: is a try the last one?
Accepted(N, d, tries) == Value(N, d) <= Limit(N) \/ tries > MaxTries

\* uniform_s/2 over bounded/2, which draws nothing for 1.
Uniform(N, d) == IF N = 1 THEN 1 ELSE (Value(N, d) % N) + 1

\* "this stays exact up to 2^62" (rand.erl:257-258).
ASSUME RandInputsAssumption == "rand" \in DOMAIN Inputs => Inputs["rand"] \subseteq 1 .. RANGE

-----------------------------------------------------------------------------
Taken(N)     == {d \in Draws(N) : Accepted(N, d, 0)}
Giving(N, r) == {d \in Taken(N) : Uniform(N, d) = r}

Unbiased(N) ==
  /\ \A r \in 1 .. N : Cardinality(Giving(N, r)) * N = Cardinality(Taken(N))
  /\ 2 * Cardinality(Taken(N)) > Cardinality(Draws(N))

\* input: N, up to 2^62 scaled down.  "Accept only the largest multiple of N that fits ...,
\* so every residue is equally likely", with one word and with two ("this stays exact up to
\* 2^62"): as many of the draws that are taken give each of 1..N, and so many are taken that
\* the tries hardly ever run out (rand.erl:249-261).
DrawsAreUnbiased == shim = "rand" /\ input > 1 => Unbiased(input)
=============================================================================
