----------------------------- MODULE ShimProofs -----------------------------
(***************************************************************************)
(* The rand, base64 and uri_string shims, for every input that they are    *)
(* tried with.                                                             *)
(*                                                                         *)
(* rand:uniform/1 favours none of 1..N, for every width of the words and   *)
(* every N from 2 up to the range of two draws.  The draws of a try are    *)
(* numbered so that a draw's value is its number divided by m; the draws   *)
(* that give r are then counted by a map from 0 .. m * (Span div N) - 1.   *)
(*                                                                         *)
(* base64:decode/1 reads what encode/2 wrote, for bytes of any number.     *)
(* The text and the bytes are taken apart into groups of four and three,   *)
(* and a group of either kind is followed through encoder and decoder by   *)
(* the arithmetic of its digits; GroupInduction carries this to all.       *)
(*                                                                         *)
(* dissect_query finds the pairs that were encoded: SplitAll takes the     *)
(* query apart exactly at its ampersands, since none is left in an         *)
(* encoded key or value, and percent_decode undoes the encoding one byte a *)
(* call.  parse assigns the bytes of a URI to its parts as RFC 3986 does:  *)
(* each split is at the first delimiter of its kind, so that what comes    *)
(* before it is free of it, and both sides put together are what was       *)
(* split; a port is printed as it was read.                                *)
(***************************************************************************)
EXTENDS Rand, Base64, UriString, NatProofs, SequenceTheorems, FiniteSetTheorems

-----------------------------------------------------------------------------
(* Division *)

LEMMA Divides ==
  ASSUME NEW a \in Nat, NEW n \in Nat \ {0}
  PROVE  /\ a \div n \in Nat /\ a % n \in 0 .. n - 1
         /\ a = (a \div n) * n + (a % n)
OBVIOUS

LEMMA Times ==
  ASSUME NEW a \in Nat, NEW b \in Nat, NEW n \in Nat, a <= b
  PROVE  a * n \in Nat /\ a * n <= b * n
OBVIOUS

LEMMA Divided ==
  ASSUME NEW q \in Nat, NEW n \in Nat \ {0}, NEW r \in 0 .. n - 1
  PROVE  q * n + r \in Nat /\ (q * n + r) \div n = q /\ (q * n + r) % n = r
<1> DEFINE a == q * n + r
<1>1. a \in Nat
  BY Times
<1>2. a \div n \in Nat /\ a % n \in 0 .. n - 1 /\ a = (a \div n) * n + (a % n)
  BY <1>1, Divides
<1>3. a \div n = q
  <2> DEFINE p == a \div n
             s == a % n
  <2>1. p \in Nat /\ s \in 0 .. n - 1 /\ p * n + s = q * n + r
    BY <1>2
  <2> HIDE DEF p, s
  <2>2. CASE p < q
    <3>1. (p + 1) * n <= q * n /\ (p + 1) * n = p * n + n
      BY <2>1, <2>2, Times
    <3>2. QED
      BY <2>1, <3>1
  <2>3. CASE q < p
    <3>1. (q + 1) * n <= p * n /\ (q + 1) * n = q * n + n
      BY <2>1, <2>3, Times
    <3>2. QED
      BY <2>1, <3>1
  <2>4. QED
    BY <2>1, <2>2, <2>3 DEF p
<1>4. QED
  BY <1>1, <1>2, <1>3

LEMMA Quotient ==
  ASSUME NEW a \in Nat, NEW n \in Nat \ {0}, NEW q \in Nat
  PROVE  a \div n < q <=> a < q * n
<1> DEFINE p == a \div n
           s == a % n
<1>1. p \in Nat /\ s \in 0 .. n - 1 /\ a = p * n + s
  BY Divides
<1> HIDE DEF p, s
<1>2. CASE p < q
  <2>1. (p + 1) * n <= q * n /\ (p + 1) * n = p * n + n
    BY <1>1, <1>2, Times
  <2>2. QED
    BY <1>1, <1>2, <2>1 DEF p
<1>3. CASE ~(p < q)
  <2>1. q * n <= p * n /\ q * n \in Nat /\ p * n \in Nat
    BY <1>1, <1>3, Times
  <2>2. QED
    BY <1>1, <1>3, <2>1 DEF p
<1>4. QED
  BY <1>2, <1>3

\* Numbers below w * w are pairs of numbers below w.
LEMMA SplitPair ==
  ASSUME NEW w \in Nat \ {0}, NEW i \in 0 .. w * w - 1
  PROVE  /\ i \div w \in 0 .. w - 1 /\ i % w \in 0 .. w - 1
         /\ i = (i \div w) * w + (i % w)
<1>1. w * w \in Nat /\ i \in Nat /\ i < w * w
  OBVIOUS
<1>2. i \div w < w
  BY <1>1, Quotient
<1>3. i \div w \in Nat /\ i % w \in 0 .. w - 1 /\ i = (i \div w) * w + (i % w)
  BY <1>1, Divides
<1>4. QED
  BY <1>2, <1>3

LEMMA JoinedPair ==
  ASSUME NEW w \in Nat \ {0}, NEW hi \in 0 .. w - 1, NEW lo \in 0 .. w - 1
  PROVE  /\ hi * w + lo \in 0 .. w * w - 1
         /\ (hi * w + lo) \div w = hi /\ (hi * w + lo) % w = lo
<1> DEFINE i == hi * w + lo
<1>1. i \in Nat /\ i \div w = hi /\ i % w = lo
  BY Divided
<1> HIDE DEF i
<1>2. i < w * w
  BY <1>1, Quotient
<1>3. w * w \in Nat
  OBVIOUS
<1>4. QED
  BY <1>1, <1>2, <1>3 DEF i

-----------------------------------------------------------------------------
(* Powers of two *)

LEMMA ShiftedSteps == Shifted[0] = 1 /\ \A n \in Nat : Shifted[n + 1] = 2 * Shifted[n]
<1> DEFINE step == [n \in Nat |-> [x \in Nat |-> 2 * x]]
<1>1. Within(Nat, 1, step)
  BY DEF Within
<1>2. \A n, x \in Nat : step[n][x] = 2 * x
  OBVIOUS
<1> HIDE DEF step
<1>3. PICK f : Solves(f, Nat, 1, step)
  BY <1>1, Recursion
<1>4. \A n \in Nat : f[n] = IF n = 0 THEN 1 ELSE 2 * f[n - 1]
  <2> TAKE n \in Nat
  <2>1. CASE n # 0
    <3>1. n - 1 \in Nat /\ n - 1 + 1 = n
      BY <2>1
    <3>2. QED
      BY <1>2, <1>3, <2>1, <3>1 DEF Solves
  <2>2. QED
    BY <1>3, <2>1 DEF Solves
<1>5. f = [n \in Nat |-> IF n = 0 THEN 1 ELSE 2 * f[n - 1]]
  BY <1>3, <1>4 DEF Solves
<1>6. Shifted = [n \in Nat |-> IF n = 0 THEN 1 ELSE 2 * Shifted[n - 1]]
  BY <1>5 DEF Shifted
<1>7. QED
  BY <1>6

LEMMA ShiftedType == \A k \in Nat : Shifted[k] \in Nat \ {0}
<1> DEFINE T == {k \in Nat : Shifted[k] \in Nat \ {0}}
<1>1. 0 \in T /\ (\A k \in T : k + 1 \in T) /\ T \in SUBSET Nat
  BY ShiftedSteps
<1>2. T = Nat
  <2> HIDE DEF T
  <2>1. QED
    BY <1>1, SetInduction
<1>3. QED
  BY <1>2

LEMMA ShiftedSum ==
  ASSUME NEW a \in Nat, NEW b \in Nat
  PROVE  Shifted[a + b] = Shifted[a] * Shifted[b]
<1> DEFINE T == {k \in Nat : Shifted[a + k] = Shifted[a] * Shifted[k]}
<1>1. 0 \in T
  BY ShiftedSteps, ShiftedType
<1>2. ASSUME NEW k \in T PROVE k + 1 \in T
  <2>1. k \in Nat /\ a + k \in Nat /\ a + (k + 1) = (a + k) + 1
    OBVIOUS
  <2>2. /\ Shifted[a + (k + 1)] = 2 * Shifted[a + k] /\ Shifted[k + 1] = 2 * Shifted[k]
        /\ Shifted[a] \in Nat /\ Shifted[k] \in Nat
    BY <2>1, ShiftedSteps, ShiftedType
  <2>3. Shifted[a + k] = Shifted[a] * Shifted[k]
    OBVIOUS
  <2>4. \A x, y \in Nat : 2 * (x * y) = x * (2 * y)
    OBVIOUS
  <2>5. QED
    BY <2>1, <2>2, <2>3, <2>4
<1>3. T = Nat
  <2>1. T \in SUBSET Nat
    OBVIOUS
  <2> HIDE DEF T
  <2>2. QED
    BY <1>1, <1>2, <2>1, SetInduction
<1>4. QED
  BY <1>3

\* What two draws have in common with one.
Quarter == Shifted[WordBits - 2]

LEMMA Widths ==
  /\ Quarter \in Nat \ {0} /\ WORDS = 4 * Quarter /\ RANGE = Quarter * WORDS
  /\ WORDS \in Nat \ {0} /\ RANGE \in Nat \ {0} /\ WORDS * WORDS = 4 * RANGE
<1> DEFINE w == WordBits - 2
<1>1. w \in Nat /\ w + 1 + 1 = WordBits /\ w + WordBits = 2 * WordBits - 2
  BY WordBitsAssumption
<1> HIDE DEF w
<1>2. Quarter \in Nat \ {0} /\ WORDS = 4 * Quarter /\ WORDS \in Nat \ {0}
  <2>1. Shifted[w + 1] = 2 * Shifted[w] /\ Shifted[w + 1 + 1] = 2 * Shifted[w + 1]
    BY <1>1, ShiftedSteps
  <2>2. QED
    BY <1>1, <2>1, ShiftedType DEF Quarter, WORDS, w
<1>3. RANGE = Quarter * WORDS
  BY <1>1, ShiftedSum, WordBitsAssumption DEF Quarter, WORDS, RANGE, w
<1>4. \A q \in Nat \ {0} : (4 * q) * (4 * q) = 4 * (q * (4 * q)) /\ q * (4 * q) \in Nat \ {0}
  OBVIOUS
<1>5. QED
  BY <1>2, <1>3, <1>4

-----------------------------------------------------------------------------
(* Counting *)

\* f numbers the elements of S.
Numbers(f, n, S) ==
  /\ f \in [0 .. n - 1 -> S]
  /\ \A i, j \in 0 .. n - 1 : f[i] = f[j] => i = j
  /\ \A x \in S : \E i \in 0 .. n - 1 : f[i] = x

LEMMA Counting ==
  ASSUME NEW n \in Nat, NEW S, NEW f, Numbers(f, n, S)
  PROVE  Cardinality(S) = n
<1>1. IsFiniteSet(0 .. n - 1) /\ Cardinality(0 .. n - 1) = n
  BY FS_Interval
<1>2. f \in Bijection(0 .. n - 1, S)
  BY DEF Numbers, Bijection, Injection, Surjection, IsInjective
<1>3. QED
  BY <1>1, <1>2, FS_Bijection DEF ExistsBijection

LEMMA FourDivides ==
  ASSUME NEW q \in Nat, NEW w, w = 4 * q, NEW hi \in 0 .. w - 1, NEW lo \in 0 .. w - 1
  PROVE  (hi * w + lo) \div 4 = hi * q + (lo \div 4)
<1>1. hi \in Nat /\ lo \in Nat
  OBVIOUS
<1>2. hi * w = 4 * (hi * q) /\ hi * q \in Nat
  <2>1. \A x, y \in Nat : x * (4 * y) = 4 * (x * y) /\ x * y \in Nat
    OBVIOUS
  <2>2. QED
    BY <1>1, <2>1
<1>3. \A p \in Nat : (4 * p + lo) \div 4 = p + (lo \div 4)
  BY <1>1
<1>4. QED
  BY <1>1, <1>2, <1>3

\* at numbers the draws for N, m to each value.
Indexes(at, m, N) ==
  /\ m \in Nat \ {0} /\ Span(N) \in Nat \ {0} /\ m * Span(N) \in Nat
  /\ Numbers(at, m * Span(N), Draws(N))
  /\ \A i \in 0 .. m * Span(N) - 1 : Value(N, at[i]) = i \div m

LEMMA Indexed ==
  ASSUME NEW N \in Nat
  PROVE  \E at, m : Indexes(at, m, N)
<1>1. CASE ~IsWide(N)
  <2> DEFINE at == [i \in 0 .. WORDS - 1 |-> i]
  <2>1. Draws(N) = 0 .. WORDS - 1 /\ Span(N) = WORDS /\ 1 * WORDS = WORDS
    BY <1>1, Widths DEF Draws, Span, Word
  <2>2. \A i \in 0 .. WORDS - 1 : Value(N, at[i]) = i \div 1
    BY <1>1, Widths DEF Value
  <2>3. Numbers(at, WORDS, Draws(N))
    BY <2>1 DEF Numbers
  <2> HIDE DEF at
  <2>4. Indexes(at, 1, N)
    BY <2>1, <2>2, <2>3, Widths DEF Indexes
  <2>5. QED
    BY <2>4
<1>2. CASE IsWide(N)
  <2> DEFINE all == 0 .. WORDS * WORDS - 1
             at == [i \in all |-> <<i \div WORDS, i % WORDS>>]
  <2>1. /\ Draws(N) = Word \X Word /\ Span(N) = RANGE /\ 4 * RANGE = WORDS * WORDS
        /\ WORDS \in Nat \ {0} /\ WORDS * WORDS \in Nat
    BY <1>2, Widths DEF Draws, Span
  <2>2. ASSUME NEW i \in all
        PROVE  /\ i \div WORDS \in 0 .. WORDS - 1 /\ i % WORDS \in 0 .. WORDS - 1
               /\ i = (i \div WORDS) * WORDS + (i % WORDS)
    BY <2>1, SplitPair
  <2>3. ASSUME NEW i \in all PROVE Value(N, at[i]) = i \div 4
    <3> DEFINE hi == i \div WORDS
               lo == i % WORDS
    <3>1. hi \in 0 .. WORDS - 1 /\ lo \in 0 .. WORDS - 1 /\ i = hi * WORDS + lo
      BY <2>2, Zenon
    <3>2. Value(N, at[i]) = hi * Quarter + lo \div 4
      BY <1>2 DEF Value, WideValue, Quarter
    <3> HIDE DEF hi, lo
    <3>3. (hi * WORDS + lo) \div 4 = hi * Quarter + (lo \div 4)
      BY ONLY <3>1, Widths, FourDivides
    <3>4. QED
      BY <3>1, <3>2, <3>3, Zenon
  <2>4. Numbers(at, WORDS * WORDS, Draws(N))
    <3>1. at \in [all -> Draws(N)]
      BY <2>1, <2>2 DEF Word
    <3>2. ASSUME NEW i \in all, NEW j \in all, at[i] = at[j] PROVE i = j
      <4>1. i \div WORDS = j \div WORDS /\ i % WORDS = j % WORDS
        BY <3>2
      <4>2. QED
        BY <2>2, <4>1
    <3>3. ASSUME NEW x \in Draws(N) PROVE \E i \in all : at[i] = x
      <4>1. PICK hi \in 0 .. WORDS - 1, lo \in 0 .. WORDS - 1 : x = <<hi, lo>>
        BY <2>1 DEF Word
      <4> DEFINE i == hi * WORDS + lo
      <4>2. i \in all /\ i \div WORDS = hi /\ i % WORDS = lo
        BY ONLY <2>1, JoinedPair, hi \in 0 .. WORDS - 1, lo \in 0 .. WORDS - 1
      <4> HIDE DEF i
      <4>5. at[i] = x
        BY <4>1, <4>2
      <4>6. QED
        BY <4>2, <4>5
    <3> HIDE DEF at, all
    <3>4. QED
      BY <3>1, <3>2, <3>3 DEF Numbers, all
  <2> HIDE DEF at
  <2>5. Indexes(at, 4, N)
    BY <2>1, <2>3, <2>4, Widths DEF Indexes
  <2>6. QED
    BY <2>5
<1>3. QED
  BY <1>1, <1>2

-----------------------------------------------------------------------------
(* The draws that are taken *)

\* A value is below the largest multiple of N that fits exactly when its draw's number is.
LEMMA TakenAre ==
  ASSUME NEW N \in Nat \ {0}, NEW at, NEW m, Indexes(at, m, N)
  PROVE  LET count == m * ((Span(N) \div N) * N)
         IN  /\ count \in 0 .. m * Span(N)
             /\ Taken(N) = {at[i] : i \in 0 .. count - 1}
             /\ Numbers([i \in 0 .. count - 1 |-> at[i]], count, Taken(N))
<1> DEFINE s == Span(N)
           top == (s \div N) * N
           count == m * top
<1>1. m \in Nat \ {0} /\ s \in Nat \ {0} /\ m * s \in Nat
  BY DEF Indexes
<1>2. top \in Nat /\ top <= s
  <2>1. s \div N \in Nat /\ s % N \in 0 .. N - 1 /\ s = (s \div N) * N + (s % N)
    BY <1>1, Divides
  <2>2. top \in Nat
    BY <2>1, Times
  <2>3. QED
    BY <2>1, <2>2
<1>3. /\ Numbers(at, m * s, Draws(N))
      /\ \A i \in 0 .. m * s - 1 : Value(N, at[i]) = i \div m
  BY DEF Indexes
<1>4. Limit(N) = top - 1 /\ MaxTries \in Nat
  BY WordBitsAssumption DEF Limit
<1> HIDE DEF s, top
<1>5. count \in 0 .. m * s
  <2>1. top * m <= s * m /\ top * m \in Nat /\ top * m = m * top /\ s * m = m * s
    BY <1>1, <1>2, Times
  <2>2. QED
    BY <1>1, <2>1
<1>6. ASSUME NEW i \in 0 .. m * s - 1 PROVE i \div m <= top - 1 <=> i < count
  <2> DEFINE t == top
  <2>1. i \in Nat /\ t \in Nat /\ t * m = m * t
    BY <1>1, <1>2
  <2>2. i \in Nat /\ i \div m \in Nat /\ top * m = m * top
    BY <1>1, <2>1, Divides
  <2>3. i \div m < top <=> i < top * m
    BY <1>1, <1>2, <2>2, Quotient
  <2>4. QED
    BY <1>2, <2>2, <2>3
<1> HIDE DEF count
<1>7. ASSUME NEW i \in 0 .. m * s - 1 PROVE at[i] \in Taken(N) <=> i < count
  <2>1. at[i] \in Draws(N)
    BY <1>3 DEF Numbers
  <2>2. Accepted(N, at[i], 0) <=> i \div m <= top - 1
    BY <1>3, <1>4 DEF Accepted
  <2>3. QED
    BY <1>6, <2>1, <2>2 DEF Taken
<1>8. \A i \in 0 .. count - 1 : i \in 0 .. m * s - 1 /\ i < count
  BY <1>1, <1>5
<1>9. ASSUME NEW d \in Taken(N) PROVE \E i \in 0 .. count - 1 : at[i] = d
  <2>1. PICK i \in 0 .. m * s - 1 : at[i] = d
    BY <1>3 DEF Taken, Numbers
  <2>2. i \in 0 .. count - 1
    BY <1>1, <1>5, <1>7, <2>1
  <2>3. QED
    BY <2>1, <2>2
<1>10. Taken(N) = {at[i] : i \in 0 .. count - 1}
  BY <1>7, <1>8, <1>9
<1>11. Numbers([i \in 0 .. count - 1 |-> at[i]], count, Taken(N))
  BY <1>3, <1>8, <1>9, <1>10 DEF Numbers
<1>12. QED
  BY <1>5, <1>10, <1>11 DEF count, top, s

\* The k-th of the draws taken that give r.
Nth(k, m, N, r) == ((k \div m) * N + (r - 1)) * m + (k % m)

\* How many draws are taken: m to each value below q * N.
Count(m, q, N) == m * (q * N)

\* The draw numbered i has a value that gives r.
Gives(i, m, N, r) == (i \div m) % N = r - 1

\* Draw i is the k-th of those that give what it does.
Same(i, k, m, N) == i % m = k % m /\ (i \div m) \div N = k \div m

LEMMA NthIs ==
  ASSUME NEW N \in Nat \ {0}, NEW m \in Nat \ {0}, NEW q \in Nat, NEW r \in 1 .. N,
         NEW k \in 0 .. m * q - 1
  PROVE  /\ Nth(k, m, N, r) \in 0 .. Count(m, q, N) - 1
         /\ Gives(Nth(k, m, N, r), m, N, r)
         /\ Same(Nth(k, m, N, r), k, m, N)
<1> DEFINE g == k \div m
           h == k % m
           v == g * N + (r - 1)
           i == v * m + h
<1>1. m * q = q * m /\ m * q \in Nat /\ k \in Nat /\ r - 1 \in 0 .. N - 1
  OBVIOUS
<1>2. g \in Nat /\ h \in 0 .. m - 1 /\ g < q
  <2>1. k < q * m
    BY <1>1
  <2>2. QED
    BY <1>1, <2>1, Divides, Quotient
<1>3. i = Nth(k, m, N, r)
  BY DEF Nth
<1> HIDE DEF g, h
<1>4. v \in Nat /\ v \div N = g /\ v % N = r - 1
  BY <1>1, <1>2, Divided
<1> HIDE DEF v
<1>5. i \in Nat /\ i \div m = v /\ i % m = h
  BY <1>2, <1>4, Divided
<1>6. q * N \in Nat /\ (q * N) * m = m * (q * N) /\ m * (q * N) \in Nat
  <2>1. q * N \in Nat
    BY Times
  <2>2. \A x \in Nat : x * m = m * x /\ m * x \in Nat
    OBVIOUS
  <2>3. QED
    BY <2>1, <2>2
<1> HIDE DEF i
<1>7. v < q * N
  BY <1>2, <1>4, Quotient
<1> DEFINE c == q * N
<1> HIDE DEF c
<1>8. i < c * m
  BY <1>4, <1>5, <1>6, <1>7, Quotient DEF c
<1>9. i \in 0 .. m * (q * N) - 1
  BY <1>5, <1>6, <1>8 DEF c
<1>10. QED
  BY <1>3, <1>4, <1>5, <1>9 DEF Count, Gives, Same, g, h, v

\* Its place among those that give what it does.
Rank(i, m, N) == ((i \div m) \div N) * m + (i % m)

LEMMA NthOf ==
  ASSUME NEW N \in Nat \ {0}, NEW m \in Nat \ {0}, NEW q \in Nat, NEW r \in 1 .. N,
         NEW i \in 0 .. Count(m, q, N) - 1, Gives(i, m, N, r)
  PROVE  Rank(i, m, N) \in 0 .. m * q - 1 /\ Nth(Rank(i, m, N), m, N, r) = i
<1> DEFINE v == i \div m
           h == i % m
           g == v \div N
           k == g * m + h
           c == q * N
<1>1. c \in Nat /\ c * m = m * c /\ m * c \in Nat /\ m * q = q * m /\ m * q \in Nat
  <2>1. c \in Nat
    BY Times
  <2>2. \A x \in Nat : x * m = m * x /\ m * x \in Nat
    OBVIOUS
  <2> HIDE DEF c
  <2>3. QED
    BY <2>1, <2>2
<1>2. i \in 0 .. m * c - 1
  BY DEF Count
<1> HIDE DEF c
<1>3. i \in Nat /\ i < c * m
  BY <1>1, <1>2
<1>4. v \in Nat /\ h \in 0 .. m - 1 /\ i = v * m + h
  BY <1>3, Divides
<1>5. v < c
  BY <1>1, <1>3, Quotient
<1>6. v % N = r - 1
  BY DEF Gives
<1> HIDE DEF v, h
<1>7. g \in Nat /\ v = g * N + (r - 1)
  <2>1. v \div N \in Nat /\ v = (v \div N) * N + (v % N)
    BY <1>4, Divides
  <2>2. QED
    BY <1>6, <2>1
<1>8. g < q
  BY <1>4, <1>5, Quotient DEF c
<1> HIDE DEF g
<1>9. k \in Nat /\ k \div m = g /\ k % m = h
  BY <1>4, <1>7, Divided
<1> HIDE DEF k
<1>10. k < q * m
  BY <1>8, <1>7, <1>9, Quotient
<1>11. k \in 0 .. m * q - 1
  BY <1>1, <1>9, <1>10
<1>12. Nth(k, m, N, r) = i
  BY <1>4, <1>7, <1>9 DEF Nth
<1>13. QED
  BY <1>11, <1>12 DEF Rank, k, g, h, v

\* Of m * (q * N) draws taken, m * q give each of 1..N.
LEMMA GivingAre ==
  ASSUME NEW N \in Nat \ {0, 1}, NEW at, NEW m, Indexes(at, m, N), NEW r \in 1 .. N
  PROVE  Cardinality(Giving(N, r)) = m * (Span(N) \div N)
<1> DEFINE q == Span(N) \div N
           c == Count(m, q, N)
           f == [k \in 0 .. m * q - 1 |-> at[Nth(k, m, N, r)]]
<1>1. N \in Nat \ {0}
  OBVIOUS
<1>2. /\ m \in Nat \ {0} /\ Span(N) \in Nat \ {0} /\ m * Span(N) \in Nat
      /\ Numbers(at, m * Span(N), Draws(N))
      /\ \A i \in 0 .. m * Span(N) - 1 : Value(N, at[i]) = i \div m
  BY DEF Indexes
<1>3. c \in 0 .. m * Span(N) /\ Taken(N) = {at[i] : i \in 0 .. c - 1}
  BY TakenAre, <1>1 DEF Count
<1>4. q \in Nat
  BY <1>2, Divides
<1> HIDE DEF q
<1>5. m * q \in Nat
  BY <1>2, <1>4
<1>6. \A k \in 0 .. m * q - 1 :
        /\ Nth(k, m, N, r) \in 0 .. c - 1
        /\ Gives(Nth(k, m, N, r), m, N, r)
        /\ Same(Nth(k, m, N, r), k, m, N)
  BY <1>1, <1>2, <1>4, NthIs
<1>7. \A i \in 0 .. c - 1 :
         Gives(i, m, N, r) =>
           Rank(i, m, N) \in 0 .. m * q - 1 /\ Nth(Rank(i, m, N), m, N, r) = i
  BY <1>1, <1>2, <1>4, NthOf
<1> HIDE DEF c
<1>8. 0 .. c - 1 \subseteq 0 .. m * Span(N) - 1
  BY <1>2, <1>3
<1>9. \A i \in 0 .. c - 1 : Uniform(N, at[i]) = r <=> Gives(i, m, N, r)
  <2> TAKE i \in 0 .. c - 1
  <2>1. Value(N, at[i]) = i \div m /\ i \in Nat
    BY <1>2, <1>8
  <2>2. (i \div m) % N \in Int
    BY <1>2, <2>1, Divides
  <2>3. Uniform(N, at[i]) = ((i \div m) % N) + 1
    BY <2>1 DEF Uniform
  <2>4. QED
    BY <2>2, <2>3 DEF Gives
<1>10. f \in [0 .. m * q - 1 -> Giving(N, r)]
  <2>1. ASSUME NEW k \in 0 .. m * q - 1 PROVE at[Nth(k, m, N, r)] \in Giving(N, r)
    <3>1. Gives(Nth(k, m, N, r), m, N, r)
      BY <1>6
    <3>2. QED
      BY <1>3, <1>6, <1>9, <3>1 DEF Giving
  <2>2. QED
    BY <2>1 DEF f
<1>11. ASSUME NEW j \in 0 .. m * q - 1, NEW k \in 0 .. m * q - 1, f[j] = f[k] PROVE j = k
  <2>1. Nth(j, m, N, r) = Nth(k, m, N, r)
    BY <1>2, <1>6, <1>8, <1>11 DEF Numbers, f
  <2>2. j \div m = k \div m /\ j % m = k % m
    BY <1>6, <2>1 DEF Same
  <2>3. j = (j \div m) * m + (j % m) /\ k = (k \div m) * m + (k % m)
    <3>1. j \in Nat /\ k \in Nat
      BY <1>5
    <3>2. QED
      BY <1>2, <3>1, Divides
  <2>4. QED
    BY <2>2, <2>3
<1>12. ASSUME NEW d \in Giving(N, r) PROVE \E k \in 0 .. m * q - 1 : f[k] = d
  <2>1. PICK i \in 0 .. c - 1 : at[i] = d /\ Gives(i, m, N, r)
    BY <1>3, <1>9 DEF Giving
  <2>2. PICK k \in 0 .. m * q - 1 : Nth(k, m, N, r) = i
    BY <1>7, <2>1
  <2>3. QED
    BY <2>1, <2>2 DEF f
<1>13. Numbers(f, m * q, Giving(N, r))
  BY <1>10, <1>11, <1>12 DEF Numbers
<1>14. QED
  BY <1>5, <1>13, Counting DEF q

\* Each of 1..N is given by the same number of draws, and most draws are taken
\* (rand.erl:247-261).
THEOREM UniformIsUnbiased == \A N \in 2 .. RANGE : Unbiased(N)
<1> SUFFICES ASSUME NEW N \in 2 .. RANGE PROVE Unbiased(N)
  OBVIOUS
<1>1. N \in Nat \ {0, 1}
  BY Widths
<1>2. PICK at, m : Indexes(at, m, N)
  BY <1>1, Indexed
<1> DEFINE s == Span(N)
           q == s \div N
           c == m * (q * N)
<1>3. m \in Nat \ {0} /\ s \in Nat \ {0} /\ m * s \in Nat /\ Numbers(at, m * s, Draws(N))
  BY <1>2 DEF Indexes
<1>4. c \in 0 .. m * s /\ Numbers([i \in 0 .. c - 1 |-> at[i]], c, Taken(N))
  BY <1>1, <1>2, TakenAre
<1>5. Cardinality(Taken(N)) = c /\ Cardinality(Draws(N)) = m * s
  <2> HIDE DEF c, s
  <2>1. c \in Nat
    BY <1>4
  <2>2. QED
    BY <1>3, <1>4, <2>1, Counting
<1>6. \A r \in 1 .. N : Cardinality(Giving(N, r)) = m * q
  BY <1>1, <1>2, GivingAre
<1>7. N <= s
  <2>1. CASE IsWide(N)
    BY <2>1, Widths DEF Span
  <2>2. CASE ~IsWide(N)
    BY <1>1, <2>2, Widths DEF Span, IsWide
  <2>3. QED
    BY <2>1, <2>2
<1>8. q \in Nat /\ s % N \in 0 .. N - 1 /\ s = q * N + (s % N)
  BY <1>1, <1>3, Divides
<1> HIDE DEF s
<1>9. ~(q < 1)
  <2>1. ~(s < 1 * N)
    BY <1>1, <1>3, <1>7
  <2>2. QED
    BY <1>1, <1>3, <2>1, Quotient
<1> DEFINE p == s % N
<1> HIDE DEF q, p
<1>10. (m * q) * N = c
  BY <1>1, <1>3, <1>8
<1>11. 2 * c > m * s
  <2> DEFINE a == q * N
  <2>1. a \in Nat /\ N <= a
    <3>1. 1 * N <= q * N /\ q * N \in Nat
      BY <1>1, <1>8, <1>9, Times
    <3>2. QED
      BY <1>1, <3>1
  <2>2. s = a + p /\ p \in Nat /\ p < N
    BY <1>1, <1>8 DEF p
  <2> HIDE DEF a
  <2>3. s + 1 <= 2 * a
    BY <1>1, <2>1, <2>2
  <2>4. (s + 1) * m <= (2 * a) * m
    BY <1>3, <2>1, <2>3, Times
  <2>5. (s + 1) * m = m * s + m /\ (2 * a) * m = 2 * (m * a) /\ m * a \in Nat
    BY <1>3, <2>1
  <2>6. QED
    BY <1>3, <2>4, <2>5 DEF a
<1>12. QED
  BY <1>5, <1>6, <1>10, <1>11 DEF Unbiased

\* rand:uniform/1 on every input it is tried with (DrawsAreUnbiased).
THEOREM DrawsStayUnbiased == Spec => []DrawsAreUnbiased
<1>1. Init => DrawsAreUnbiased
  <2> SUFFICES ASSUME Init, shim = "rand", input > 1 PROVE Unbiased(input)
    BY DEF DrawsAreUnbiased
  <2>1. input \in 1 .. RANGE
    BY RandInputsAssumption DEF Init
  <2>2. input \in 2 .. RANGE
    BY <2>1, Widths
  <2>3. QED
    BY <2>2, UniformIsUnbiased
<1>2. DrawsAreUnbiased /\ [Next]_vars => DrawsAreUnbiased'
  BY DEF DrawsAreUnbiased, Next, vars
<1>3. QED
  BY <1>1, <1>2, PTL DEF Spec

-----------------------------------------------------------------------------
(* Sequences: induction over them, and what FlattenSeq makes of them *)

LEMMA SeqInduction ==
  ASSUME NEW S, NEW T \in SUBSET Seq(S), <<>> \in T,
         \A s \in T : \A x \in S : Append(s, x) \in T
  PROVE  T = Seq(S)
<1> DEFINE N == {n \in Nat : \A s \in Seq(S) : Len(s) = n => s \in T}
<1>1. 0 \in N
  BY EmptySeq
<1>2. ASSUME NEW n \in N PROVE n + 1 \in N
  <2>1. SUFFICES ASSUME NEW s \in Seq(S), Len(s) = n + 1 PROVE s \in T
    OBVIOUS
  <2>2. s # <<>> /\ n \in Nat
    BY <2>1, EmptySeq
  <2>3. PICK r \in Seq(S), x \in S : s = Append(r, x)
    BY <2>2, SequenceEmptyOrAppend
  <2>4. Len(r) = n
    BY <2>1, <2>2, <2>3, AppendProperties, LenProperties
  <2>5. r \in T
    BY <2>4
  <2>6. QED
    BY <2>3, <2>5
<1>3. N = Nat
  <2> HIDE DEF N
  <2>1. N \in SUBSET Nat
    BY DEF N
  <2>2. QED
    BY <1>1, <1>2, <2>1, SetInduction
<1>4. \A s \in Seq(S) : s \in T
  BY <1>3, LenProperties
<1>5. QED
  BY <1>4

\* f has the concatenation of the first k of ss at k.
Flattens(f, ss, S) ==
  /\ f \in [0 .. Len(ss) -> Seq(S)] /\ f[0] = <<>>
  /\ \A k \in 1 .. Len(ss) : f[k] = f[k - 1] \o ss[k]

LEMMA FlattenEmpty == FlattenSeq(<<>>) = <<>>
BY EmptySeq DEF FlattenSeq

LEMMA FlattensExist ==
  ASSUME NEW S, NEW ss \in Seq(Seq(S))
  PROVE  \E f : Flattens(f, ss, S)
<1> DEFINE n    == Len(ss)
           step == [i \in Nat |-> [s \in Seq(S) |-> IF i < n THEN s \o ss[i + 1] ELSE s]]
<1>1. n \in Nat /\ \A k \in 1 .. n : ss[k] \in Seq(S)
  BY LenProperties, ElementOfSeq
<1> HIDE DEF n
<1>2. ASSUME NEW i \in Nat, NEW s \in Seq(S) PROVE step[i][s] \in Seq(S)
  <2>1. CASE i < n
    <3>1. ss[i + 1] \in Seq(S)
      BY <1>1, <2>1
    <3>2. QED
      BY <2>1, <3>1, ConcatProperties
  <2>2. CASE ~(i < n)
    BY <2>2
  <2>3. QED
    BY <2>1, <2>2
<1>3. \A i \in Nat : \A s \in Seq(S) : i < n => step[i][s] = s \o ss[i + 1]
  OBVIOUS
<1> HIDE DEF step
<1>4. PICK f : Solves(f, Seq(S), <<>>, step)
  <2>1. Within(Seq(S), <<>>, step)
    BY <1>2, EmptySeq DEF Within
  <2>2. QED
    BY <2>1, Recursion
<1> DEFINE g == [k \in 0 .. n |-> f[k]]
<1>5. g \in [0 .. n -> Seq(S)] /\ g[0] = <<>>
  BY <1>1, <1>4 DEF Solves
<1>6. ASSUME NEW k \in 1 .. n PROVE g[k] = g[k - 1] \o ss[k]
  <2>1. k - 1 \in Nat /\ k - 1 + 1 = k /\ k - 1 < n
    BY <1>1
  <2>2. f[k - 1] \in Seq(S) /\ f[k - 1 + 1] = step[k - 1][f[k - 1]]
    BY <1>4, <2>1 DEF Solves
  <2>3. step[k - 1][f[k - 1]] = f[k - 1] \o ss[k - 1 + 1]
    BY <1>3, <2>1, <2>2
  <2>4. f[k] = f[k - 1] \o ss[k]
    BY <2>1, <2>2, <2>3
  <2>5. k \in 0 .. n /\ k - 1 \in 0 .. n
    BY <1>1
  <2>6. QED
    BY <2>4, <2>5, Zenon
<1> HIDE DEF g
<1>7. Flattens(g, ss, S)
  BY <1>5, <1>6 DEF Flattens, n
<1>8. QED
  BY <1>7

LEMMA FlattenIs ==
  ASSUME NEW S, NEW ss \in Seq(Seq(S)), NEW f, Flattens(f, ss, S)
  PROVE  FlattenSeq(ss) = f[Len(ss)]
<1> DEFINE n == Len(ss)
<1>1. n \in Nat /\ \A k \in 1 .. n : ss[k] \in Seq(S)
  BY LenProperties, ElementOfSeq
<1>2. CASE n = 0
  <2>1. ss = <<>>
    BY <1>2, EmptySeq
  <2>2. QED
    BY <1>2, <2>1, FlattenEmpty DEF Flattens
<1>3. CASE n # 0
  <2> DEFINE flatten == CHOOSE g : g = [i \in 1 .. n |-> IF i = 1 THEN ss[i] ELSE g[i - 1] \o ss[i]]
             g       == [i \in 1 .. n |-> f[i]]
  <2>1. g = [i \in 1 .. n |-> IF i = 1 THEN ss[i] ELSE g[i - 1] \o ss[i]]
    <3>1. ASSUME NEW i \in 1 .. n PROVE f[i] = IF i = 1 THEN ss[i] ELSE g[i - 1] \o ss[i]
      <4>0. f[i] = f[i - 1] \o ss[i] /\ ss[i] \in Seq(S)
        BY <1>1 DEF Flattens
      <4>1. CASE i = 1
        <5>1. f[i - 1] = <<>>
          BY <4>1 DEF Flattens
        <5>2. QED
          BY <4>0, <4>1, <5>1, ConcatEmptySeq
      <4>2. CASE i # 1
        <5>1. i - 1 \in 1 .. n
          BY <1>1, <4>2
        <5>2. QED
          BY <4>0, <4>2, <5>1
      <4>3. QED
        BY <4>1, <4>2
    <3>2. QED
      BY <3>1
  <2>2. FlattenSeq(ss) = flatten[n]
    BY <1>3 DEF FlattenSeq
  <2> HIDE DEF g
  <2>3. flatten = [i \in 1 .. n |-> IF i = 1 THEN ss[i] ELSE flatten[i - 1] \o ss[i]]
    BY <2>1
  <2> HIDE DEF flatten
  <2> DEFINE T == {k \in Nat : k + 1 <= n => flatten[k + 1] = f[k + 1]}
  <2>4. 0 \in T
    <3>1. flatten[1] = ss[1] /\ 1 \in 1 .. n
      BY <1>1, <1>3, <2>3
    <3>2. f[1] = f[0] \o ss[1] /\ f[0] = <<>> /\ ss[1] \in Seq(S)
      <4>1. f[1] = f[1 - 1] \o ss[1]
        BY <3>1 DEF Flattens
      <4>2. QED
        BY <1>1, <3>1, <4>1 DEF Flattens
    <3>3. QED
      BY <3>1, <3>2, ConcatEmptySeq
  <2>5. ASSUME NEW k \in T PROVE k + 1 \in T
    <3>1. SUFFICES ASSUME k + 1 + 1 <= n PROVE flatten[k + 1 + 1] = f[k + 1 + 1]
      OBVIOUS
    <3> DEFINE i == k + 1 + 1
    <3>2. i \in 1 .. n /\ i # 1 /\ i - 1 = k + 1 /\ flatten[k + 1] = f[k + 1]
      BY <1>1, <3>1
    <3> HIDE DEF i
    <3>3. flatten[i] = flatten[i - 1] \o ss[i]
      BY <2>3, <3>2
    <3>4. f[i] = f[i - 1] \o ss[i]
      BY <3>2 DEF Flattens
    <3>5. flatten[i] = f[i]
      BY <3>2, <3>3, <3>4
    <3>6. QED
      BY <3>5 DEF i
  <2>6. T = Nat
    <3> HIDE DEF T
    <3>1. T \in SUBSET Nat
      BY DEF T
    <3>2. QED
      BY <2>4, <2>5, <3>1, SetInduction
  <2>7. n - 1 \in Nat /\ n - 1 + 1 = n
    BY <1>1, <1>3
  <2>8. n - 1 \in T
    BY <2>6, <2>7, Zenon
  <2>9. QED
    BY <1>1, <2>2, <2>7, <2>8
<1>4. QED
  BY <1>2, <1>3

LEMMA FlattenAppend ==
  ASSUME NEW S, NEW ss \in Seq(Seq(S)), NEW s \in Seq(S)
  PROVE  /\ FlattenSeq(ss) \in Seq(S)
         /\ FlattenSeq(Append(ss, s)) = FlattenSeq(ss) \o s
<1> DEFINE n == Len(ss)
           t == Append(ss, s)
<1>1. /\ n \in Nat /\ t \in Seq(Seq(S)) /\ Len(t) = n + 1 /\ t[n + 1] = s
      /\ \A k \in 1 .. n : t[k] = ss[k]
  BY AppendProperties, LenProperties
<1>2. PICK f : Flattens(f, t, S)
  BY <1>1, FlattensExist
<1> DEFINE g == [k \in 0 .. n |-> f[k]]
<1> HIDE DEF t, n
<1>3. f \in [0 .. n + 1 -> Seq(S)] /\ f[0] = <<>>
  BY <1>1, <1>2 DEF Flattens
<1>4. Flattens(g, ss, S)
  <2>1. g \in [0 .. n -> Seq(S)] /\ g[0] = <<>>
    BY <1>1, <1>3
  <2>2. ASSUME NEW k \in 1 .. n PROVE g[k] = g[k - 1] \o ss[k]
    <3>1. k \in 1 .. n + 1 /\ k \in 0 .. n /\ k - 1 \in 0 .. n
      BY <1>1
    <3>2. f[k] = f[k - 1] \o t[k]
      BY <1>1, <1>2, <3>1 DEF Flattens
    <3>3. QED
      BY <1>1, <3>1, <3>2
  <2> HIDE DEF g
  <2>3. QED
    BY <2>1, <2>2 DEF Flattens, n
<1>5. FlattenSeq(ss) = g[n] /\ g[n] = f[n] /\ g[n] \in Seq(S)
  BY <1>1, <1>3, <1>4, FlattenIs DEF n
<1>6. FlattenSeq(t) = f[n + 1]
  BY <1>1, <1>2, FlattenIs
<1>7. f[n + 1] = f[n] \o s
  <2>1. PICK k \in 1 .. Len(t) : k = n + 1 /\ k - 1 = n
    BY <1>1
  <2>2. f[k] = f[k - 1] \o t[k]
    BY <1>2 DEF Flattens
  <2>3. QED
    BY <1>1, <2>1, <2>2, Zenon
<1>8. QED
  BY <1>5, <1>6, <1>7 DEF t

LEMMA FlattenConcat ==
  ASSUME NEW S, NEW ss \in Seq(Seq(S)), NEW tt \in Seq(Seq(S))
  PROVE  FlattenSeq(ss \o tt) = FlattenSeq(ss) \o FlattenSeq(tt)
<1> DEFINE T == {u \in Seq(Seq(S)) : FlattenSeq(ss \o u) = FlattenSeq(ss) \o FlattenSeq(u)}
<1>0. FlattenSeq(ss) \in Seq(S)
  BY EmptySeq, FlattenAppend
<1>1. <<>> \in T
  BY <1>0, ConcatEmptySeq, FlattenEmpty, EmptySeq
<1>2. ASSUME NEW u \in T, NEW x \in Seq(S) PROVE Append(u, x) \in T
  <2>1. /\ Append(u, x) \in Seq(Seq(S)) /\ ss \o u \in Seq(Seq(S))
        /\ ss \o Append(u, x) = Append(ss \o u, x)
    BY AppendProperties, ConcatProperties
  <2>2. /\ FlattenSeq(Append(ss \o u, x)) = FlattenSeq(ss \o u) \o x
        /\ FlattenSeq(Append(u, x)) = FlattenSeq(u) \o x /\ FlattenSeq(u) \in Seq(S)
    BY <2>1, FlattenAppend
  <2>3. (FlattenSeq(ss) \o FlattenSeq(u)) \o x = FlattenSeq(ss) \o (FlattenSeq(u) \o x)
    BY <1>0, <2>2, ConcatAssociative, SMTT(30)
  <2>4. QED
    BY <2>1, <2>2, <2>3
<1>3. T = Seq(Seq(S))
  <2> HIDE DEF T
  <2>1. T \in SUBSET Seq(Seq(S))
    BY DEF T
  <2>2. QED
    BY <1>1, <1>2, <2>1, SeqInduction
<1>4. QED
  BY <1>3

-----------------------------------------------------------------------------
(* Base64: an element at a time, a group at a time *)

\* g of every element.
Mapped(s, g) == [i \in DOMAIN s |-> g[s[i]]]

LEMMA MappedIs ==
  ASSUME NEW S, NEW g, NEW r \in Seq(S)
  PROVE  /\ Len(Mapped(r, g)) = Len(r)
         /\ \A i \in 1 .. Len(r) : Mapped(r, g)[i] = g[r[i]]
BY LenProperties DEF Mapped

LEMMA MappedType ==
  ASSUME NEW S, NEW R, NEW g \in [S -> R], NEW r \in Seq(S)
  PROVE  Mapped(r, g) \in Seq(R)
<1>1. Len(r) \in Nat /\ DOMAIN r = 1 .. Len(r) /\ \A i \in 1 .. Len(r) : r[i] \in S
  BY LenProperties, ElementOfSeq
<1>2. Mapped(r, g) = [i \in 1 .. Len(r) |-> g[r[i]]]
  BY <1>1 DEF Mapped
<1>3. \A i \in 1 .. Len(r) : g[r[i]] \in R
  BY <1>1
<1>4. QED
  BY <1>1, <1>2, <1>3

LEMMA MappedAppend ==
  ASSUME NEW S, NEW R, NEW g \in [S -> R], NEW s \in Seq(S), NEW x \in S
  PROVE  Mapped(Append(s, x), g) = Append(Mapped(s, g), g[x])
<1> DEFINE t == Append(s, x)
           u == Append(Mapped(s, g), g[x])
<1>2. t \in Seq(S) /\ Len(t) = Len(s) + 1 /\ Len(s) \in Nat
      /\ \A i \in 1 .. Len(s) : t[i] = s[i]
  BY AppendProperties, LenProperties
<1>3. t[Len(s) + 1] = x
  BY AppendProperties
<1>4. /\ u \in Seq(R) /\ Len(u) = Len(s) + 1 /\ u[Len(s) + 1] = g[x]
      /\ \A i \in 1 .. Len(s) : u[i] = g[s[i]]
  <2> DEFINE v == Mapped(s, g)
             y == g[x]
  <2>1. /\ v \in Seq(R) /\ Len(v) = Len(s) /\ y \in R
        /\ \A i \in 1 .. Len(s) : v[i] = g[s[i]]
    BY MappedIs, MappedType
  <2> HIDE DEF v, y
  <2>2. /\ Append(v, y) \in Seq(R) /\ Len(Append(v, y)) = Len(v) + 1
        /\ \A i \in 1 .. Len(v) : Append(v, y)[i] = v[i]
        /\ Append(v, y)[Len(v) + 1] = y
    BY <2>1, AppendProperties
  <2>3. QED
    BY <2>1, <2>2 DEF v, y
<1> HIDE DEF t, u
<1>6. /\ Mapped(t, g) \in Seq(R) /\ Len(Mapped(t, g)) = Len(t)
      /\ \A i \in 1 .. Len(t) : Mapped(t, g)[i] = g[t[i]]
  BY <1>2, MappedIs, MappedType, SMTT(30)
<1>7. \A i \in 1 .. Len(t) : Mapped(t, g)[i] = u[i]
  <2>1. TAKE i \in 1 .. Len(t)
  <2>2. CASE i = Len(s) + 1
    BY <1>3, <1>4, <1>6, <2>2
  <2>3. CASE i # Len(s) + 1
    <3>1. i \in 1 .. Len(s)
      BY <1>2, <2>3
    <3>2. QED
      BY <1>2, <1>4, <1>6, <3>1
  <2>4. QED
    BY <2>2, <2>3
<1>8. Mapped(t, g) = u
  <2>1. Len(Mapped(t, g)) = Len(u)
    BY <1>2, <1>4, <1>6
  <2>2. QED
    BY <1>4, <1>6, <1>7, <2>1, SeqEqual
<1>9. QED
  BY <1>8 DEF t, u

LEMMA MappedEmpty == \A g : Mapped(<<>>, g) = <<>>
BY DEF Mapped

\* What a comprehension makes of a sequence, one element after the other.
LEMMA ComprehensionType ==
  ASSUME NEW S, NEW R, NEW g \in [S -> Seq(R)], NEW s \in Seq(S)
  PROVE  FlattenSeq(Mapped(s, g)) \in Seq(R)
<1>1. Mapped(s, g) \in Seq(Seq(R))
  <2> DEFINE Q == Seq(R)
  <2>1. g \in [S -> Q]
    OBVIOUS
  <2> HIDE DEF Q
  <2>2. Mapped(s, g) \in Seq(Q)
    BY <2>1, MappedType
  <2>3. QED
    BY <2>2 DEF Q
<1>2. QED
  BY <1>1, EmptySeq, FlattenAppend

LEMMA ComprehensionAppend ==
  ASSUME NEW S, NEW R, NEW g \in [S -> Seq(R)], NEW s \in Seq(S), NEW x \in S
  PROVE  FlattenSeq(Mapped(Append(s, x), g)) = FlattenSeq(Mapped(s, g)) \o g[x]
<1> DEFINE Q == Seq(R)
<1>1. g \in [S -> Q]
  OBVIOUS
<1> HIDE DEF Q
<1>2. Mapped(s, g) \in Seq(Q) /\ g[x] \in Q
  BY <1>1, MappedType
<1>3. Mapped(Append(s, x), g) = Append(Mapped(s, g), g[x])
  BY <1>1, MappedAppend
<1>4. Mapped(s, g) \in Seq(Seq(R)) /\ g[x] \in Seq(R)
  BY <1>2 DEF Q
<1>5. QED
  BY <1>3, <1>4, FlattenAppend

LEMMA ComprehensionConcat ==
  ASSUME NEW S, NEW R, NEW g \in [S -> Seq(R)], NEW s \in Seq(S), NEW t \in Seq(S)
  PROVE  FlattenSeq(Mapped(s \o t, g)) = FlattenSeq(Mapped(s, g)) \o FlattenSeq(Mapped(t, g))
<1> DEFINE F(r) == FlattenSeq(Mapped(r, g))
           T == {r \in Seq(S) : F(s \o r) = F(s) \o F(r)}
<1>1. /\ F(<<>>) = <<>>
      /\ \A r \in Seq(S) : F(r) \in Seq(R) /\ \A x \in S : F(Append(r, x)) = F(r) \o g[x]
  <2>1. F(<<>>) = <<>>
    BY MappedEmpty, FlattenEmpty
  <2>2. ASSUME NEW r \in Seq(S)
        PROVE  F(r) \in Seq(R) /\ \A x \in S : F(Append(r, x)) = F(r) \o g[x]
    <3>1. F(r) \in Seq(R)
      BY ComprehensionType
    <3>2. ASSUME NEW x \in S PROVE F(Append(r, x)) = F(r) \o g[x]
      BY ComprehensionAppend
    <3>3. QED
      BY <3>1, <3>2
  <2>3. QED
    BY <2>1, <2>2
<1> HIDE DEF F
<1>2. <<>> \in T
  BY <1>1, ConcatEmptySeq, EmptySeq
<1>3. ASSUME NEW r \in T, NEW x \in S PROVE Append(r, x) \in T
  <2>1. Append(r, x) \in Seq(S) /\ s \o r \in Seq(S) /\ s \o Append(r, x) = Append(s \o r, x)
    BY AppendProperties, ConcatProperties, SMTT(30)
  <2>2. F(Append(s \o r, x)) = F(s \o r) \o g[x] /\ F(Append(r, x)) = F(r) \o g[x]
    BY <1>1, <2>1
  <2>3. (F(s) \o F(r)) \o g[x] = F(s) \o (F(r) \o g[x])
    <3>1. F(s) \in Seq(R) /\ F(r) \in Seq(R) /\ g[x] \in Seq(R)
      BY <1>1
    <3>2. ASSUME NEW u \in Seq(R), NEW v \in Seq(R), NEW w \in Seq(R)
          PROVE  (u \o v) \o w = u \o (v \o w)
      BY ConcatAssociative, SMTT(30)
    <3>3. QED
      BY <3>1, <3>2
  <2>4. QED
    BY <2>1, <2>2, <2>3
<1>4. T = Seq(S)
  <2> HIDE DEF T
  <2>1. T \in SUBSET Seq(S)
    BY DEF T
  <2>2. QED
    BY <1>2, <1>3, <2>1, SeqInduction
<1>5. QED
  BY <1>4 DEF F

LEMMA OnlyConcat ==
  ASSUME NEW C, NEW s \in Seq(Nat), NEW t \in Seq(Nat)
  PROVE  Only(s, C) \in Seq(Nat) /\ Only(s \o t, C) = Only(s, C) \o Only(t, C)
<1> DEFINE g == [x \in Nat |-> IF x \in C THEN <<x>> ELSE <<>>]
<1>1. g \in [Nat -> Seq(Nat)]
  <2>1. \A x \in Nat : <<x>> \in Seq(Nat) /\ <<>> \in Seq(Nat)
    BY EmptySeq
  <2>2. QED
    BY <2>1
<1>2. ASSUME NEW r \in Seq(Nat) PROVE Only(r, C) = FlattenSeq(Mapped(r, g))
  <2>1. DOMAIN r = 1 .. Len(r) /\ \A i \in 1 .. Len(r) : r[i] \in Nat
    BY LenProperties, ElementOfSeq
  <2>2. [i \in DOMAIN r |-> IF r[i] \in C THEN <<r[i]>> ELSE <<>>] = Mapped(r, g)
    BY <2>1 DEF Mapped
  <2>3. QED
    BY <2>2 DEF Only
<1> HIDE DEF g
<1>3. s \o t \in Seq(Nat)
  BY ConcatProperties
<1>4. FlattenSeq(Mapped(s, g)) \in Seq(Nat)
  BY <1>1, ComprehensionType
<1>5. FlattenSeq(Mapped(s \o t, g)) = FlattenSeq(Mapped(s, g)) \o FlattenSeq(Mapped(t, g))
  BY <1>1, ComprehensionConcat
<1>6. QED
  BY <1>2, <1>3, <1>4, <1>5

LEMMA OnlyOne ==
  ASSUME NEW C, NEW x \in Nat
  PROVE  Only(<<x>>, C) = IF x \in C THEN <<x>> ELSE <<>>
<1> DEFINE y == IF x \in C THEN <<x>> ELSE <<>>
<1>1. y \in Seq(Nat) /\ <<>> \in Seq(Seq(Nat))
  BY EmptySeq
<1>2. [i \in DOMAIN <<x>> |-> IF <<x>>[i] \in C THEN <<<<x>>[i]>> ELSE <<>>] = Append(<<>>, y)
  OBVIOUS
<1>3. FlattenSeq(Append(<<>>, y)) = <<>> \o y
  BY <1>1, FlattenAppend, FlattenEmpty
<1>4. QED
  BY <1>1, <1>2, <1>3, ConcatEmptySeq DEF Only

LEMMA OnlyAll ==
  ASSUME NEW C \in SUBSET Nat, NEW s \in Seq(C)
  PROVE  Only(s, C) = s
<1> DEFINE T == {r \in Seq(C) : Only(r, C) = r}
<1>1. <<>> \in T
  <2>1. [i \in DOMAIN <<>> |-> IF <<>>[i] \in C THEN << <<>>[i]>> ELSE <<>>] = <<>>
    OBVIOUS
  <2>2. QED
    BY <2>1, FlattenEmpty, EmptySeq DEF Only
<1>2. ASSUME NEW r \in T, NEW x \in C PROVE Append(r, x) \in T
  <2>1. Append(r, x) \in Seq(C) /\ Append(r, x) = r \o <<x>> /\ r \in Seq(Nat) /\ <<x>> \in Seq(Nat)
    <3>1. Append(r, x) \in Seq(C) /\ Append(r, x) = r \o <<x>>
      BY AppendProperties, AppendIsConcat
    <3>2. r \in Seq(Nat) /\ x \in Nat
      BY SeqMonotonic
    <3>3. QED
      BY <3>1, <3>2
  <2>2. Only(r \o <<x>>, C) = Only(r, C) \o Only(<<x>>, C)
    BY <2>1, OnlyConcat
  <2>3. Only(<<x>>, C) = <<x>>
    BY OnlyOne
  <2>4. QED
    BY <2>1, <2>2, <2>3
<1>3. T = Seq(C)
  <2> HIDE DEF T
  <2>1. T \in SUBSET Seq(C)
    BY DEF T
  <2>2. QED
    BY <1>1, <1>2, <2>1, SeqInduction
<1>4. QED
  BY <1>3

\* By groups of n: whatever holds of short sequences, and of a group put before a sequence
\* of which it holds, holds of all.
LEMMA GroupInduction ==
  ASSUME NEW S, NEW n \in Nat \ {0}, NEW T \in SUBSET Seq(S),
         \A s \in Seq(S) : Len(s) < n => s \in T,
         \A g \in Seq(S) : \A t \in T : Len(g) = n => g \o t \in T
  PROVE  T = Seq(S)
<1> DEFINE N == {k \in Nat : \A s \in Seq(S) : Len(s) <= k => s \in T}
<1>1. 0 \in N
  BY LenProperties
<1>2. ASSUME NEW k \in N PROVE k + 1 \in N
  <2>1. SUFFICES ASSUME NEW s \in Seq(S), Len(s) <= k + 1, Len(s) >= n PROVE s \in T
    BY LenProperties
  <2> DEFINE g == SubSeq(s, 1, n)
             t == SubSeq(s, n + 1, Len(s))
  <2>2. Len(s) \in Nat /\ \A i \in 1 .. Len(s) : s[i] \in S
    BY LenProperties, ElementOfSeq
  <2>3. g \in Seq(S) /\ Len(g) = n
    <3>1. \A i \in 1 .. n : s[i] \in S
      BY <2>1, <2>2
    <3>2. QED
      BY <2>1, <2>2, <3>1, SubSeqProperties
  <2>4. t \in Seq(S) /\ Len(t) = Len(s) - n
    <3>1. \A i \in n + 1 .. Len(s) : s[i] \in S
      BY <2>1, <2>2
    <3>2. n + 1 \in Int /\ Len(s) \in Int
      BY <2>2
    <3>3. QED
      BY <2>1, <2>2, <3>1, <3>2, SubSeqProperties
  <2>5. s = g \o t
    <3>0. 1 \in 1 .. Len(s) + 1 /\ n \in 1 - 1 .. Len(s) /\ Len(s) \in n .. Len(s)
      BY <2>1, <2>2
    <3>1. SubSeq(s, 1, n) \o SubSeq(s, n + 1, Len(s)) = SubSeq(s, 1, Len(s))
      BY <3>0, ConcatAdjacentSubSeq
    <3>2. QED
      BY <3>1, SubSeqFull
  <2> HIDE DEF g, t
  <2>6. Len(t) <= k
    BY <2>1, <2>2, <2>4
  <2>7. QED
    BY <2>3, <2>4, <2>5, <2>6
<1>3. N = Nat
  <2> HIDE DEF N
  <2>1. N \in SUBSET Nat
    BY DEF N
  <2>2. QED
    BY <1>1, <1>2, <2>1, SetInduction
<1>4. \A s \in Seq(S) : s \in T
  BY <1>3, LenProperties
<1>5. QED
  BY <1>4

LEMMA PiecesOfConcat ==
  ASSUME NEW S, NEW n \in {3, 4}, NEW g \in Seq(S), Len(g) = n, NEW t \in Seq(S)
  PROVE  Pieces(t, n) \in Seq(Seq(S)) /\ Pieces(g \o t, n) = <<g>> \o Pieces(t, n)
<1> DEFINE Number(r)    == (Len(r) + n - 1) \div n
           Piece(r, k) == SubSeq(r, n * (k - 1) + 1, IF n * k <= Len(r) THEN n * k ELSE Len(r))
           s           == g \o t
<1>1. ASSUME NEW r \in Seq(S)
      PROVE  /\ Pieces(r, n) \in Seq(Seq(S)) /\ Len(Pieces(r, n)) = Number(r) /\ Number(r) \in Nat
             /\ \A k \in 1 .. Number(r) : Pieces(r, n)[k] = Piece(r, k)
  <2>1. Len(r) \in Nat /\ \A i \in 1 .. Len(r) : r[i] \in S
    BY LenProperties, ElementOfSeq
  <2>2. Number(r) \in Nat
    BY <2>1
  <2>3. Pieces(r, n) = [k \in 1 .. Number(r) |-> Piece(r, k)]
    BY DEF Pieces
  <2>4. ASSUME NEW k \in 1 .. Number(r) PROVE Piece(r, k) \in Seq(S)
    <3> DEFINE m == n * (k - 1) + 1
               e == IF n * k <= Len(r) THEN n * k ELSE Len(r)
    <3>1. m \in Int /\ e \in Int /\ m >= 1 /\ e <= Len(r)
      BY <2>1, <2>2
    <3>2. \A i \in m .. e : r[i] \in S
      BY <2>1, <3>1
    <3> HIDE DEF m, e
    <3>3. SubSeq(r, m, e) \in Seq(S)
      BY <3>1, <3>2, SubSeqProperties
    <3>4. QED
      BY <3>3 DEF m, e
  <2> HIDE DEF Number, Piece
  <2>5. QED
    BY <2>2, <2>3, <2>4
<1>2. /\ s \in Seq(S) /\ Len(s) = n + Len(t) /\ Len(t) \in Nat
      /\ \A i \in 1 .. n : s[i] = g[i]
      /\ \A i \in 1 .. Len(t) : s[n + i] = t[i]
  <2>1. s \in Seq(S) /\ Len(s) = n + Len(t) /\ Len(t) \in Nat
    BY ConcatProperties, LenProperties
  <2>2. \A i \in 1 .. n + Len(t) : s[i] = IF i <= n THEN g[i] ELSE t[i - n]
    BY ConcatProperties
  <2>3. \A i \in 1 .. Len(t) : n + i \in 1 .. n + Len(t) /\ ~(n + i <= n) /\ n + i - n = i
    BY <2>1
  <2>4. \A i \in 1 .. n : i \in 1 .. n + Len(t)
    BY <2>1
  <2>5. QED
    BY <2>1, <2>2, <2>3, <2>4
<1> HIDE DEF s
<1>3. Number(s) = 1 + Number(t) /\ Number(t) \in Nat
  <2>1. \A l \in Nat : /\ (n + l + n - 1) \div n = 1 + (l + n - 1) \div n
                      /\ (l + n - 1) \div n \in Nat
    <3>1. CASE n = 3
      BY <3>1
    <3>2. CASE n = 4
      BY <3>2
    <3>3. QED
      BY <3>1, <3>2
  <2>2. QED
    BY <1>2, <2>1
<1>4. Piece(s, 1) = g
  <2>1. Piece(s, 1) = SubSeq(s, 1, n)
    <3>1. n * (1 - 1) + 1 = 1 /\ n * 1 = n /\ n <= Len(s)
      BY <1>2
    <3>2. QED
      BY <3>1
  <2>2. SubSeq(s, 1, n) = SubSeq(g, 1, n)
    <3>1. n \in 1 .. Len(g) /\ 1 \in 1 .. Len(g)
      OBVIOUS
    <3>2. QED
      BY <3>1, SubSeqOfConcat1 DEF s
  <2>3. QED
    BY <2>1, <2>2, SubSeqFull
<1>5. ASSUME NEW k \in 1 .. Number(t) PROVE Piece(s, k + 1) = Piece(t, k)
  <2> DEFINE m == n * (k - 1) + 1
             e == IF n * k <= Len(t) THEN n * k ELSE Len(t)
             x == n * (k + 1 - 1) + 1
             y == IF n * (k + 1) <= Len(s) THEN n * (k + 1) ELSE Len(s)
  <2>1. /\ m \in 1 .. Len(t) /\ e \in 1 .. Len(t)
        /\ Piece(t, k) = SubSeq(t, m, e) /\ Piece(s, k + 1) = SubSeq(s, x, y)
    BY <1>2
  <2>2. x = n + m /\ y = n + e
    <3>1. Len(t) \in Nat /\ Len(s) = n + Len(t) /\ k \in Nat
      BY <1>2, <1>3
    <3>2. CASE n = 3
      BY <3>1, <3>2, SMTT(30)
    <3>3. CASE n = 4
      BY <3>1, <3>3, SMTT(30)
    <3>4. QED
      BY <3>2, <3>3
  <2> HIDE DEF m, e, x, y
  <2>3. /\ x \in Len(g) + 1 .. Len(g) + Len(t) /\ y \in Len(g) + 1 .. Len(g) + Len(t)
        /\ x - Len(g) = m /\ y - Len(g) = e
    BY <1>2, <2>1, <2>2
  <2>4. SubSeq(s, x, y) = SubSeq(t, x - Len(g), y - Len(g))
    BY <2>3, SubSeqOfConcat2 DEF s
  <2>5. QED
    BY <2>1, <2>3, <2>4
<1> DEFINE u == Pieces(s, n)
           v == <<g>> \o Pieces(t, n)
<1>6. u \in Seq(Seq(S)) /\ Len(u) = Number(s) /\ \A k \in 1 .. Number(s) : u[k] = Piece(s, k)
  BY <1>1, <1>2
<1>7. /\ v \in Seq(Seq(S)) /\ Len(v) = 1 + Number(t) /\ v[1] = g
      /\ \A k \in 1 .. Number(t) : v[k + 1] = Piece(t, k)
  <2>1. <<g>> \in Seq(Seq(S)) /\ Len(<<g>>) = 1 /\ <<g>>[1] = g
    OBVIOUS
  <2> DEFINE p == Pieces(t, n)
  <2>2. p \in Seq(Seq(S)) /\ Len(p) = Number(t) /\ Number(t) \in Nat
        /\ \A k \in 1 .. Number(t) : p[k] = Piece(t, k)
    BY <1>1
  <2> HIDE DEF p, Number, Piece
  <2>3. /\ <<g>> \o p \in Seq(Seq(S)) /\ Len(<<g>> \o p) = 1 + Number(t)
        /\ \A i \in 1 .. 1 + Number(t) : (<<g>> \o p)[i] = IF i <= 1 THEN <<g>>[i] ELSE p[i - 1]
    BY <2>1, <2>2, ConcatProperties
  <2>4. \A k \in 1 .. Number(t) : k + 1 \in 1 .. 1 + Number(t) /\ ~(k + 1 <= 1) /\ k + 1 - 1 = k
    BY <2>2
  <2>5. QED
    BY <2>1, <2>2, <2>3, <2>4 DEF p
<1> HIDE DEF u, v, Number, Piece
<1>8. \A k \in 1 .. Len(u) : u[k] = v[k]
  <2>1. TAKE k \in 1 .. Len(u)
  <2>2. CASE k = 1
    BY <1>3, <1>4, <1>6, <1>7, <2>2
  <2>3. CASE k # 1
    <3>1. PICK j \in 1 .. Number(t) : k = j + 1
      BY <1>3, <1>6, <2>3
    <3>2. QED
      BY <1>3, <1>5, <1>6, <1>7, <3>1
  <2>4. QED
    BY <2>2, <2>3
<1>9. u = v
  BY <1>3, <1>6, <1>7, <1>8, SeqEqual
<1>10. QED
  BY <1>1, <1>9 DEF u, v, s

LEMMA PiecesShort ==
  ASSUME NEW S, NEW n \in {3, 4}, NEW s \in Seq(S), Len(s) <= n
  PROVE  Pieces(s, n) = IF s = <<>> THEN <<>> ELSE <<s>>
<1>1. Len(s) \in Nat
  BY LenProperties
<1>2. CASE s = <<>>
  <2>1. (Len(s) + n - 1) \div n = 0
    BY <1>2, EmptySeq
  <2>2. QED
    BY <1>2, <2>1 DEF Pieces
<1>3. CASE s # <<>>
  <2>1. Len(s) >= 1
    BY <1>1, <1>3, EmptySeq
  <2>2. (Len(s) + n - 1) \div n = 1
    BY <1>1, <2>1
  <2>3. (IF n * 1 <= Len(s) THEN n * 1 ELSE Len(s)) = Len(s) /\ n * (1 - 1) + 1 = 1
    BY <1>1
  <2>4. SubSeq(s, 1, Len(s)) = s
    BY SubSeqFull
  <2>5. QED
    <3> DEFINE Piece(k) == SubSeq(s, n * (k - 1) + 1, IF n * k <= Len(s) THEN n * k ELSE Len(s))
    <3>1. Piece(1) = s
      BY <2>3, <2>4
    <3>2. Pieces(s, n) = [k \in 1 .. 1 |-> Piece(k)]
      BY <2>2 DEF Pieces
    <3> HIDE DEF Piece
    <3>3. [k \in 1 .. 1 |-> Piece(k)] = <<s>>
      BY <3>1
    <3>4. QED
      BY <1>3, <3>2, <3>3
<1>4. QED
  BY <1>2, <1>3

-----------------------------------------------------------------------------
(* Base64: one group *)

LEMMA ComprehensionOne ==
  ASSUME NEW S, NEW R, NEW g \in [S -> Seq(R)], NEW x \in S
  PROVE  FlattenSeq(Mapped(<<x>>, g)) = g[x]
<1>1. <<x>> = Append(<<>>, x) /\ <<>> \in Seq(S)
  BY EmptySeq
<1>2. FlattenSeq(Mapped(Append(<<>>, x), g)) = FlattenSeq(Mapped(<<>>, g)) \o g[x]
  BY <1>1, ComprehensionAppend
<1>3. FlattenSeq(Mapped(<<>>, g)) = <<>> /\ g[x] \in Seq(R)
  BY MappedEmpty, FlattenEmpty
<1>4. QED
  BY <1>1, <1>2, <1>3, ConcatEmptySeq

GroupsOf(S, n) == {g \in Seq(S) : Len(g) \in 1 .. n}

LEMMA PiecesType ==
  ASSUME NEW S, NEW n \in {3, 4}, NEW s \in Seq(S)
  PROVE  Pieces(s, n) \in Seq(GroupsOf(S, n))
<1> DEFINE G == GroupsOf(S, n)
           T == {r \in Seq(S) : Pieces(r, n) \in Seq(G)}
<1>0. \A g \in Seq(S) : Len(g) \in 1 .. n => g \in G
  BY DEF GroupsOf
<1> HIDE DEF G
<1>1. ASSUME NEW r \in Seq(S), Len(r) < n PROVE r \in T
  <2>1. Pieces(r, n) = IF r = <<>> THEN <<>> ELSE <<r>>
    BY <1>1, PiecesShort, LenProperties
  <2>2. r # <<>> => r \in G
    BY <1>0, <1>1, EmptySeq, LenProperties
  <2>3. Pieces(r, n) \in Seq(G)
    <3>1. CASE r = <<>>
      BY <2>1, <3>1, EmptySeq
    <3>2. CASE r # <<>>
      <4>1. Pieces(r, n) = <<r>> /\ r \in G
        BY <2>1, <2>2, <3>2
      <4>2. QED
        BY <4>1
    <3>3. QED
      BY <3>1, <3>2
  <2>4. QED
    BY <2>3
<1>2. ASSUME NEW g \in Seq(S), NEW t \in T, Len(g) = n PROVE g \o t \in T
  <2>1. Pieces(g \o t, n) = <<g>> \o Pieces(t, n)
    BY <1>2, PiecesOfConcat
  <2>2. g \in G
    BY <1>0, <1>2
  <2>3. <<g>> \in Seq(G) /\ Pieces(t, n) \in Seq(G)
    BY <2>2
  <2>4. g \o t \in Seq(S) /\ <<g>> \o Pieces(t, n) \in Seq(G)
    BY <2>3, ConcatProperties
  <2>5. QED
    BY <2>1, <2>4
<1>3. T = Seq(S)
  <2> HIDE DEF T
  <2>1. T \in SUBSET Seq(S) /\ n \in Nat \ {0}
    BY DEF T
  <2>2. QED
    BY <1>1, <1>2, <2>1, GroupInduction
<1>4. QED
  BY <1>3 DEF G

SixBits == 0 .. 63
Bytes8  == 0 .. 255
Chars   == 0 .. Foreign

\* k characters of padding.
Pads(k) == [i \in 1 .. k |-> Pad]

LEMMA Tuples ==
  ASSUME NEW S, NEW s \in Seq(S)
  PROVE  /\ Len(s) = 1 => s = <<s[1]>>
         /\ Len(s) = 2 => s = <<s[1], s[2]>>
         /\ Len(s) = 3 => s = <<s[1], s[2], s[3]>>
         /\ Len(s) = 4 => s = <<s[1], s[2], s[3], s[4]>>
<1>1. Len(s) = 1 => s = <<s[1]>>
  OBVIOUS
<1>2. Len(s) = 2 => s = <<s[1], s[2]>>
  OBVIOUS
<1>3. Len(s) = 3 => s = <<s[1], s[2], s[3]>>
  OBVIOUS
<1>4. Len(s) = 4 => s = <<s[1], s[2], s[3], s[4]>>
  OBVIOUS
<1>5. QED
  BY <1>1, <1>2, <1>3, <1>4

LEMMA Beginning ==
  ASSUME NEW S, NEW s \in Seq(S), NEW n \in 1 .. Len(s)
  PROVE  /\ SubSeq(s, 1, n) \in Seq(S) /\ Len(SubSeq(s, 1, n)) = n
         /\ \A i \in 1 .. n : SubSeq(s, 1, n)[i] = s[i]
<1>1. Len(s) \in Nat /\ \A i \in 1 .. n : s[i] \in S
  BY LenProperties, ElementOfSeq
<1>2. SubSeq(s, 1, n) \in Seq(S) /\ Len(SubSeq(s, 1, n)) = n
  BY <1>1, SubSeqProperties
<1>3. \A i \in 1 .. n : SubSeq(s, 1, n)[i] = s[i]
  BY <1>1, SubSeqProperties
<1>4. QED
  BY <1>2, <1>3

LEMMA CutFour ==
  ASSUME NEW a, NEW b, NEW c, NEW d
  PROVE  /\ SubSeq(<<a, b, c, d>>, 1, 2) = <<a, b>>
         /\ SubSeq(<<a, b, c, d>>, 1, 3) = <<a, b, c>>
         /\ SubSeq(<<a, b, c, d>>, 1, 4) = <<a, b, c, d>>
<1> DEFINE S == {a, b, c, d}
           s == <<a, b, c, d>>
           t(n) == SubSeq(s, 1, n)
<1>1. s \in Seq(S) /\ Len(s) = 4 /\ s[1] = a /\ s[2] = b /\ s[3] = c /\ s[4] = d
  OBVIOUS
<1> HIDE DEF S, s
<1>2. ASSUME NEW n \in 2 .. 4
      PROVE  t(n) \in Seq(S) /\ Len(t(n)) = n /\ \A i \in 1 .. n : t(n)[i] = s[i]
  <2>1. n \in 1 .. Len(s)
    BY <1>1
  <2>2. QED
    BY <1>1, <2>1, Beginning
<1> HIDE DEF t
<1>3. t(2) = <<a, b>>
  <2>1. t(2) \in Seq(S) /\ Len(t(2)) = 2 /\ t(2)[1] = a /\ t(2)[2] = b
    BY <1>1, <1>2
  <2>2. QED
    BY <2>1, Tuples
<1>4. t(3) = <<a, b, c>>
  <2>1. t(3) \in Seq(S) /\ Len(t(3)) = 3 /\ t(3)[1] = a /\ t(3)[2] = b /\ t(3)[3] = c
    BY <1>1, <1>2
  <2>2. QED
    BY <2>1, Tuples
<1>5. t(4) = <<a, b, c, d>>
  <2>1. t(4) \in Seq(S) /\ Len(t(4)) = 4 /\ t(4)[1] = a /\ t(4)[2] = b /\ t(4)[3] = c /\ t(4)[4] = d
    BY <1>1, <1>2
  <2>2. QED
    BY <2>1, Tuples
<1>6. QED
  BY <1>3, <1>4, <1>5 DEF t, s

LEMMA CutThree ==
  ASSUME NEW a, NEW b, NEW c
  PROVE  /\ SubSeq(<<a, b, c>>, 1, 1) = <<a>>
         /\ SubSeq(<<a, b, c>>, 1, 2) = <<a, b>>
         /\ SubSeq(<<a, b, c>>, 1, 3) = <<a, b, c>>
<1> DEFINE S == {a, b, c}
           s == <<a, b, c>>
           t(n) == SubSeq(s, 1, n)
<1>1. s \in Seq(S) /\ Len(s) = 3 /\ s[1] = a /\ s[2] = b /\ s[3] = c
  OBVIOUS
<1> HIDE DEF S, s
<1>2. ASSUME NEW n \in 1 .. 3
      PROVE  t(n) \in Seq(S) /\ Len(t(n)) = n /\ \A i \in 1 .. n : t(n)[i] = s[i]
  <2>1. n \in 1 .. Len(s)
    BY <1>1
  <2>2. QED
    BY <1>1, <2>1, Beginning
<1> HIDE DEF t
<1>3. t(1) = <<a>>
  <2>1. t(1) \in Seq(S) /\ Len(t(1)) = 1 /\ t(1)[1] = a
    BY <1>1, <1>2
  <2>2. QED
    BY <2>1, Tuples
<1>4. t(2) = <<a, b>>
  <2>1. t(2) \in Seq(S) /\ Len(t(2)) = 2 /\ t(2)[1] = a /\ t(2)[2] = b
    BY <1>1, <1>2
  <2>2. QED
    BY <2>1, Tuples
<1>5. t(3) = <<a, b, c>>
  <2>1. t(3) \in Seq(S) /\ Len(t(3)) = 3 /\ t(3)[1] = a /\ t(3)[2] = b /\ t(3)[3] = c
    BY <1>1, <1>2
  <2>2. QED
    BY <2>1, Tuples
<1>6. QED
  BY <1>3, <1>4, <1>5 DEF t, s

LEMMA JoinTuples ==
  ASSUME NEW a, NEW b, NEW c, NEW d
  PROVE  <<a, b, c>> \o <<d>> = <<a, b, c, d>> /\ <<a, b>> \o <<c, d>> = <<a, b, c, d>>
<1> DEFINE S == {a, b, c, d}
<1>1. ASSUME NEW s \in Seq(S), NEW t \in Seq(S), NEW m \in {2, 3}, Len(s) = m, Len(t) = 4 - m,
             s[1] = a, s[2] = b, IF m = 2 THEN t[1] = c /\ t[2] = d ELSE s[3] = c /\ t[1] = d
      PROVE  s \o t = <<a, b, c, d>>
  <2> DEFINE r == s \o t
  <2>1. /\ r \in Seq(S) /\ Len(r) = 4
        /\ \A i \in 1 .. 4 : r[i] = IF i <= m THEN s[i] ELSE t[i - m]
    <3>1. Len(s) + Len(t) = 4
      BY <1>1
    <3>2. QED
      BY <1>1, <3>1, ConcatProperties
  <2> HIDE DEF r, S
  <2>2. r[1] = a /\ r[2] = b
    BY <1>1, <2>1
  <2>3. r[3] = c /\ r[4] = d
    <3>1. CASE m = 2
      BY <1>1, <2>1, <3>1
    <3>2. CASE m = 3
      BY <1>1, <2>1, <3>2
    <3>3. QED
      BY <3>1, <3>2
  <2>4. QED
    BY <2>1, <2>2, <2>3, Tuples DEF r
<1>2. /\ <<a, b, c>> \in Seq(S) /\ <<d>> \in Seq(S) /\ <<a, b>> \in Seq(S) /\ <<c, d>> \in Seq(S)
  OBVIOUS
<1> HIDE DEF S
<1>3. <<a, b, c>> \o <<d>> = <<a, b, c, d>>
  <2> DEFINE s == <<a, b, c>>
             t == <<d>>
  <2>1. Len(s) = 3 /\ Len(t) = 4 - 3 /\ s[1] = a /\ s[2] = b /\ s[3] = c /\ t[1] = d
    OBVIOUS
  <2>2. s \in Seq(S) /\ t \in Seq(S)
    BY <1>2
  <2> HIDE DEF s, t
  <2>3. s \o t = <<a, b, c, d>>
    BY <1>1, <2>1, <2>2, SMTT(30)
  <2>4. QED
    BY <2>3 DEF s, t
<1>4. <<a, b>> \o <<c, d>> = <<a, b, c, d>>
  <2> DEFINE s == <<a, b>>
             t == <<c, d>>
  <2>1. Len(s) = 2 /\ Len(t) = 4 - 2 /\ s[1] = a /\ s[2] = b /\ t[1] = c /\ t[2] = d
    OBVIOUS
  <2>2. s \in Seq(S) /\ t \in Seq(S)
    BY <1>2
  <2> HIDE DEF s, t
  <2>3. s \o t = <<a, b, c, d>>
    BY <1>1, <2>1, <2>2
  <2>4. QED
    BY <2>3 DEF s, t
<1>5. QED
  BY <1>3, <1>4

LEMMA TripleDigits ==
  ASSUME NEW a \in Bytes8, NEW b \in Bytes8, NEW c \in Bytes8
  PROVE  \E d1, d2, d3, d4 \in SixBits :
           /\ EncodeTriple(a, b, c) = <<d1, d2, d3, d4>>
           /\ ((d1 * 64 + d2) * 64 + d3) * 64 + d4 = (a * 256 + b) * 256 + c
<1> DEFINE n  == (a * 256 + b) * 256 + c
           m  == n \div 64
           k  == m \div 64
           d1 == k \div 64
           d2 == k % 64
           d3 == m % 64
           d4 == n % 64
<1>1. a \in 0 .. 255 /\ b \in 0 .. 255 /\ c \in 0 .. 255 /\ n \in Nat
  BY DEF Bytes8
<1>2. EncodeTriple(a, b, c) = <<d1, d2, d3, d4>>
  BY Zenon DEF EncodeTriple
<1> HIDE DEF n
<1>3. m \in Nat /\ d4 \in 0 .. 63 /\ n = m * 64 + d4
  BY <1>1
<1> HIDE DEF m, d4
<1>4. k \in Nat /\ d3 \in 0 .. 63 /\ m = k * 64 + d3
  BY <1>3
<1> HIDE DEF k, d3
<1>5. d1 \in Nat /\ d2 \in 0 .. 63 /\ k = d1 * 64 + d2
  BY <1>4
<1> HIDE DEF d1, d2
<1>6. ((d1 * 64 + d2) * 64 + d3) * 64 + d4 = (a * 256 + b) * 256 + c
  BY <1>3, <1>4, <1>5 DEF n
<1>7. d1 \in 0 .. 63
  BY <1>1, <1>3, <1>4, <1>5, <1>6
<1>8. d1 \in SixBits /\ d2 \in SixBits /\ d3 \in SixBits /\ d4 \in SixBits
  BY <1>3, <1>4, <1>5, <1>7 DEF SixBits
<1>9. QED
  BY <1>2, <1>6, <1>8

LEMMA TripleBytes ==
  ASSUME NEW a \in Bytes8, NEW b \in Bytes8, NEW c \in Bytes8, NEW n, n = (a * 256 + b) * 256 + c
  PROVE  n \div 256 = a * 256 + b /\ n % 256 = c /\ (a * 256 + b) \div 256 = a /\ (a * 256 + b) % 256 = b
<1>1. a \in 0 .. 255 /\ b \in 0 .. 255 /\ c \in 0 .. 255
  BY DEF Bytes8
<1>2. n \div 256 = a * 256 + b
  BY <1>1
<1>3. n % 256 = c
  BY <1>1
<1>4. (a * 256 + b) \div 256 = a /\ (a * 256 + b) % 256 = b
  BY <1>1
<1>5. QED
  BY <1>2, <1>3, <1>4

LEMMA PadsAre ==
  /\ \A k \in 0 .. 3 : Pads(k) \in Seq({Pad}) /\ Len(Pads(k)) = k
  /\ Pads(0) = <<>> /\ Pads(1) = <<Pad>> /\ Pads(2) = <<Pad, Pad>>
<1>1. \A k \in 0 .. 3 : Pads(k) \in Seq({Pad}) /\ Len(Pads(k)) = k /\ \A i \in 1 .. k : Pads(k)[i] = Pad
  BY DEF Pads
<1>2. Pads(0) = <<>>
  BY <1>1, EmptySeq
<1>3. Pads(1) = <<Pad>>
  <2>1. Pads(1) \in Seq({Pad}) /\ Len(Pads(1)) = 1 /\ Pads(1)[1] = Pad
    BY <1>1
  <2>2. QED
    BY <2>1, Tuples
<1>4. Pads(2) = <<Pad, Pad>>
  <2>1. Pads(2) \in Seq({Pad}) /\ Len(Pads(2)) = 2 /\ Pads(2)[1] = Pad /\ Pads(2)[2] = Pad
    BY <1>1
  <2>2. QED
    BY <2>1, Tuples
<1>5. QED
  BY <1>1, <1>2, <1>3, <1>4

LEMMA LastDigit ==
  ASSUME NEW x \in Nat, NEW y \in Nat, NEW d \in SixBits, x * 64 + d = y * 64
  PROVE  d = 0 /\ x = y
BY DEF SixBits

LEMMA TwoBytesEnd ==
  ASSUME NEW a \in Bytes8, NEW b \in Bytes8,
         NEW d1 \in SixBits, NEW d2 \in SixBits, NEW d3 \in SixBits, NEW d4 \in SixBits,
         ((d1 * 64 + d2) * 64 + d3) * 64 + d4 = (a * 256 + b) * 256 + 0
  PROVE  d4 = 0
<1> DEFINE x == (d1 * 64 + d2) * 64 + d3
           y == (a * 256 + b) * 4
<1>1. d1 \in Nat /\ d2 \in Nat /\ d3 \in Nat /\ d4 \in Nat /\ a \in Nat /\ b \in Nat
  BY DEF Bytes8, SixBits
<1>2. x \in Nat /\ y \in Nat /\ x * 64 + d4 = y * 64
  BY <1>1
<1> HIDE DEF x, y
<1>3. QED
  BY <1>2, LastDigit

LEMMA OneByteEnds ==
  ASSUME NEW a \in Bytes8,
         NEW d1 \in SixBits, NEW d2 \in SixBits, NEW d3 \in SixBits, NEW d4 \in SixBits,
         ((d1 * 64 + d2) * 64 + d3) * 64 + d4 = (a * 256 + 0) * 256 + 0
  PROVE  d4 = 0 /\ d3 = 0
<1> DEFINE x == d1 * 64 + d2
           y == a * 16
           v == x * 64 + d3
           w == y * 64
<1>1. d1 \in Nat /\ d2 \in Nat /\ d3 \in Nat /\ d4 \in Nat /\ a \in Nat
  BY DEF Bytes8, SixBits
<1>2. x \in Nat /\ y \in Nat /\ v \in Nat /\ w \in Nat /\ v * 64 + d4 = w * 64
  BY <1>1
<1> HIDE DEF x, y
<1>3. d4 = 0 /\ v = w
  <2> HIDE DEF v, w
  <2>1. QED
    BY <1>2, LastDigit
<1>4. d3 = 0
  <2>1. x \in Nat /\ y \in Nat /\ x * 64 + d3 = y * 64
    BY <1>2, <1>3
  <2>2. QED
    BY <2>1, LastDigit
<1>5. QED
  BY <1>3, <1>4

\* A group of one to three bytes makes four characters, that decode to it.
LEMMA GroupReadsBack ==
  ASSUME NEW g \in Seq(Bytes8), Len(g) \in 1 .. 3
  PROVE  /\ EncodeGroup(g) \in Seq(0 .. Pad) /\ Len(EncodeGroup(g)) = 4
         /\ InTable(Filled(EncodeGroup(g))) /\ GroupBytes(Filled(EncodeGroup(g))) = g
         /\ \E t \in Seq(SixBits) :
              Len(t) = Len(g) + 1 /\ EncodeGroup(g) = t \o Pads(3 - Len(g))
<1>1. \A i \in 1 .. Len(g) : g[i] \in Bytes8
  BY ElementOfSeq
<1>0. \A x \in SixBits : x # Pad /\ x < Pad /\ x \in 0 .. Pad /\ x \in Nat
  BY DEF SixBits, Pad
<1> HIDE DEF SixBits, Pad
<1>2. CASE Len(g) = 3
  <2>1. g[1] \in Bytes8 /\ g[2] \in Bytes8 /\ g[3] \in Bytes8 /\ g = <<g[1], g[2], g[3]>>
    BY <1>1, <1>2
  <2>2. PICK d1, d2, d3, d4 \in SixBits :
          /\ EncodeTriple(g[1], g[2], g[3]) = <<d1, d2, d3, d4>>
          /\ ((d1 * 64 + d2) * 64 + d3) * 64 + d4 = (g[1] * 256 + g[2]) * 256 + g[3]
    BY <2>1, TripleDigits
  <2> DEFINE e == <<d1, d2, d3, d4>>
  <2>3. EncodeGroup(g) = e
    BY <1>2, <2>2 DEF EncodeGroup
  <2>4. Filled(e) = e
    <3>1. e[3] # Pad /\ e[4] # Pad
      BY <1>0
    <3>2. SubSeq(e, 1, 4) = e
      BY CutFour
    <3> HIDE DEF e
    <3>3. QED
      BY <3>1, <3>2 DEF Filled
  <2>5. InTable(e) /\ e \in Seq(0 .. Pad) /\ e \in Seq(SixBits) /\ Len(e) = 4
    <3>1. e \in Seq(SixBits) /\ Len(e) = 4
      OBVIOUS
    <3>2. d1 < Pad /\ d2 < Pad /\ d3 < Pad /\ d4 < Pad
      BY <1>0
    <3>3. d1 \in 0 .. Pad /\ d2 \in 0 .. Pad /\ d3 \in 0 .. Pad /\ d4 \in 0 .. Pad
      BY <1>0
    <3> DEFINE C == 0 .. Pad
    <3> HIDE DEF C
    <3>4. e \in Seq(C)
      BY <3>3 DEF C
    <3>5. InTable(e)
      BY <3>2 DEF InTable
    <3>6. QED
      BY <3>1, <3>4, <3>5 DEF C
  <2>6. GroupBytes(e) = g
    <3> DEFINE n == ((d1 * 64 + d2) * 64 + d3) * 64 + d4
    <3>1. GroupBytes(e) = SubSeq(<<(n \div 256) \div 256, (n \div 256) % 256, n % 256>>, 1, 3)
      BY DEF GroupBytes
    <3>2. (n \div 256) \div 256 = g[1] /\ (n \div 256) % 256 = g[2] /\ n % 256 = g[3]
      BY <2>1, <2>2, TripleBytes
    <3> HIDE DEF n
    <3>3. QED
      BY <2>1, <3>1, <3>2, CutThree
  <2>7. Pads(0) = <<>> /\ e \o <<>> = e
    BY <2>5, PadsAre, ConcatEmptySeq
  <2> HIDE DEF e
  <2>8. 3 - Len(g) = 0 /\ Len(e) = Len(g) + 1
    BY <1>2, <2>5
  <2>9. QED
    BY <2>3, <2>4, <2>5, <2>6, <2>7, <2>8, Zenon
<1>3. CASE Len(g) = 2
  <2>1. g[1] \in Bytes8 /\ g[2] \in Bytes8 /\ 0 \in Bytes8 /\ g = <<g[1], g[2]>>
    BY <1>1, <1>3 DEF Bytes8
  <2>2. PICK d1, d2, d3, d4 \in SixBits :
          /\ EncodeTriple(g[1], g[2], 0) = <<d1, d2, d3, d4>>
          /\ ((d1 * 64 + d2) * 64 + d3) * 64 + d4 = (g[1] * 256 + g[2]) * 256 + 0
    BY <2>1, TripleDigits
  <2> DEFINE t == <<d1, d2, d3>>
             e == <<d1, d2, d3, Pad>>
  <2>3. EncodeGroup(g) = e
    <3>1. EncodeGroup(g) = SubSeq(<<d1, d2, d3, d4>>, 1, 3) \o <<Pad>>
      BY <1>3, <2>2 DEF EncodeGroup
    <3>2. <<d1, d2, d3>> \o <<Pad>> = e
      BY JoinTuples
    <3>3. QED
      BY <3>1, <3>2, CutFour
  <2>4. Filled(e) = t
    <3>1. e[3] # Pad /\ e[4] = Pad
      BY <1>0
    <3>2. SubSeq(e, 1, 3) = t
      BY CutFour
    <3> HIDE DEF e
    <3>3. QED
      BY <3>1, <3>2 DEF Filled
  <2>5. InTable(t) /\ e \in Seq(0 .. Pad) /\ t \in Seq(SixBits) /\ Len(t) = 3 /\ Len(e) = 4
    <3>1. t \in Seq(SixBits) /\ Len(t) = 3 /\ Len(e) = 4
      OBVIOUS
    <3>2. d1 < Pad /\ d2 < Pad /\ d3 < Pad
      BY <1>0
    <3>3. d1 \in 0 .. Pad /\ d2 \in 0 .. Pad /\ d3 \in 0 .. Pad /\ Pad \in 0 .. Pad
      BY <1>0 DEF Pad
    <3> DEFINE C == 0 .. Pad
    <3> HIDE DEF C
    <3>4. e \in Seq(C)
      BY <3>3 DEF C
    <3>5. InTable(t)
      BY <3>2 DEF InTable
    <3>6. QED
      BY <3>1, <3>4, <3>5 DEF C
  <2>6. GroupBytes(t) = g
    <3> DEFINE n == ((d1 * 64 + d2) * 64 + d3) * 64 + 0
    <3>0. d4 = 0
      BY <2>1, <2>2, TwoBytesEnd
    <3>1. GroupBytes(t) = SubSeq(<<(n \div 256) \div 256, (n \div 256) % 256, n % 256>>, 1, 2)
      BY DEF GroupBytes
    <3>2. (n \div 256) \div 256 = g[1] /\ (n \div 256) % 256 = g[2]
      BY <2>1, <2>2, <3>0, TripleBytes
    <3> HIDE DEF n
    <3>3. QED
      BY <2>1, <3>1, <3>2, CutThree
  <2>7. Pads(1) = <<Pad>> /\ t \o <<Pad>> = e
    BY PadsAre, JoinTuples
  <2> HIDE DEF e, t
  <2>8. 3 - Len(g) = 1 /\ Len(t) = Len(g) + 1
    BY <1>3, <2>5
  <2>9. QED
    BY <2>3, <2>4, <2>5, <2>6, <2>7, <2>8, Zenon
<1>4. CASE Len(g) = 1
  <2>1. g[1] \in Bytes8 /\ 0 \in Bytes8 /\ g = <<g[1]>>
    BY <1>1, <1>4 DEF Bytes8
  <2>2. PICK d1, d2, d3, d4 \in SixBits :
          /\ EncodeTriple(g[1], 0, 0) = <<d1, d2, d3, d4>>
          /\ ((d1 * 64 + d2) * 64 + d3) * 64 + d4 = (g[1] * 256 + 0) * 256 + 0
    BY <2>1, TripleDigits
  <2> DEFINE t == <<d1, d2>>
             e == <<d1, d2, Pad, Pad>>
  <2>3. EncodeGroup(g) = e
    <3>1. EncodeGroup(g) = SubSeq(<<d1, d2, d3, d4>>, 1, 2) \o <<Pad, Pad>>
      BY <1>4, <2>2 DEF EncodeGroup
    <3>2. <<d1, d2>> \o <<Pad, Pad>> = e
      BY JoinTuples
    <3>3. QED
      BY <3>1, <3>2, CutFour
  <2>4. Filled(e) = t
    <3>1. e[3] = Pad /\ e[4] = Pad
      OBVIOUS
    <3>2. SubSeq(e, 1, 2) = t
      BY CutFour
    <3> HIDE DEF e
    <3>3. QED
      BY <3>1, <3>2 DEF Filled
  <2>5. InTable(t) /\ e \in Seq(0 .. Pad) /\ t \in Seq(SixBits) /\ Len(t) = 2 /\ Len(e) = 4
    <3>1. t \in Seq(SixBits) /\ Len(t) = 2 /\ Len(e) = 4
      OBVIOUS
    <3>2. d1 < Pad /\ d2 < Pad
      BY <1>0
    <3>3. d1 \in 0 .. Pad /\ d2 \in 0 .. Pad /\ Pad \in 0 .. Pad
      BY <1>0 DEF Pad
    <3> DEFINE C == 0 .. Pad
    <3> HIDE DEF C
    <3>4. e \in Seq(C)
      BY <3>3 DEF C
    <3>5. InTable(t)
      BY <3>2 DEF InTable
    <3>6. QED
      BY <3>1, <3>4, <3>5 DEF C
  <2>6. GroupBytes(t) = g
    <3> DEFINE n == ((d1 * 64 + d2) * 64 + 0) * 64 + 0
    <3>0. d4 = 0 /\ d3 = 0
      BY <2>1, <2>2, OneByteEnds
    <3>1. GroupBytes(t) = SubSeq(<<(n \div 256) \div 256, (n \div 256) % 256, n % 256>>, 1, 1)
      BY DEF GroupBytes
    <3>2. (n \div 256) \div 256 = g[1]
      BY <2>1, <2>2, <3>0, TripleBytes
    <3> HIDE DEF n
    <3>3. QED
      BY <2>1, <3>1, <3>2, CutThree
  <2>7. Pads(2) = <<Pad, Pad>> /\ t \o <<Pad, Pad>> = e
    BY PadsAre, JoinTuples
  <2> HIDE DEF e, t
  <2>8. 3 - Len(g) = 2 /\ Len(t) = Len(g) + 1
    BY <1>4, <2>5
  <2>9. QED
    BY <2>3, <2>4, <2>5, <2>6, <2>7, <2>8, Zenon
<1>5. QED
  BY <1>2, <1>3, <1>4, SMTT(30)

-----------------------------------------------------------------------------
(* Base64: all groups *)

LEMMA PiecesOfEmpty == \A n \in {3, 4} : Pieces(<<>>, n) = <<>>
<1> SUFFICES ASSUME NEW n \in {3, 4} PROVE Pieces(<<>>, n) = <<>>
  OBVIOUS
<1> DEFINE e == <<>>
<1>1. e \in Seq({}) /\ Len(e) <= n /\ e = <<>>
  OBVIOUS
<1> HIDE DEF e
<1>2. Pieces(e, n) = <<>>
  BY <1>1, PiecesShort
<1>3. QED
  BY <1>2 DEF e

\* Encoding takes a group of three bytes after the other.
LEMMA EncodesGroups ==
  /\ EncodeGroups(<<>>) = <<>>
  /\ \A g \in Seq(Bytes8) : Len(g) \in 1 .. 3 => EncodeGroups(g) = EncodeGroup(g)
  /\ \A g, t \in Seq(Bytes8) :
       Len(g) = 3 => EncodeGroups(g \o t) = EncodeGroup(g) \o EncodeGroups(t)
<1> DEFINE S == GroupsOf(Bytes8, 3)
           C == 0 .. Pad
           f == [g \in S |-> EncodeGroup(g)]
<1>1. f \in [S -> Seq(C)]
  <2>1. \A g \in S : g \in Seq(Bytes8) /\ Len(g) \in 1 .. 3
    BY DEF GroupsOf
  <2> HIDE DEF S
  <2>2. \A g \in S : EncodeGroup(g) \in Seq(C)
    BY <2>1, GroupReadsBack
  <2>3. QED
    BY <2>2
<1>2. ASSUME NEW b \in Seq(Bytes8)
      PROVE  Pieces(b, 3) \in Seq(S) /\ EncodeGroups(b) = FlattenSeq(Mapped(Pieces(b, 3), f))
  <2> DEFINE p == Pieces(b, 3)
  <2>1. p \in Seq(S)
    BY PiecesType
  <2> HIDE DEF S
  <2>2. DOMAIN p = 1 .. Len(p) /\ \A k \in 1 .. Len(p) : p[k] \in S
    BY <2>1, LenProperties, ElementOfSeq
  <2>3. [k \in DOMAIN p |-> EncodeGroup(p[k])] = Mapped(p, f)
    BY <2>2 DEF Mapped
  <2>4. QED
    BY <2>1, <2>3 DEF EncodeGroups
<1>3. \A g \in Seq(Bytes8) : Len(g) \in 1 .. 3 => g \in S
  BY DEF GroupsOf
<1>4. \A g \in S : f[g] = EncodeGroup(g)
  OBVIOUS
<1> HIDE DEF S, C, f
<1>5. EncodeGroups(<<>>) = <<>>
  <2>1. <<>> \in Seq(Bytes8) /\ Pieces(<<>>, 3) = <<>>
    BY PiecesOfEmpty, EmptySeq
  <2>2. EncodeGroups(<<>>) = FlattenSeq(Mapped(<<>>, f))
    BY <1>2, <2>1
  <2>3. QED
    BY <2>2, MappedEmpty, FlattenEmpty
<1>6. ASSUME NEW g \in Seq(Bytes8), Len(g) \in 1 .. 3 PROVE EncodeGroups(g) = EncodeGroup(g)
  <2>1. g # <<>> /\ Len(g) <= 3
    <3>1. Len(<<>>) = 0
      OBVIOUS
    <3>2. PICK n \in 1 .. 3 : Len(g) = n
      BY <1>6
    <3>3. Len(g) # 0 /\ Len(g) <= 3
      BY <3>2
    <3>4. QED
      BY <3>1, <3>3, Zenon
  <2>2. Pieces(g, 3) = <<g>>
    BY <2>1, PiecesShort
  <2>3. FlattenSeq(Mapped(<<g>>, f)) = f[g]
    BY <1>1, <1>3, <1>6, ComprehensionOne
  <2>4. QED
    BY <1>2, <1>3, <1>4, <1>6, <2>2, <2>3
<1>7. ASSUME NEW g \in Seq(Bytes8), NEW t \in Seq(Bytes8), Len(g) = 3
      PROVE  EncodeGroups(g \o t) = EncodeGroup(g) \o EncodeGroups(t)
  <2>1. g \o t \in Seq(Bytes8) /\ g \in S
    BY <1>3, <1>7, ConcatProperties
  <2>2. Pieces(g \o t, 3) = <<g>> \o Pieces(t, 3)
    BY <1>7, PiecesOfConcat
  <2>3. <<g>> \in Seq(S) /\ Pieces(t, 3) \in Seq(S)
    BY <1>2, <2>1
  <2>4. FlattenSeq(Mapped(<<g>> \o Pieces(t, 3), f))
          = FlattenSeq(Mapped(<<g>>, f)) \o FlattenSeq(Mapped(Pieces(t, 3), f))
    BY <1>1, <2>3, ComprehensionConcat
  <2>5. FlattenSeq(Mapped(<<g>>, f)) = EncodeGroup(g)
    BY <1>1, <1>4, <2>1, ComprehensionOne
  <2>6. EncodeGroups(g \o t) = FlattenSeq(Mapped(<<g>> \o Pieces(t, 3), f))
        /\ EncodeGroups(t) = FlattenSeq(Mapped(Pieces(t, 3), f))
    BY <1>2, <2>1, <2>2
  <2>7. QED
    BY <2>4, <2>5, <2>6
<1>8. QED
  BY <1>5, <1>6, <1>7

\* A group that decode_groups takes.
Good == {g \in Seq(Chars) : Len(g) = 4 /\ InTable(Filled(g))}

BytesOf == [g \in Good |-> GroupBytes(Filled(g))]

LEMMA CharsAre == Chars \in SUBSET Nat /\ 0 .. Pad \in SUBSET Chars /\ Foreign \in Chars /\ Foreign > Pad
                  /\ Blank \in Chars /\ Blank > Pad /\ Blank # Foreign /\ Pad \in Nat
                  /\ SixBits \in SUBSET 0 .. Pad /\ {Pad} \in SUBSET 0 .. Pad
BY DEF Chars, Pad, Foreign, Blank, SixBits

LEMMA FilledIs ==
  ASSUME NEW g \in Seq(Chars), Len(g) = 4
  PROVE  \E n \in 2 .. 4 : /\ Filled(g) = SubSeq(g, 1, n) /\ Len(Filled(g)) = n
                           /\ Filled(g) \in Seq(Chars)
                           /\ \A i \in 1 .. n : Filled(g)[i] = g[i]
                           /\ \A i \in n + 1 .. 4 : g[i] = Pad
<1>1. PICK n \in 2 .. 4 : Filled(g) = SubSeq(g, 1, n) /\ \A i \in n + 1 .. 4 : g[i] = Pad
  <2>1. CASE g[3] = Pad /\ g[4] = Pad
    <3>1. Filled(g) = SubSeq(g, 1, 2)
      BY <2>1 DEF Filled
    <3>2. \A i \in 2 + 1 .. 4 : g[i] = Pad
      BY <2>1
    <3>3. QED
      BY <3>1, <3>2
  <2>2. CASE g[4] = Pad /\ g[3] # Pad
    <3>1. Filled(g) = SubSeq(g, 1, 3)
      BY <2>2 DEF Filled
    <3>2. \A i \in 3 + 1 .. 4 : g[i] = Pad
      BY <2>2
    <3>3. QED
      BY <3>1, <3>2
  <2>3. CASE g[4] # Pad
    <3>1. Filled(g) = SubSeq(g, 1, 4)
      BY <2>3 DEF Filled
    <3>2. \A i \in 4 + 1 .. 4 : g[i] = Pad
      OBVIOUS
    <3>3. QED
      BY <3>1, <3>2
  <2>4. QED
    BY <2>1, <2>2, <2>3
<1>2. n \in 1 .. Len(g)
  OBVIOUS
<1>3. /\ SubSeq(g, 1, n) \in Seq(Chars) /\ Len(SubSeq(g, 1, n)) = n
      /\ \A i \in 1 .. n : SubSeq(g, 1, n)[i] = g[i]
  BY <1>2, Beginning
<1>4. QED
  BY <1>1, <1>3

LEMMA BytesOfType == BytesOf \in [Good -> Seq(Int)]
<1> SUFFICES ASSUME NEW g \in Good PROVE GroupBytes(Filled(g)) \in Seq(Int)
  BY DEF BytesOf
<1> DEFINE c == Filled(g)
<1>1. PICK n \in 2 .. 4 : Len(c) = n /\ c \in Seq(Chars)
  BY FilledIs DEF Good
<1>2. \A i \in 1 .. n : c[i] \in Int
  <2>1. \A i \in 1 .. n : c[i] \in Chars
    BY <1>1, ElementOfSeq
  <2>2. QED
    BY <2>1 DEF Chars, Foreign
<1> HIDE DEF c
<1> DEFINE x == ((c[1] * 64 + c[2]) * 64 + (IF Len(c) > 2 THEN c[3] ELSE 0)) * 64
                  + (IF Len(c) > 3 THEN c[4] ELSE 0)
           y == x \div 256
           s == <<y \div 256, y % 256, x % 256>>
<1>3. GroupBytes(c) = SubSeq(s, 1, Len(c) - 1)
  BY DEF GroupBytes
<1>4. x \in Int
  BY <1>1, <1>2
<1> HIDE DEF x
<1>5. y \in Int
  BY <1>4
<1> HIDE DEF y
<1>6. s \in Seq(Int) /\ Len(s) = 3
  BY <1>4, <1>5
<1> HIDE DEF s
<1>7. Len(c) - 1 \in 1 .. Len(s)
  BY <1>1, <1>6
<1>8. QED
  BY <1>3, <1>6, <1>7, Beginning DEF c

LEMMA DecodesWhen ==
  ASSUME NEW c \in Seq(Chars)
  PROVE  DecodeGroups(c) = IF Pieces(c, 4) \in Seq(Good)
                           THEN Ok(FlattenSeq(Mapped(Pieces(c, 4), BytesOf)))
                           ELSE Badarg
<1> DEFINE p == Pieces(c, 4)
           G == GroupsOf(Chars, 4)
<1>1. p \in Seq(G)
  BY PiecesType
<1>2. \A g \in G : g \in Seq(Chars)
  BY DEF GroupsOf
<1> HIDE DEF G
<1>3. Len(p) \in Nat /\ DOMAIN p = 1 .. Len(p) /\ \A k \in 1 .. Len(p) : p[k] \in Seq(Chars)
  BY <1>1, <1>2, LenProperties, ElementOfSeq
<1>4. (\A k \in DOMAIN p : Len(p[k]) = 4 /\ InTable(Filled(p[k]))) <=> p \in Seq(Good)
  <2>1. ASSUME \A k \in DOMAIN p : Len(p[k]) = 4 /\ InTable(Filled(p[k])) PROVE p \in Seq(Good)
    <3>1. \A k \in 1 .. Len(p) : p[k] \in Good
      BY <1>3, <2>1 DEF Good
    <3>2. QED
      BY <1>1, <1>3, <3>1
  <2>2. ASSUME p \in Seq(Good), NEW k \in DOMAIN p PROVE Len(p[k]) = 4 /\ InTable(Filled(p[k]))
    <3>1. p[k] \in Good
      BY <1>3, <2>2, ElementOfSeq
    <3>2. QED
      BY <3>1 DEF Good
  <2>3. QED
    BY <2>1, <2>2
<1>5. p \in Seq(Good) => [k \in DOMAIN p |-> GroupBytes(Filled(p[k]))] = Mapped(p, BytesOf)
  <2>1. SUFFICES ASSUME p \in Seq(Good)
                 PROVE  [k \in DOMAIN p |-> GroupBytes(Filled(p[k]))] = Mapped(p, BytesOf)
    OBVIOUS
  <2>2. \A k \in DOMAIN p : p[k] \in Good
    BY <1>3, <2>1, ElementOfSeq
  <2>3. \A k \in DOMAIN p : BytesOf[p[k]] = GroupBytes(Filled(p[k]))
    BY <2>2 DEF BytesOf
  <2>4. QED
    BY <2>3 DEF Mapped
<1> HIDE DEF p
<1>6. DecodeGroups(c) = IF \A k \in DOMAIN p : Len(p[k]) = 4 /\ InTable(Filled(p[k]))
                        THEN Ok(FlattenSeq([k \in DOMAIN p |-> GroupBytes(Filled(p[k]))]))
                        ELSE Badarg
  BY DEF DecodeGroups, p
<1>7. QED
  BY <1>4, <1>5, <1>6 DEF p

LEMMA DecodesEmpty == DecodeGroups(<<>>) = Ok(<<>>)
<1>1. <<>> \in Seq(Chars) /\ Pieces(<<>>, 4) = <<>> /\ <<>> \in Seq(Good)
  BY EmptySeq, PiecesOfEmpty
<1>2. QED
  BY <1>1, DecodesWhen, MappedEmpty, FlattenEmpty

LEMMA DecodesConcat ==
  ASSUME NEW g \in Good, NEW t \in Seq(Chars), NEW b, DecodeGroups(t) = Ok(b)
  PROVE  DecodeGroups(g \o t) = Ok(GroupBytes(Filled(g)) \o b)
<1>1. g \in Seq(Chars) /\ Len(g) = 4
  BY DEF Good
<1>2. g \o t \in Seq(Chars) /\ Pieces(g \o t, 4) = <<g>> \o Pieces(t, 4)
  BY <1>1, ConcatProperties, PiecesOfConcat
<1>3. Pieces(t, 4) \in Seq(Good) /\ b = FlattenSeq(Mapped(Pieces(t, 4), BytesOf))
  <2>1. Ok(b) # Badarg /\ \A x : Ok(x) = Ok(b) => x = b
    BY DEF Ok, Badarg
  <2>2. QED
    BY <2>1, DecodesWhen
<1>4. <<g>> \in Seq(Good)
  OBVIOUS
<1>5. Pieces(g \o t, 4) \in Seq(Good)
  BY <1>2, <1>3, <1>4, ConcatProperties
<1>6. FlattenSeq(Mapped(<<g>> \o Pieces(t, 4), BytesOf))
        = FlattenSeq(Mapped(<<g>>, BytesOf)) \o FlattenSeq(Mapped(Pieces(t, 4), BytesOf))
  BY <1>3, <1>4, BytesOfType, ComprehensionConcat
<1>7. FlattenSeq(Mapped(<<g>>, BytesOf)) = GroupBytes(Filled(g))
  <2>1. FlattenSeq(Mapped(<<g>>, BytesOf)) = BytesOf[g]
    BY BytesOfType, ComprehensionOne
  <2>2. QED
    BY <2>1 DEF BytesOf
<1>8. QED
  BY <1>2, <1>3, <1>5, <1>6, <1>7, DecodesWhen

\* A foreign character is refused wherever it is.
LEMMA ForeignIsRefused ==
  ASSUME NEW c \in Seq(Chars), NEW p \in 1 .. Len(c), c[p] = Foreign
  PROVE  DecodeGroups(c) = Badarg
<1> DEFINE Clean(s) == \A i \in 1 .. Len(s) : s[i] # Foreign
           T == {s \in Seq(Chars) : Pieces(s, 4) \in Seq(Good) => Clean(s)}
<1>1. \A g \in Good : Clean(g)
  <2>1. SUFFICES ASSUME NEW g \in Good, NEW i \in 1 .. 4 PROVE g[i] # Foreign
    BY DEF Good
  <2>2. g \in Seq(Chars) /\ Len(g) = 4 /\ InTable(Filled(g))
    BY DEF Good
  <2>3. PICK n \in 2 .. 4 : /\ Len(Filled(g)) = n /\ Filled(g) \in Seq(Chars)
                            /\ \A j \in 1 .. n : Filled(g)[j] = g[j]
                            /\ \A j \in n + 1 .. 4 : g[j] = Pad
    BY <2>2, FilledIs
  <2>4. CASE i \in 1 .. n
    <3>1. DOMAIN Filled(g) = 1 .. n
      BY <2>3, LenProperties
    <3>2. g[i] < Pad
      BY <2>2, <2>3, <2>4, <3>1 DEF InTable
    <3>3. QED
      BY <3>2 DEF Pad, Foreign
  <2>5. CASE i \in n + 1 .. 4
    BY <2>3, <2>5 DEF Pad, Foreign
  <2>6. QED
    BY <2>4, <2>5
<1>2. ASSUME NEW s \in Seq(Chars), Len(s) < 4 PROVE s \in T
  <2>1. SUFFICES ASSUME Pieces(s, 4) \in Seq(Good) PROVE Clean(s)
    OBVIOUS
  <2>2. Pieces(s, 4) = IF s = <<>> THEN <<>> ELSE <<s>>
    BY <1>2, PiecesShort, LenProperties
  <2>3. s = <<>>
    <3>1. SUFFICES ASSUME s # <<>> PROVE FALSE
      OBVIOUS
    <3>2. <<s>> \in Seq(Good)
      BY <2>1, <2>2, <3>1
    <3>3. <<s>>[1] \in Good
      BY <3>2, ElementOfSeq
    <3>4. <<s>>[1] = s
      OBVIOUS
    <3>5. Len(s) = 4
      BY <3>3, <3>4 DEF Good
    <3>6. QED
      BY <1>2, <3>5
  <2>4. QED
    BY <2>3, EmptySeq
<1>3. ASSUME NEW g \in Seq(Chars), NEW t \in T, Len(g) = 4 PROVE g \o t \in T
  <2>1. g \o t \in Seq(Chars) /\ Pieces(t, 4) \in Seq(Seq(Chars))
        /\ Pieces(g \o t, 4) = <<g>> \o Pieces(t, 4)
    BY <1>3, ConcatProperties, PiecesOfConcat
  <2>2. SUFFICES ASSUME Pieces(g \o t, 4) \in Seq(Good) PROVE Clean(g \o t)
    BY <2>1
  <2> DEFINE v == Pieces(t, 4)
             u == <<g>> \o v
  <2>3. /\ Len(u) = 1 + Len(v) /\ Len(v) \in Nat
        /\ u[1] = g /\ \A k \in 1 .. Len(v) : u[k + 1] = v[k]
    <3>1. <<g>> \in Seq(Seq(Chars)) /\ Len(<<g>>) = 1 /\ <<g>>[1] = g
      OBVIOUS
    <3>2. /\ Len(u) = 1 + Len(v) /\ Len(v) \in Nat
          /\ \A i \in 1 .. 1 + Len(v) : u[i] = IF i <= 1 THEN <<g>>[i] ELSE v[i - 1]
      BY <2>1, <3>1, ConcatProperties, LenProperties
    <3> HIDE DEF u, v
    <3>3. \A k \in 1 .. Len(v) : k + 1 \in 1 .. 1 + Len(v) /\ ~(k + 1 <= 1) /\ k + 1 - 1 = k
      BY <3>2
    <3>4. QED
      BY <3>1, <3>2, <3>3
  <2>4. u \in Seq(Good)
    BY <2>1, <2>2
  <2>5. v \in Seq(Seq(Chars))
    BY <2>1
  <2> HIDE DEF u, v
  <2>6. \A k \in 1 .. Len(u) : u[k] \in Good
    BY <2>4, ElementOfSeq
  <2>7. g \in Good /\ \A k \in 1 .. Len(v) : v[k] \in Good
    BY <2>3, <2>6
  <2>8. v \in Seq(Good)
    <3>1. v \in [1 .. Len(v) -> Seq(Chars)]
      BY <2>5, LenProperties
    <3>2. v \in [1 .. Len(v) -> Good]
      BY <2>7, <3>1
    <3>3. QED
      BY <2>3, <3>2
  <2>9. Clean(g) /\ Clean(t)
    BY <1>1, <2>7, <2>8 DEF v
  <2>10. /\ Len(g \o t) = 4 + Len(t) /\ Len(t) \in Nat
         /\ \A i \in 1 .. 4 + Len(t) : (g \o t)[i] = IF i <= 4 THEN g[i] ELSE t[i - 4]
    <3>1. g \in Seq(Chars) /\ t \in Seq(Chars)
      OBVIOUS
    <3>2. QED
      <4>1. /\ Len(g \o t) = Len(g) + Len(t) /\ Len(t) \in Nat
            /\ \A i \in 1 .. Len(g) + Len(t) : (g \o t)[i] = IF i <= Len(g) THEN g[i] ELSE t[i - Len(g)]
        BY <3>1, ConcatProperties, LenProperties
      <4>2. QED
        BY <1>3, <4>1
  <2>11. QED
    <3>1. SUFFICES ASSUME NEW i \in 1 .. 4 + Len(t) PROVE (g \o t)[i] # Foreign
      BY <2>10
    <3>2. CASE i <= 4
      BY <1>3, <2>9, <2>10, <3>2
    <3>3. CASE i > 4
      <4>1. i - 4 \in 1 .. Len(t)
        BY <2>10, <3>3
      <4>2. QED
        BY <2>9, <2>10, <3>3, <4>1
    <3>4. QED
      BY <2>10, <3>2, <3>3
<1>4. T = Seq(Chars)
  <2> HIDE DEF T
  <2>1. T \in SUBSET Seq(Chars) /\ 4 \in Nat \ {0}
    BY DEF T
  <2>2. QED
    BY <1>2, <1>3, <2>1, GroupInduction
<1>5. c \in T
  BY <1>4
<1>6. Pieces(c, 4) \notin Seq(Good)
  BY <1>5
<1>7. QED
  BY <1>6, DecodesWhen

-----------------------------------------------------------------------------
(* Base64: any bytes, and a foreign character anywhere in the text *)

LEMMA JoinThree ==
  ASSUME NEW u \in Seq(Nat), NEW t \in Seq(Nat), NEW p \in Seq(Nat)
  PROVE  (u \o t) \o p = u \o (t \o p)
BY ConcatAssociative, SMTT(30)

\* What is encoded is decoded, and consists of digits and at most two characters of padding.
LEMMA GroupsReadBack ==
  ASSUME NEW b \in Seq(Bytes8)
  PROVE  /\ EncodeGroups(b) \in Seq(Chars) /\ DecodeGroups(EncodeGroups(b)) = Ok(b)
         /\ \E t \in Seq(SixBits), k \in 0 .. 2 :
              EncodeGroups(b) = t \o Pads(k) /\ (Len(t) + k) % 4 = 0
<1> DEFINE E(s) == EncodeGroups(s)
           Ends(s) == \E t \in Seq(SixBits), k \in 0 .. 2 :
                        E(s) = t \o Pads(k) /\ (Len(t) + k) % 4 = 0
           T == {s \in Seq(Bytes8) : E(s) \in Seq(Chars) /\ DecodeGroups(E(s)) = Ok(s) /\ Ends(s)}
<1>1. ASSUME NEW g \in Seq(Bytes8), Len(g) \in 1 .. 3
      PROVE  /\ EncodeGroup(g) \in Good /\ EncodeGroup(g) \in Seq(Chars)
             /\ GroupBytes(Filled(EncodeGroup(g))) = g
             /\ \E t \in Seq(SixBits) : Len(t) = Len(g) + 1 /\ EncodeGroup(g) = t \o Pads(3 - Len(g))
  <2> DEFINE e == EncodeGroup(g)
  <2>1. e \in Seq(0 .. Pad) /\ Len(e) = 4 /\ InTable(Filled(e)) /\ GroupBytes(Filled(e)) = g
    BY <1>1, GroupReadsBack
  <2>2. \E t \in Seq(SixBits) : Len(t) = Len(g) + 1 /\ e = t \o Pads(3 - Len(g))
    BY <1>1, GroupReadsBack
  <2> HIDE DEF e
  <2>3. e \in Seq(Chars)
    BY <2>1, CharsAre, SeqMonotonic
  <2>4. QED
    BY <2>1, <2>2, <2>3 DEF Good, e
<1> HIDE DEF E
<1>2. <<>> \in T
  <2>1. E(<<>>) = <<>> /\ <<>> \in Seq(Chars) /\ <<>> \in Seq(SixBits) /\ <<>> \in Seq(Bytes8)
    BY EncodesGroups, EmptySeq DEF E
  <2>2. <<>> = <<>> \o Pads(0) /\ (Len(<<>>) + 0) % 4 = 0
    BY PadsAre
  <2>3. Ends(<<>>)
    <3>1. E(<<>>) = <<>> \o Pads(0) /\ 0 \in 0 .. 2
      BY <2>1, <2>2
    <3>2. QED
      BY <2>1, <2>2, <3>1, Zenon
  <2>4. QED
    BY <2>1, <2>3, DecodesEmpty
<1>3. ASSUME NEW s \in Seq(Bytes8), Len(s) < 3 PROVE s \in T
  <2>1. CASE s = <<>>
    BY <1>2, <2>1
  <2>2. CASE s # <<>>
    <3>0. PICK n \in 1 .. 2 : Len(s) = n
      <4>1. Len(s) \in Nat \ {0}
        BY <2>2, EmptySeq
      <4> DEFINE l == Len(s)
      <4>2. l \in Nat \ {0} /\ l < 3
        BY <1>3, <4>1
      <4> HIDE DEF l
      <4>3. l \in 1 .. 2
        BY <4>2
      <4>4. QED
        BY <4>3 DEF l
    <3>1. Len(s) \in 1 .. 2 /\ Len(s) \in 1 .. 3
      BY <3>0
    <3> DEFINE e == EncodeGroup(s)
    <3>2. E(s) = e
      BY <3>1, EncodesGroups DEF E
    <3>3. e \in Good /\ e \in Seq(Chars) /\ GroupBytes(Filled(e)) = s
      BY <1>1, <3>1
    <3>4. PICK t \in Seq(SixBits) : Len(t) = Len(s) + 1 /\ e = t \o Pads(3 - Len(s))
      BY <1>1, <3>1
    <3> HIDE DEF e
    <3>5. DecodeGroups(e \o <<>>) = Ok(s \o <<>>) /\ <<>> \in Seq(Chars)
      BY <3>3, DecodesEmpty, DecodesConcat, EmptySeq
    <3>6. e \o <<>> = e /\ s \o <<>> = s
      BY <3>3, ConcatEmptySeq
    <3>7. 3 - Len(s) \in 0 .. 2 /\ (Len(t) + (3 - Len(s))) % 4 = 0
      BY <3>0, <3>4
    <3>8. Ends(s)
      BY <3>2, <3>4, <3>7
    <3>9. QED
      BY <3>2, <3>3, <3>5, <3>6, <3>8
  <2>3. QED
    BY <2>1, <2>2
<1>4. ASSUME NEW g \in Seq(Bytes8), NEW s \in T, Len(g) = 3 PROVE g \o s \in T
  <2> DEFINE e == EncodeGroup(g)
  <2>1. E(g \o s) = e \o E(s)
    BY <1>4, EncodesGroups DEF E
  <2>2. Len(g) \in 1 .. 3
    BY <1>4
  <2>3. e \in Good /\ e \in Seq(Chars) /\ GroupBytes(Filled(e)) = g
    BY <1>1, <2>2
  <2>4. PICK u \in Seq(SixBits) : Len(u) = 4 /\ e = u \o Pads(0)
    <3>1. PICK u \in Seq(SixBits) : Len(u) = Len(g) + 1 /\ e = u \o Pads(3 - Len(g))
      BY <1>1, <2>2
    <3>2. Len(g) + 1 = 4 /\ 3 - Len(g) = 0
      BY <1>4
    <3>3. QED
      BY <3>1, <3>2
  <2> HIDE DEF e
  <2>5. e = u
    BY <2>4, PadsAre, ConcatEmptySeq
  <2>6. E(s) \in Seq(Chars) /\ DecodeGroups(E(s)) = Ok(s) /\ s \in Seq(Bytes8)
    OBVIOUS
  <2>7. g \o s \in Seq(Bytes8) /\ e \o E(s) \in Seq(Chars)
    BY <2>3, <2>6, ConcatProperties
  <2>8. DecodeGroups(e \o E(s)) = Ok(g \o s)
    BY <2>3, <2>6, DecodesConcat
  <2>9. Ends(g \o s)
    <3>1. PICK t \in Seq(SixBits), k \in 0 .. 2 : E(s) = t \o Pads(k) /\ (Len(t) + k) % 4 = 0
      OBVIOUS
    <3>2. SixBits \in SUBSET Nat /\ {Pad} \in SUBSET Nat
      BY CharsAre
    <3>3. u \in Seq(Nat) /\ t \in Seq(Nat) /\ Pads(k) \in Seq(Nat)
      <4>1. u \in Seq(Nat) /\ t \in Seq(Nat)
        BY <3>2, SeqMonotonic
      <4>2. Pads(k) \in Seq({Pad})
        BY PadsAre
      <4>3. QED
        BY <3>2, <4>1, <4>2, SeqMonotonic
    <3>4. e \o E(s) = (u \o t) \o Pads(k)
      <4>1. (u \o t) \o Pads(k) = u \o (t \o Pads(k))
        <5> DEFINE p == Pads(k)
        <5>1. u \in Seq(Nat) /\ t \in Seq(Nat) /\ p \in Seq(Nat)
          BY <3>3
        <5> HIDE DEF p, T, Ends
        <5>2. (u \o t) \o p = u \o (t \o p)
          BY <5>1, JoinThree
        <5>3. QED
          BY <5>2 DEF p
      <4>2. QED
        BY <2>5, <3>1, <4>1
    <3>5. u \o t \in Seq(SixBits) /\ Len(u \o t) = 4 + Len(t) /\ Len(t) \in Nat
      <4>1. u \o t \in Seq(SixBits) /\ Len(u \o t) = Len(u) + Len(t) /\ Len(t) \in Nat
        BY ConcatProperties, LenProperties
      <4>2. QED
        BY <2>4, <4>1
    <3>6. (4 + Len(t) + k) % 4 = 0
      BY <3>1, <3>5
    <3>7. QED
      BY <2>1, <3>4, <3>5, <3>6
  <2>10. QED
    BY <2>1, <2>6, <2>7, <2>8, <2>9
<1>5. T = Seq(Bytes8)
  <2> HIDE DEF T
  <2>1. T \in SUBSET Seq(Bytes8) /\ 3 \in Nat \ {0}
    BY DEF T
  <2>2. QED
    BY <1>3, <1>4, <2>1, GroupInduction
<1>6. b \in T
  BY <1>5
<1>7. QED
  BY <1>6 DEF E

LEMMA PaddingStripped ==
  ASSUME NEW t \in Seq(SixBits), NEW k \in 0 .. 2
  PROVE  StripPadding(t \o Pads(k)) = t
<1> DEFINE c == t \o Pads(k)
           I == {i \in 1 .. Len(c) : c[i] # Pad}
<1>1. SixBits \in SUBSET Nat /\ {Pad} \in SUBSET Nat /\ \A x \in SixBits : x # Pad
  BY DEF SixBits, Pad
<1>2. t \in Seq(Nat) /\ Pads(k) \in Seq(Nat) /\ Len(Pads(k)) = k /\ Len(t) \in Nat
      /\ Pads(k) \in Seq({Pad})
  <2>1. t \in Seq(Nat) /\ Len(t) \in Nat
    BY <1>1, SeqMonotonic, LenProperties
  <2>2. Pads(k) \in Seq({Pad}) /\ Len(Pads(k)) = k
    <3>1. k \in 0 .. 3
      OBVIOUS
    <3>2. QED
      BY <3>1, PadsAre, Zenon
  <2>3. Pads(k) \in Seq(Nat)
    BY <1>1, <2>2, SeqMonotonic
  <2>4. QED
    BY <2>1, <2>2, <2>3
<1>3. /\ Len(c) = Len(t) + k
      /\ \A i \in 1 .. Len(t) + k : c[i] = IF i <= Len(t) THEN t[i] ELSE Pads(k)[i - Len(t)]
  BY <1>2, ConcatProperties
<1>4. \A i \in 1 .. Len(t) : c[i] # Pad
  <2>1. TAKE i \in 1 .. Len(t)
  <2>2. t[i] \in SixBits
    BY ElementOfSeq
  <2>3. QED
    BY <1>1, <1>2, <1>3, <2>2
<1>5. \A i \in Len(t) + 1 .. Len(c) : c[i] = Pad
  <2>1. TAKE i \in Len(t) + 1 .. Len(c)
  <2>2. i - Len(t) \in 1 .. Len(Pads(k))
    BY <1>2, <1>3
  <2>3. Pads(k)[i - Len(t)] \in {Pad}
    BY <1>2, <2>2, ElementOfSeq
  <2>4. QED
    BY <1>2, <1>3, <2>3
<1> HIDE DEF c
<1>6. I = 1 .. Len(t)
  BY <1>2, <1>3, <1>4, <1>5
<1>7. SelectLastInSeq(c, LAMBDA x : x # Pad) = Len(t)
  <2>1. SelectLastInSeq(c, LAMBDA x : x # Pad) = IF I # {} THEN Max(I) ELSE 0
    BY DEF SelectLastInSeq
  <2>2. CASE Len(t) = 0
    BY <1>6, <2>1, <2>2
  <2>3. CASE Len(t) # 0
    <3>1. Len(t) \in I /\ \A i \in I : Len(t) >= i
      BY <1>2, <1>6, <2>3, SMTT(30)
    <3>2. \A m \in I : (\A i \in I : m >= i) => m = Len(t)
      BY <1>2, <1>6, <3>1
    <3>3. Max(I) = Len(t)
      BY <3>1, <3>2 DEF Max
    <3>4. QED
      BY <2>1, <3>1, <3>3
  <2>4. QED
    BY <2>2, <2>3
<1>8. SubSeq(c, 1, Len(t)) = t
  <2>1. CASE t = <<>>
    BY <2>1, EmptySeq, SubSeqEmpty
  <2>2. CASE t # <<>>
    <3>1. Len(t) \in 1 .. Len(t) /\ 1 \in 1 .. Len(t)
      BY <1>2, <2>2, EmptySeq
    <3>2. SubSeq(c, 1, Len(t)) = SubSeq(t, 1, Len(t))
      BY <1>2, <3>1, SubSeqOfConcat1 DEF c
    <3>3. QED
      BY <3>2, SubSeqFull
  <2>3. QED
    BY <2>1, <2>2
<1>9. QED
  BY <1>7, <1>8 DEF StripPadding, c

LEMMA EncodedIs ==
  ASSUME NEW b \in Seq(Bytes8), NEW padding \in BOOLEAN
  PROVE  LET text == Base64Encode(b, padding)
         IN  /\ text \in Seq(0 .. Pad)
             /\ DecodeBin(text, FALSE) = Ok(b)
             /\ DecodeBin(text, TRUE) = IF Len(text) % 4 = 0 THEN Ok(b) ELSE Badarg
<1> DEFINE e    == EncodeGroups(b)
           text == Base64Encode(b, padding)
<1>1. e \in Seq(Chars) /\ DecodeGroups(e) = Ok(b)
  BY GroupsReadBack
<1>2. PICK t \in Seq(SixBits), k \in 0 .. 2 : e = t \o Pads(k) /\ (Len(t) + k) % 4 = 0
  BY GroupsReadBack
<1>3. text = IF padding THEN e ELSE t
  BY <1>2, PaddingStripped DEF Base64Encode
<1>4. t \in Seq(0 .. Pad) /\ Pads(k) \in Seq(0 .. Pad) /\ Len(Pads(k)) = k /\ Len(t) \in Nat
  <2> DEFINE C == 0 .. Pad
  <2>0. SixBits \in SUBSET C /\ {Pad} \in SUBSET C
    BY CharsAre
  <2> HIDE DEF C
  <2>1. k \in 0 .. 3
    OBVIOUS
  <2>2. Pads(k) \in Seq({Pad}) /\ Len(Pads(k)) = k
    BY <2>1, PadsAre, Zenon
  <2>3. t \in Seq(C) /\ Len(t) \in Nat
    BY <2>0, SeqMonotonic, LenProperties
  <2>4. Pads(k) \in Seq(C)
    BY <2>0, <2>2, SeqMonotonic
  <2>5. QED
    BY <2>2, <2>3, <2>4 DEF C
<1>5. e \in Seq(0 .. Pad) /\ Len(e) = Len(t) + k
  <2> DEFINE p == Pads(k)
             C == 0 .. Pad
  <2>1. t \in Seq(C) /\ p \in Seq(C) /\ Len(p) = k
    BY <1>4
  <2> HIDE DEF p, C
  <2>2. t \o p \in Seq(C) /\ Len(t \o p) = Len(t) + Len(p)
    BY <2>1, ConcatProperties
  <2>3. QED
    BY <1>2, <2>1, <2>2 DEF p, C
<1> HIDE DEF e, text
<1>6. Len(e) % 4 = 0
  BY <1>2, <1>5
<1>7. \A r \in BOOLEAN : DecodeBin(e, r) = Ok(b)
  BY <1>1, <1>6 DEF DecodeBin
<1>8. CASE text = e
  BY <1>5, <1>6, <1>7, <1>8 DEF text
<1>9. CASE text = t /\ k = 0
  <2>1. t = e
    BY <1>2, <1>4, <1>9, PadsAre, ConcatEmptySeq
  <2>2. QED
    BY <1>8, <1>9, <2>1
<1>10. CASE text = t /\ k # 0
  <2>1. k \in 1 .. 2 /\ Len(t) % 4 = 4 - k
    <3> DEFINE l == Len(t)
    <3>1. l \in Nat /\ (l + k) % 4 = 0 /\ k \in 1 .. 2
      BY <1>2, <1>4, <1>10
    <3> HIDE DEF l
    <3>2. k = 1 \/ k = 2
      BY <3>1
    <3>3. k = 1 => l % 4 = 3
      BY <3>1
    <3>4. k = 2 => l % 4 = 2
      BY <3>1
    <3>5. QED
      BY <3>1, <3>2, <3>3, <3>4 DEF l
  <2>2. 4 - (Len(t) % 4) = k /\ Len(t) % 4 # 0
    BY <2>1
  <2>3. DecodeBin(t, TRUE) = Badarg
    BY <2>2 DEF DecodeBin
  <2>4. DecodeBin(t, FALSE) = DecodeGroups(t \o Pads(k))
    <3>1. DecodeBin(t, FALSE) = DecodeGroups(t \o [i \in 1 .. 4 - (Len(t) % 4) |-> Pad])
      BY <2>2 DEF DecodeBin
    <3>2. QED
      BY <2>2, <3>1 DEF Pads
  <2>5. QED
    BY <1>1, <1>2, <1>4, <1>10, <2>2, <2>3, <2>4 DEF text
<1>11. QED
  BY <1>3, <1>8, <1>9, <1>10

\* A text with a character put into it.
LEMMA InsertedIs ==
  ASSUME NEW text \in Seq(0 .. Pad), NEW p \in 1 .. Len(text) + 1, NEW c \in {Blank, Foreign}
  PROVE  /\ InsertAt(text, p, c) \in Seq(Chars) /\ Len(InsertAt(text, p, c)) = Len(text) + 1
         /\ InsertAt(text, p, c)[p] = c
         /\ Only(InsertAt(text, p, c), 0 .. Pad) = text
         /\ Only(InsertAt(text, p, Blank), (0 .. Foreign) \ {Blank}) = text
         /\ Only(InsertAt(text, p, Foreign), (0 .. Foreign) \ {Blank}) = InsertAt(text, p, Foreign)
<1> DEFINE C == 0 .. Pad
           u == SubSeq(text, 1, p - 1)
           v == SubSeq(text, p, Len(text))
<1>1. Len(text) \in Nat /\ p \in Int /\ \A i \in 1 .. Len(text) : text[i] \in C
  <2>1. text \in Seq(C)
    OBVIOUS
  <2> HIDE DEF C
  <2>2. Len(text) \in Nat /\ \A i \in 1 .. Len(text) : text[i] \in C
    BY <2>1, LenProperties, ElementOfSeq
  <2>3. QED
    BY <2>2
<1>2. text \in Seq(C)
  OBVIOUS
<1>3. C \in SUBSET Nat /\ C \in SUBSET Chars /\ Chars \in SUBSET Nat /\ Blank \in Chars /\ Foreign \in Chars
      /\ Blank \notin C /\ Foreign \notin C /\ Blank # Foreign /\ C \in SUBSET Chars \ {Blank}
  BY DEF Chars, Pad, Blank, Foreign
<1> HIDE DEF C
<1>4. u \in Seq(C) /\ Len(u) = p - 1
  <2>1. \A i \in 1 .. p - 1 : text[i] \in C
    BY <1>1
  <2>2. p - 1 \in Int /\ (IF 1 <= p - 1 THEN p - 1 - 1 + 1 ELSE 0) = p - 1
    BY <1>1
  <2>3. QED
    BY <2>1, <2>2, SubSeqProperties
<1>5. v \in Seq(C) /\ Len(v) = Len(text) + 1 - p
  <2>1. \A i \in p .. Len(text) : text[i] \in C
    BY <1>1
  <2>2. (IF p <= Len(text) THEN Len(text) - p + 1 ELSE 0) = Len(text) + 1 - p
    BY <1>1
  <2>3. QED
    BY <1>1, <2>1, <2>2, SubSeqProperties
<1>6. u \o v = text
  <2> DEFINE k == p - 1
  <2>1. 1 \in 1 .. Len(text) + 1 /\ k \in 1 - 1 .. Len(text) /\ Len(text) \in k .. Len(text) /\ k + 1 = p
    BY <1>1
  <2> HIDE DEF k
  <2>2. SubSeq(text, 1, k) \o SubSeq(text, k + 1, Len(text)) = SubSeq(text, 1, Len(text))
    BY <2>1, ConcatAdjacentSubSeq
  <2>3. QED
    BY <2>1, <2>2, SubSeqFull DEF k
<1> HIDE DEF u, v
<1>7. ASSUME NEW x \in {Blank, Foreign}
      PROVE  /\ InsertAt(text, p, x) = u \o <<x>> \o v
             /\ InsertAt(text, p, x) \in Seq(Chars) /\ Len(InsertAt(text, p, x)) = Len(text) + 1
             /\ InsertAt(text, p, x)[p] = x
             /\ \A D : Only(InsertAt(text, p, x), D) = (Only(u, D) \o Only(<<x>>, D)) \o Only(v, D)
  <2> DEFINE w == <<x>>
             r == u \o w
  <2>1. w \in Seq(Chars) /\ Len(w) = 1 /\ w[1] = x
    BY <1>3
  <2>2. u \in Seq(Chars) /\ v \in Seq(Chars)
    BY <1>3, <1>4, <1>5, SeqMonotonic
  <2>3. InsertAt(text, p, x) = r \o v
    BY DEF InsertAt, u, v
  <2> HIDE DEF w
  <2>4. r \in Seq(Chars) /\ Len(r) = p /\ r[p] = x
    <3>1. /\ r \in Seq(Chars) /\ Len(r) = Len(u) + Len(w)
          /\ \A i \in 1 .. Len(u) + Len(w) : r[i] = IF i <= Len(u) THEN u[i] ELSE w[i - Len(u)]
      BY <2>1, <2>2, ConcatProperties
    <3>2. Len(u) + Len(w) = p /\ p \in 1 .. p /\ ~(p <= Len(u)) /\ p - Len(u) = 1
      BY <1>1, <1>4, <2>1
    <3> HIDE DEF r
    <3>3. QED
      BY <2>1, <3>1, <3>2
  <2>5. /\ r \o v \in Seq(Chars) /\ Len(r \o v) = Len(text) + 1 /\ (r \o v)[p] = x
    <3> HIDE DEF r
    <3>1. /\ r \o v \in Seq(Chars) /\ Len(r \o v) = Len(r) + Len(v)
          /\ \A i \in 1 .. Len(r) + Len(v) : (r \o v)[i] = IF i <= Len(r) THEN r[i] ELSE v[i - Len(r)]
      BY <2>2, <2>4, ConcatProperties
    <3>2. Len(r) + Len(v) = Len(text) + 1 /\ p \in 1 .. Len(r) + Len(v) /\ p <= Len(r)
      BY <1>1, <1>5, <2>4
    <3>3. QED
      BY <2>4, <3>1, <3>2
  <2>6. u \in Seq(Nat) /\ v \in Seq(Nat) /\ w \in Seq(Nat) /\ r \in Seq(Nat)
    <3>1. u \in Seq(Nat) /\ v \in Seq(Nat)
      BY <1>3, <1>4, <1>5, SeqMonotonic
    <3>2. w \in Seq(Nat)
      BY <1>3, <2>1, SeqMonotonic
    <3>3. QED
      BY <3>1, <3>2, ConcatProperties
  <2>7. ASSUME NEW D PROVE Only(r \o v, D) = (Only(u, D) \o Only(w, D)) \o Only(v, D)
    <3>1. Only(r, D) = Only(u, D) \o Only(w, D)
      BY <2>6, OnlyConcat
    <3> HIDE DEF r
    <3>2. Only(r \o v, D) = Only(r, D) \o Only(v, D)
      BY <2>6, OnlyConcat
    <3>3. QED
      BY <3>1, <3>2
  <2>8. QED
    BY <2>3, <2>5, <2>7 DEF w
<1>8. ASSUME NEW D \in SUBSET Nat, C \in SUBSET D PROVE Only(u, D) = u /\ Only(v, D) = v
  <2>1. u \in Seq(D) /\ v \in Seq(D)
    BY <1>4, <1>5, <1>8, SeqMonotonic
  <2>2. QED
    BY <2>1, OnlyAll
<1>9. ASSUME NEW x \in {Blank, Foreign}, NEW D \in SUBSET Nat, C \in SUBSET D, x \notin D
      PROVE  Only(InsertAt(text, p, x), D) = text
  <2>1. Only(<<x>>, D) = <<>>
    <3>1. x \in Nat
      BY <1>3
    <3>2. QED
      BY <1>9, <3>1, OnlyOne
  <2>2. (u \o <<>>) \o v = text
    BY <1>4, <1>6, ConcatEmptySeq
  <2>3. Only(u, D) = u /\ Only(v, D) = v
    BY <1>8, <1>9
  <2>4. QED
    BY <1>7, <2>1, <2>2, <2>3
<1>10. Only(InsertAt(text, p, c), C) = text
  BY <1>3, <1>9
<1>11. (0 .. Foreign) \ {Blank} = Chars \ {Blank}
  BY DEF Chars
<1>12. Only(InsertAt(text, p, Blank), Chars \ {Blank}) = text
  <2>1. Chars \ {Blank} \in SUBSET Nat /\ Blank \notin Chars \ {Blank}
    BY <1>3
  <2>2. QED
    BY <1>3, <1>9, <2>1
<1>13. Only(InsertAt(text, p, Foreign), Chars \ {Blank}) = InsertAt(text, p, Foreign)
  <2> DEFINE D == Chars \ {Blank}
  <2>1. D \in SUBSET Nat /\ Foreign \in D /\ C \in SUBSET D /\ Foreign \in Nat
    BY <1>3
  <2> HIDE DEF D
  <2>2. Only(<<Foreign>>, D) = <<Foreign>>
    BY <2>1, OnlyOne
  <2>3. Only(u, D) = u /\ Only(v, D) = v
    BY <1>8, <2>1
  <2>4. QED
    BY <1>7, <2>2, <2>3 DEF D
<1>14. QED
  BY <1>7, <1>10, <1>11, <1>12, <1>13 DEF C

\* What encode makes of any bytes is read back, for every one of them.
THEOREM Base64IsRead ==
  ASSUME NEW b \in Seq(Bytes8), NEW padding \in BOOLEAN,
         NEW p \in 1 .. Len(Base64Encode(b, padding)) + 1
  PROVE  LET text    == Base64Encode(b, padding)
             With(c) == InsertAt(text, p, c)
             whole   == Len(text) % 4 = 0
         IN  /\ Base64Decode(With(Blank), FALSE) = Ok(b)
             /\ Base64Decode(With(Blank), TRUE) = IF whole THEN Ok(b) ELSE Badarg
             /\ Base64Decode(With(Foreign), FALSE) = Badarg
             /\ MimeDecode(With(Foreign)) = Ok(b)
<1> DEFINE text    == Base64Encode(b, padding)
           With(c) == InsertAt(text, p, c)
           foreign == With(Foreign)
<1>1. /\ text \in Seq(0 .. Pad) /\ DecodeBin(text, FALSE) = Ok(b)
      /\ DecodeBin(text, TRUE) = IF Len(text) % 4 = 0 THEN Ok(b) ELSE Badarg
  BY EncodedIs
<1>2. p \in 1 .. Len(text) + 1 /\ Len(text) \in Nat
  BY <1>1, LenProperties
<1> HIDE DEF text
<1>3. /\ Only(With(Blank), (0 .. Foreign) \ {Blank}) = text
      /\ Only(foreign, (0 .. Foreign) \ {Blank}) = foreign
      /\ Only(foreign, 0 .. Pad) = text
      /\ foreign \in Seq(Chars) /\ Len(foreign) = Len(text) + 1 /\ foreign[p] = Foreign
  BY <1>1, <1>2, InsertedIs
<1>4. Base64Decode(With(Blank), FALSE) = Ok(b)
  BY <1>1, <1>3 DEF Base64Decode
<1>5. Base64Decode(With(Blank), TRUE) = IF Len(text) % 4 = 0 THEN Ok(b) ELSE Badarg
  BY <1>1, <1>3 DEF Base64Decode
<1>6. MimeDecode(foreign) = Ok(b)
  BY <1>1, <1>3 DEF MimeDecode
<1>7. Base64Decode(foreign, FALSE) = Badarg
  <2> DEFINE n    == Len(foreign) % 4
             pads == [i \in 1 .. 4 - n |-> Pad]
             all  == foreign \o pads
  <2>1. Base64Decode(foreign, FALSE) = IF n = 0 THEN DecodeGroups(foreign) ELSE DecodeGroups(all)
    BY <1>3 DEF Base64Decode, DecodeBin
  <2>2. p \in 1 .. Len(foreign)
    BY <1>2, <1>3
  <2>3. DecodeGroups(foreign) = Badarg
    BY <1>3, <2>2, ForeignIsRefused
  <2>4. n \in 0 .. 3
    BY <1>2, <1>3
  <2>5. pads \in Seq(Chars)
    BY <2>4, CharsAre
  <2> HIDE DEF foreign, pads
  <2>6. all \in Seq(Chars) /\ p \in 1 .. Len(all) /\ all[p] = Foreign
    <3>1. /\ all \in Seq(Chars) /\ Len(all) = Len(foreign) + Len(pads)
          /\ \A i \in 1 .. Len(foreign) + Len(pads) :
               all[i] = IF i <= Len(foreign) THEN foreign[i] ELSE pads[i - Len(foreign)]
      BY <1>3, <2>5, ConcatProperties, ZenonT(30)
    <3>2. Len(pads) \in Nat /\ Len(foreign) \in Nat
      BY <1>3, <2>5, LenProperties
    <3> HIDE DEF all
    <3>3. QED
      BY <1>3, <2>2, <3>1, <3>2
  <2> HIDE DEF all
  <2>7. DecodeGroups(all) = Badarg
    BY <2>6, ForeignIsRefused
  <2>8. QED
    BY <2>1, <2>3, <2>7 DEF all
<1>8. QED
  BY <1>4, <1>5, <1>6, <1>7 DEF text

LEMMA InputsAreTried == Spec => [](shim \in DOMAIN Inputs /\ input \in Inputs[shim])
<1> DEFINE I == shim \in DOMAIN Inputs /\ input \in Inputs[shim]
<1>1. Init => I
  BY DEF Init
<1>2. I /\ [Next]_vars => I'
  BY DEF Next, vars
<1>3. QED
  BY <1>1, <1>2, PTL DEF Spec

THEOREM Base64StaysRead == Spec => []Base64ReadsBack
<1>1. shim \in DOMAIN Inputs /\ input \in Inputs[shim] => Base64ReadsBack
  <2> SUFFICES ASSUME shim \in DOMAIN Inputs, input \in Inputs[shim], shim = "base64"
               PROVE  LET text    == Base64Encode(input.bytes, input.padding)
                          With(c) == InsertAt(text, 1 + (input.at % (Len(text) + 1)), c)
                          whole   == Len(text) % 4 = 0
                      IN  /\ Base64Decode(With(Blank), FALSE) = Ok(input.bytes)
                          /\ Base64Decode(With(Blank), TRUE) = IF whole THEN Ok(input.bytes) ELSE Badarg
                          /\ Base64Decode(With(Foreign), FALSE) = Badarg
                          /\ MimeDecode(With(Foreign)) = Ok(input.bytes)
    BY DEF Base64ReadsBack
  <2> DEFINE b       == input.bytes
             padding == input.padding
             text    == Base64Encode(b, padding)
             p       == 1 + (input.at % (Len(text) + 1))
  <2>1. b \in Seq(Bytes8) /\ padding \in BOOLEAN /\ input.at \in Nat
    BY Base64Assumption DEF Bytes8, IsEncodable
  <2>2. text \in Seq(0 .. Pad)
    BY <2>1, EncodedIs
  <2>3. Len(text) \in Nat
    BY <2>2, LenProperties
  <2> HIDE DEF b, padding
  <2>4. p \in 1 .. Len(text) + 1
    <3> DEFINE l == Len(text)
               a == input.at
    <3>1. l \in Nat /\ a \in Nat /\ p = 1 + (a % (l + 1))
      BY <2>1, <2>3
    <3> HIDE DEF l, a, p
    <3>2. a % (l + 1) \in 0 .. l
      BY <3>1
    <3>3. QED
      BY <3>1, <3>2 DEF l
  <2> HIDE DEF p
  <2>5. LET With(c) == InsertAt(text, p, c)
            whole   == Len(text) % 4 = 0
        IN  /\ Base64Decode(With(Blank), FALSE) = Ok(b)
            /\ Base64Decode(With(Blank), TRUE) = IF whole THEN Ok(b) ELSE Badarg
            /\ Base64Decode(With(Foreign), FALSE) = Badarg
            /\ MimeDecode(With(Foreign)) = Ok(b)
    BY <2>1, <2>4, Base64IsRead
  <2>6. QED
    BY <2>5 DEF b, padding, p
<1>2. QED
  BY <1>1, InputsAreTried, PTL

-----------------------------------------------------------------------------
(* Bytes, and where they are split *)

\* No byte of b is c.
Free(b, c) == \A i \in 1 .. Len(b) : b[i] # c

LEMMA Bytes ==
  ASSUME NEW b \in Seq(Byte)
  PROVE  Len(b) \in Nat /\ \A i \in 1 .. Len(b) : b[i] \in Byte
BY LenProperties, ElementOfSeq

LEMMA Joined ==
  ASSUME NEW u \in Seq(Byte), NEW v \in Seq(Byte)
  PROVE  /\ u \o v \in Seq(Byte) /\ Len(u \o v) = Len(u) + Len(v)
         /\ \A i \in 1 .. Len(u) : (u \o v)[i] = u[i]
         /\ \A i \in 1 .. Len(v) : (u \o v)[Len(u) + i] = v[i]
<1>1. Len(u) \in Nat /\ Len(v) \in Nat
  BY LenProperties
<1>2. /\ u \o v \in Seq(Byte) /\ Len(u \o v) = Len(u) + Len(v)
      /\ \A i \in 1 .. Len(u) + Len(v) : (u \o v)[i] = IF i <= Len(u) THEN u[i] ELSE v[i - Len(u)]
  BY ConcatProperties
<1>3. ASSUME NEW i \in 1 .. Len(v) PROVE (u \o v)[Len(u) + i] = v[i]
  <2> DEFINE j == Len(u) + i
  <2>1. j \in 1 .. Len(u) + Len(v) /\ ~(j <= Len(u)) /\ j - Len(u) = i
    BY <1>1
  <2> HIDE DEF j
  <2>2. (u \o v)[j] = v[i]
    BY <1>2, <2>1
  <2>3. QED
    BY <2>2 DEF j
<1>4. QED
  BY <1>1, <1>2, <1>3

LEMMA OneByte ==
  ASSUME NEW c \in Byte
  PROVE  <<c>> \in Seq(Byte) /\ Len(<<c>>) = 1 /\ <<c>>[1] = c
OBVIOUS

LEMMA ThreeJoined ==
  ASSUME NEW u \in Seq(Byte), NEW v \in Seq(Byte), NEW w \in Seq(Byte)
  PROVE  (u \o v) \o w = u \o (v \o w)
BY ConcatAssociative

\* The first n bytes and the others.
LEMMA CutInTwo ==
  ASSUME NEW b \in Seq(Byte), NEW n \in 0 .. Len(b)
  PROVE  /\ SubSeq(b, 1, n) \in Seq(Byte) /\ Len(SubSeq(b, 1, n)) = n
         /\ \A i \in 1 .. n : SubSeq(b, 1, n)[i] = b[i]
         /\ From(b, n) \in Seq(Byte) /\ Len(From(b, n)) = Len(b) - n
         /\ \A i \in 1 .. Len(b) - n : From(b, n)[i] = b[n + i]
         /\ b = SubSeq(b, 1, n) \o From(b, n)
<1>1. Len(b) \in Nat /\ n \in Nat /\ n <= Len(b) /\ \A i \in 1 .. Len(b) : b[i] \in Byte
  BY Bytes
<1>2. /\ SubSeq(b, 1, n) \in Seq(Byte) /\ Len(SubSeq(b, 1, n)) = n
      /\ \A i \in 1 .. n : SubSeq(b, 1, n)[i] = b[i]
  <2>1. \A i \in 1 .. n : b[i] \in Byte
    BY <1>1
  <2>2. /\ SubSeq(b, 1, n) \in Seq(Byte)
        /\ Len(SubSeq(b, 1, n)) = IF 1 <= n THEN n - 1 + 1 ELSE 0
        /\ \A i \in 1 .. n - 1 + 1 : SubSeq(b, 1, n)[i] = b[1 + i - 1]
    BY <1>1, <2>1, SubSeqProperties
  <2>3. QED
    BY <1>1, <2>2
<1>3. /\ From(b, n) \in Seq(Byte) /\ Len(From(b, n)) = Len(b) - n
      /\ \A i \in 1 .. Len(b) - n : From(b, n)[i] = b[n + i]
  <2> DEFINE m == n + 1
             l == Len(b)
  <2>1. m \in Int /\ l \in Int /\ \A i \in m .. l : b[i] \in Byte
    BY <1>1
  <2>2. m = n + 1 /\ n <= l
    BY <1>1
  <2>3. From(b, n) = SubSeq(b, m, l)
    BY DEF From
  <2> HIDE DEF m, l
  <2>4. /\ SubSeq(b, m, l) \in Seq(Byte)
        /\ Len(SubSeq(b, m, l)) = IF m <= l THEN l - m + 1 ELSE 0
        /\ \A i \in 1 .. l - m + 1 : SubSeq(b, m, l)[i] = b[m + i - 1]
    BY <2>1, SubSeqProperties
  <2>5. \A i \in 1 .. l - n : m + i - 1 = n + i /\ i \in 1 .. l - m + 1
    BY <1>1, <2>1, <2>2
  <2>6. QED
    BY <1>1, <2>1, <2>2, <2>3, <2>4, <2>5 DEF l
<1>4. b = SubSeq(b, 1, n) \o From(b, n)
  <2>1. 1 \in 1 .. Len(b) + 1 /\ n \in 1 - 1 .. Len(b) /\ Len(b) \in n .. Len(b)
    BY <1>1
  <2>2. SubSeq(b, 1, n) \o SubSeq(b, n + 1, Len(b)) = SubSeq(b, 1, Len(b))
    BY <2>1, ConcatAdjacentSubSeq
  <2>3. QED
    BY <2>2, SubSeqFull DEF From
<1>5. QED
  BY <1>2, <1>3, <1>4

\* Two sequences that are put together can be taken apart where they meet.
LEMMA TakenApart ==
  ASSUME NEW u \in Seq(Byte), NEW v \in Seq(Byte)
  PROVE  SubSeq(u \o v, 1, Len(u)) = u /\ From(u \o v, Len(u)) = v
<1> DEFINE b == u \o v
<1>1. /\ b \in Seq(Byte) /\ Len(b) = Len(u) + Len(v) /\ Len(u) \in Nat /\ Len(v) \in Nat
      /\ \A i \in 1 .. Len(u) : b[i] = u[i]
      /\ \A i \in 1 .. Len(v) : b[Len(u) + i] = v[i]
  BY Joined, Bytes
<1> HIDE DEF b
<1>2. Len(u) \in 0 .. Len(b)
  BY <1>1
<1> DEFINE first == SubSeq(b, 1, Len(u))
           last  == From(b, Len(u))
<1>3. /\ first \in Seq(Byte) /\ Len(first) = Len(u)
      /\ \A i \in 1 .. Len(u) : first[i] = b[i]
      /\ last \in Seq(Byte) /\ Len(last) = Len(b) - Len(u)
      /\ \A i \in 1 .. Len(b) - Len(u) : last[i] = b[Len(u) + i]
  BY <1>1, <1>2, CutInTwo
<1> HIDE DEF first, last
<1>4. first = u
  BY <1>1, <1>3, SeqEqual
<1>5. last = v
  <2>1. Len(last) = Len(v) /\ \A i \in 1 .. Len(v) : last[i] = v[i]
    BY <1>1, <1>3
  <2>2. QED
    BY <1>3, <2>1, SeqEqual
<1>6. QED
  BY <1>4, <1>5 DEF first, last, b

LEMMA LeastIs ==
  ASSUME NEW I \in SUBSET Nat, NEW m \in I, \A i \in I : m <= i
  PROVE  Min(I) = m
<1>1. \A n \in I : (\A i \in I : n <= i) => n = m
  OBVIOUS
<1>2. QED
  BY <1>1 DEF Min

LEMMA FirstIs ==
  ASSUME NEW b \in Seq(Byte), NEW c
  PROVE  LET i == SelectInSeq(b, LAMBDA x : x = c)
         IN  \/ i = 0 /\ Free(b, c)
             \/ i \in 1 .. Len(b) /\ b[i] = c /\ \A k \in 1 .. i - 1 : b[k] # c
<1> DEFINE I == {i \in 1 .. Len(b) : b[i] = c}
           i == SelectInSeq(b, LAMBDA x : x = c)
<1>1. Len(b) \in Nat
  BY Bytes
<1>2. i = IF I # {} THEN Min(I) ELSE 0
  BY DEF SelectInSeq
<1>3. CASE I = {}
  BY <1>2, <1>3 DEF Free
<1>4. CASE I # {}
  <2>1. I \in SUBSET Nat
    BY <1>1
  <2>2. PICK m \in I : \A k \in I : m <= k
    BY <1>4, <2>1, LeastNatural
  <2>3. i = m
    <3> HIDE DEF I, i
    <3>1. QED
      BY <1>2, <1>4, <2>1, <2>2, LeastIs
  <2>4. \A k \in 1 .. m - 1 : b[k] # c
    BY <1>1, <2>2
  <2>5. QED
    BY <2>2, <2>3, <2>4
<1>5. QED
  BY <1>3, <1>4

\* Where a sequence is split.
LEMMA NotSplit ==
  ASSUME NEW b \in Seq(Byte), NEW c, Free(b, c)
  PROVE  Split(b, c) = <<b>>
<1> DEFINE i == SelectInSeq(b, LAMBDA x : x = c)
<1>1. \/ i = 0 /\ Free(b, c)
      \/ i \in 1 .. Len(b) /\ b[i] = c /\ \A k \in 1 .. i - 1 : b[k] # c
  BY FirstIs
<1> HIDE DEF i
<1>2. i = 0
  BY <1>1 DEF Free
<1>3. QED
  BY <1>2 DEF Split, i

LEMMA SplitThere ==
  ASSUME NEW u \in Seq(Byte), NEW c \in Byte, NEW v \in Seq(Byte), Free(u, c)
  PROVE  Split((u \o <<c>>) \o v, c) = <<u, v>>
<1> DEFINE w == <<c>>
           p == u \o w
           b == p \o v
           n == Len(u)
<1>1. w \in Seq(Byte) /\ Len(w) = 1 /\ w[1] = c
  BY OneByte
<1> HIDE DEF w
<1>2. /\ p \in Seq(Byte) /\ Len(p) = n + 1 /\ p[n + 1] = c /\ n \in Nat
      /\ \A k \in 1 .. n : p[k] = u[k]
  <2>1. /\ p \in Seq(Byte) /\ Len(p) = n + Len(w)
        /\ \A k \in 1 .. n : p[k] = u[k]
    BY <1>1, Joined
  <2>2. n \in Nat /\ 1 \in 1 .. Len(w)
    BY <1>1, Bytes
  <2>3. p[n + 1] = w[1]
    BY <1>1, <2>2, Joined
  <2>4. QED
    BY <1>1, <2>1, <2>2, <2>3
<1> HIDE DEF p
<1>3. /\ b \in Seq(Byte) /\ Len(b) = n + 1 + Len(v) /\ Len(v) \in Nat
      /\ \A k \in 1 .. n + 1 : b[k] = p[k]
  <2>1. /\ b \in Seq(Byte) /\ Len(b) = Len(p) + Len(v) /\ Len(v) \in Nat
    BY <1>2, Joined, Bytes
  <2>2. \A k \in 1 .. Len(p) : b[k] = p[k]
    BY <1>2, Joined
  <2>3. QED
    BY <1>2, <2>1, <2>2
<1>4. SubSeq(b, 1, n + 1) = p /\ From(b, n + 1) = v
  BY <1>2, TakenApart
<1>5. SubSeq(b, 1, n) = u
  <2>1. n \in 0 .. Len(b)
    BY <1>2, <1>3
  <2> DEFINE first == SubSeq(b, 1, n)
  <2>2. first \in Seq(Byte) /\ Len(first) = n /\ \A k \in 1 .. n : first[k] = b[k]
    BY <1>3, <2>1, CutInTwo
  <2> HIDE DEF first
  <2>3. \A k \in 1 .. n : first[k] = u[k]
    BY <1>2, <1>3, <2>2
  <2>4. first = u
    BY <2>2, <2>3, SeqEqual
  <2>5. QED
    BY <2>4 DEF first
<1> HIDE DEF b
<1> DEFINE i == SelectInSeq(b, LAMBDA x : x = c)
<1>6. i = n + 1
  <2>1. \/ i = 0 /\ Free(b, c)
        \/ i \in 1 .. Len(b) /\ b[i] = c /\ \A k \in 1 .. i - 1 : b[k] # c
    BY <1>3, FirstIs
  <2> HIDE DEF i, n
  <2>2. n + 1 \in 1 .. Len(b) /\ b[n + 1] = c /\ \A k \in 1 .. n : b[k] # c
    <3>1. n \in Nat /\ \A k \in 1 .. n : u[k] # c
      BY <1>2 DEF Free, n
    <3>2. n + 1 \in 1 .. Len(b) /\ n + 1 \in 1 .. n + 1
      BY <1>2, <1>3, <3>1
    <3>3. QED
      BY <1>2, <1>3, <3>1, <3>2
  <2>3. i # 0
    BY <2>1, <2>2 DEF Free
  <2>4. ~(i < n + 1) /\ ~(i > n + 1) /\ i \in Int
    BY <1>2, <1>3, <2>1, <2>2, <2>3
  <2>5. QED
    BY <1>2, <2>4
<1> HIDE DEF i
<1>7. n + 1 # 0 /\ n + 1 - 1 = n
  BY <1>2
<1>8. Split(b, c) = <<u, v>>
  <2>1. Split(b, c) = IF i = 0 THEN <<b>> ELSE <<SubSeq(b, 1, i - 1), From(b, i)>>
    BY DEF Split, i
  <2>2. i # 0 /\ i - 1 = n
    BY <1>6, <1>7
  <2>3. SubSeq(b, 1, i - 1) = u /\ From(b, i) = v
    BY <1>4, <1>5, <1>6, <2>2
  <2>4. QED
    BY <2>1, <2>2, <2>3
<1>9. QED
  BY <1>8 DEF b, p, w

LEMMA SplitIs ==
  ASSUME NEW b \in Seq(Byte), NEW c \in Byte
  PROVE  \/ Free(b, c) /\ Split(b, c) = <<b>>
         \/ \E u \in Seq(Byte), v \in Seq(Byte) :
              b = (u \o <<c>>) \o v /\ Free(u, c) /\ Split(b, c) = <<u, v>>
<1> DEFINE i == SelectInSeq(b, LAMBDA x : x = c)
<1>1. \/ i = 0 /\ Free(b, c)
      \/ i \in 1 .. Len(b) /\ b[i] = c /\ \A k \in 1 .. i - 1 : b[k] # c
  BY FirstIs
<1> HIDE DEF i
<1>2. CASE i = 0 /\ Free(b, c)
  BY <1>2, NotSplit
<1>3. CASE i \in 1 .. Len(b) /\ b[i] = c /\ \A k \in 1 .. i - 1 : b[k] # c
  <2> DEFINE n == i - 1
             u == SubSeq(b, 1, n)
             r == From(b, n)
             v == From(r, 1)
             w == SubSeq(r, 1, 1)
  <2>0. n \in 0 .. Len(b) /\ Len(b) \in Nat /\ n + 1 = i /\ n < Len(b)
    BY <1>3, Bytes
  <2> HIDE DEF n
  <2>1. /\ u \in Seq(Byte) /\ Len(u) = n /\ (\A k \in 1 .. n : u[k] = b[k])
        /\ r \in Seq(Byte) /\ Len(r) = Len(b) - n /\ r[1] = b[i]
        /\ b = u \o r
    <3>1. /\ u \in Seq(Byte) /\ Len(u) = n /\ (\A k \in 1 .. n : u[k] = b[k])
          /\ r \in Seq(Byte) /\ Len(r) = Len(b) - n
          /\ b = u \o r
      BY <2>0, CutInTwo
    <3>2. \A k \in 1 .. Len(b) - n : r[k] = b[n + k]
      BY <2>0, CutInTwo
    <3>3. 1 \in 1 .. Len(b) - n
      BY <2>0
    <3>4. r[1] = b[n + 1]
      BY <3>2, <3>3
    <3>5. QED
      BY <2>0, <3>1, <3>4
  <2> HIDE DEF u, r
  <2>2. 1 \in 0 .. Len(r)
    BY <2>0, <2>1
  <2>3. w \in Seq(Byte) /\ Len(w) = 1 /\ w[1] = r[1] /\ v \in Seq(Byte) /\ r = w \o v
    <3>1. 1 \in 1 .. 1
      OBVIOUS
    <3>2. w \in Seq(Byte) /\ Len(w) = 1 /\ (\A k \in 1 .. 1 : w[k] = r[k]) /\ v \in Seq(Byte) /\ r = w \o v
      BY <2>1, <2>2, CutInTwo
    <3>3. QED
      BY <3>1, <3>2
  <2> HIDE DEF v, w
  <2>4. w = <<c>>
    <3>1. w = <<w[1]>>
      BY <2>3, Tuples
    <3>2. QED
      BY <1>3, <2>1, <2>3, <3>1
  <2>5. Free(u, c)
    BY <1>3, <2>0, <2>1 DEF Free, n
  <2>6. b = (u \o <<c>>) \o v
    BY <2>1, <2>3, <2>4, ThreeJoined, SMTT(30)
  <2>7. Split(b, c) = <<u, v>>
    BY <2>1, <2>3, <2>5, <2>6, SplitThere
  <2>8. QED
    BY <2>1, <2>3, <2>5, <2>6, <2>7
<1>4. QED
  BY <1>1, <1>2, <1>3

-----------------------------------------------------------------------------
(* All the parts between delimiters *)

\* The parts found so far, and those found after one byte more.
Parts == Seq(Seq(Byte)) \ {<<>>}
After(ps, x, c) == IF x = c THEN Append(ps, <<>>) ELSE [ps EXCEPT ![Len(ps)] = Append(@, x)]

LEMMA AfterDelimiter ==
  ASSUME NEW ps \in Parts, NEW c
  PROVE  After(ps, c, c) = Append(ps, <<>>) /\ After(ps, c, c) \in Parts
<1>1. <<>> \in Seq(Byte) /\ ps \in Seq(Seq(Byte))
  BY EmptySeq DEF Parts
<1>2. QED
  <2> DEFINE S == Seq(Byte)
  <2>1. <<>> \in S /\ ps \in Seq(S)
    BY <1>1
  <2> HIDE DEF S
  <2>2. Append(ps, <<>>) \in Seq(S) /\ Append(ps, <<>>) # <<>>
    BY <2>1, AppendProperties
  <2>3. QED
    BY <2>2 DEF After, Parts, S

LEMMA AfterOther ==
  ASSUME NEW qs \in Seq(Seq(Byte)), NEW w \in Seq(Byte), NEW x \in Byte, NEW c, x # c
  PROVE  /\ After(Append(qs, w), x, c) = Append(qs, Append(w, x))
         /\ After(Append(qs, w), x, c) \in Parts /\ Append(qs, w) \in Parts
<1> DEFINE S == Seq(Byte)
           y == Append(w, x)
           s == Append(qs, w)
           t == Append(qs, y)
           n == Len(qs)
<1>1. y \in S /\ w \in S /\ qs \in Seq(S)
  BY AppendProperties
<1> HIDE DEF S, y
<1>2. /\ s \in Seq(S) /\ Len(s) = n + 1 /\ s[n + 1] = w /\ s # <<>> /\ n \in Nat
      /\ \A i \in 1 .. n : s[i] = qs[i]
  BY <1>1, AppendProperties, LenProperties
<1>3. /\ t \in Seq(S) /\ Len(t) = n + 1 /\ t[n + 1] = y /\ t # <<>>
      /\ \A i \in 1 .. n : t[i] = qs[i]
  BY <1>1, AppendProperties
<1> HIDE DEF s, t, n
<1>4. [s EXCEPT ![n + 1] = y] \in Seq(S)
  BY <1>1, <1>2, ExceptSeq
<1> DEFINE e == [s EXCEPT ![n + 1] = y]
<1>5. Len(e) = n + 1 /\ \A i \in 1 .. n + 1 : e[i] = IF i = n + 1 THEN y ELSE s[i]
  BY <1>1, <1>2, <1>4, ExceptSeq, LenProperties
<1>6. e = t
  <2>1. \A i \in 1 .. Len(t) : e[i] = t[i]
    BY <1>2, <1>3, <1>5
  <2>2. QED
    BY <1>3, <1>4, <1>5, <2>1, SeqEqual
<1>7. After(s, x, c) = e
  BY <1>2 DEF After, y
<1>8. QED
  BY <1>2, <1>3, <1>6, <1>7 DEF Parts, S, s, t, y

LEMMA AfterType ==
  ASSUME NEW ps \in Parts, NEW x \in Byte, NEW c
  PROVE  After(ps, x, c) \in Parts
<1>1. CASE x = c
  BY <1>1, AfterDelimiter
<1>2. CASE x # c
  <2> DEFINE S == Seq(Byte)
  <2>1. ps \in Seq(S) /\ ps # <<>>
    BY DEF Parts
  <2> HIDE DEF S
  <2>2. PICK qs \in Seq(S), w \in S : ps = Append(qs, w)
    BY <2>1, SequenceEmptyOrAppend
  <2>3. QED
    BY <1>2, <2>2, AfterOther DEF S
<1>3. QED
  BY <1>1, <1>2

\* f has the parts of the first k bytes of b at k.
Splits(f, b, c) ==
  /\ f \in [0 .. Len(b) -> Parts] /\ f[0] = << <<>> >>
  /\ \A k \in 1 .. Len(b) : f[k] = After(f[k - 1], b[k], c)

LEMMA SplitsExist ==
  ASSUME NEW b \in Seq(Byte), NEW c
  PROVE  \E f : Splits(f, b, c)
<1> DEFINE n    == Len(b)
           step == [i \in Nat |-> [ps \in Parts |-> IF i < n THEN After(ps, b[i + 1], c) ELSE ps]]
<1>1. n \in Nat /\ \A k \in 1 .. n : b[k] \in Byte
  BY Bytes
<1> HIDE DEF n
<1>2. ASSUME NEW i \in Nat, NEW ps \in Parts PROVE step[i][ps] \in Parts
  <2>1. CASE i < n
    <3>1. b[i + 1] \in Byte
      BY <1>1, <2>1
    <3>2. QED
      BY <2>1, <3>1, AfterType
  <2>2. CASE ~(i < n)
    BY <2>2
  <2>3. QED
    BY <2>1, <2>2
<1>3. \A i \in Nat : \A ps \in Parts : i < n => step[i][ps] = After(ps, b[i + 1], c)
  OBVIOUS
<1>4. << <<>> >> \in Parts
  <2>1. <<>> \in Seq(Byte)
    BY EmptySeq
  <2>2. << <<>> >> # <<>>
    OBVIOUS
  <2>3. QED
    BY <2>1, <2>2 DEF Parts
<1> HIDE DEF step
<1>5. PICK f : Solves(f, Parts, << <<>> >>, step)
  <2>1. Within(Parts, << <<>> >>, step)
    BY <1>2, <1>4 DEF Within
  <2>2. QED
    BY <2>1, Recursion
<1> DEFINE g == [k \in 0 .. n |-> f[k]]
<1>6. g \in [0 .. n -> Parts] /\ g[0] = << <<>> >>
  BY <1>1, <1>5 DEF Solves
<1>7. ASSUME NEW k \in 1 .. n PROVE g[k] = After(g[k - 1], b[k], c)
  <2>1. k - 1 \in Nat /\ k - 1 + 1 = k /\ k - 1 < n
    BY <1>1
  <2>2. f[k - 1] \in Parts /\ f[k - 1 + 1] = step[k - 1][f[k - 1]]
    BY <1>5, <2>1 DEF Solves
  <2>3. step[k - 1][f[k - 1]] = After(f[k - 1], b[k - 1 + 1], c)
    BY <1>3, <2>1, <2>2
  <2>4. f[k] = After(f[k - 1], b[k], c)
    BY <2>1, <2>2, <2>3
  <2>5. k \in 0 .. n /\ k - 1 \in 0 .. n
    BY <1>1
  <2>6. QED
    BY <2>4, <2>5, Zenon
<1> HIDE DEF g
<1>8. Splits(g, b, c)
  BY <1>6, <1>7 DEF Splits, n
<1>9. QED
  BY <1>8

LEMMA SplitAllIs ==
  ASSUME NEW b \in Seq(Byte), NEW c, NEW f, Splits(f, b, c)
  PROVE  SplitAll(b, c) = f[Len(b)]
<1> DEFINE n     == Len(b)
           D     == 0 .. n
           Is(g) == g = [k \in D |-> IF k = 0 THEN << <<>> >> ELSE After(g[k - 1], b[k], c)]
           parts == CHOOSE g : Is(g)
<1>1. n \in Nat
  BY Bytes
<1>2. SplitAll(b, c) = parts[n]
  BY DEF SplitAll, After
<1>3. Is(f)
  <2>1. f \in [D -> Parts] /\ f[0] = << <<>> >>
    BY DEF Splits
  <2>2. ASSUME NEW k \in D PROVE f[k] = IF k = 0 THEN << <<>> >> ELSE After(f[k - 1], b[k], c)
    <3>1. CASE k = 0
      BY <2>1, <3>1
    <3>2. CASE k # 0
      <4>1. k \in 1 .. Len(b)
        BY <1>1, <3>2
      <4>2. f[k] = After(f[k - 1], b[k], c)
        BY <4>1 DEF Splits
      <4>3. QED
        BY <3>2, <4>2
    <3>3. QED
      BY <3>1, <3>2
  <2>3. QED
    BY <2>1, <2>2, Zenon
<1>4. Is(parts)
  <2> HIDE DEF Is
  <2>1. QED
    BY <1>3
<1> HIDE DEF parts
<1> DEFINE T == {k \in Nat : k <= n => parts[k] = f[k]}
<1>5. 0 \in T
  <2>1. 0 \in D
    BY <1>1
  <2>2. parts[0] = << <<>> >>
    BY <1>4, <2>1
  <2>3. QED
    BY <2>2 DEF Splits
<1>6. ASSUME NEW k \in T PROVE k + 1 \in T
  <2>1. SUFFICES ASSUME k + 1 <= n PROVE parts[k + 1] = f[k + 1]
    OBVIOUS
  <2> DEFINE i == k + 1
  <2>2. i \in D /\ i # 0 /\ i - 1 = k /\ i \in 1 .. Len(b) /\ parts[k] = f[k]
    BY <1>1, <2>1
  <2> HIDE DEF i
  <2>3. parts[i] = After(parts[i - 1], b[i], c)
    BY <1>4, <2>2
  <2>4. f[i] = After(f[i - 1], b[i], c)
    BY <2>2 DEF Splits
  <2>5. parts[i] = f[i]
    BY <2>2, <2>3, <2>4
  <2>6. QED
    BY <2>5 DEF i
<1>7. T = Nat
  <2> HIDE DEF T
  <2>1. T \in SUBSET Nat
    BY DEF T
  <2>2. QED
    BY <1>5, <1>6, <2>1, SetInduction
<1>8. QED
  BY <1>1, <1>2, <1>7

LEMMA SplitAllEmpty == \A c : SplitAll(<<>>, c) = << <<>> >>
<1>1. TAKE c
<1>2. <<>> \in Seq(Byte) /\ Len(<<>>) = 0
  BY EmptySeq
<1>3. PICK f : Splits(f, <<>>, c)
  BY <1>2, SplitsExist
<1>4. SplitAll(<<>>, c) = f[0]
  BY <1>2, <1>3, SplitAllIs
<1>5. QED
  BY <1>3, <1>4 DEF Splits

LEMMA SplitAllAppend ==
  ASSUME NEW b \in Seq(Byte), NEW x \in Byte, NEW c
  PROVE  SplitAll(b, c) \in Parts /\ SplitAll(Append(b, x), c) = After(SplitAll(b, c), x, c)
<1> DEFINE n == Len(b)
           t == Append(b, x)
<1>1. /\ n \in Nat /\ t \in Seq(Byte) /\ Len(t) = n + 1 /\ t[n + 1] = x
      /\ \A k \in 1 .. n : t[k] = b[k]
  BY AppendProperties, LenProperties
<1>2. PICK f : Splits(f, t, c)
  BY <1>1, SplitsExist
<1> DEFINE g == [k \in 0 .. n |-> f[k]]
<1> HIDE DEF t, n
<1>3. f \in [0 .. n + 1 -> Parts] /\ f[0] = << <<>> >>
  BY <1>1, <1>2 DEF Splits
<1>4. Splits(g, b, c)
  <2>1. g \in [0 .. n -> Parts] /\ g[0] = << <<>> >>
    BY <1>1, <1>3
  <2>2. ASSUME NEW k \in 1 .. n PROVE g[k] = After(g[k - 1], b[k], c)
    <3>1. k \in 1 .. n + 1 /\ k \in 0 .. n /\ k - 1 \in 0 .. n
      BY <1>1
    <3>2. f[k] = After(f[k - 1], t[k], c)
      BY <1>1, <1>2, <3>1 DEF Splits
    <3>3. QED
      BY <1>1, <3>1, <3>2
  <2> HIDE DEF g
  <2>3. QED
    BY <2>1, <2>2 DEF Splits, n
<1>5. SplitAll(b, c) = g[n] /\ g[n] = f[n] /\ g[n] \in Parts
  BY <1>1, <1>3, <1>4, SplitAllIs DEF n
<1>6. SplitAll(t, c) = f[n + 1]
  BY <1>1, <1>2, SplitAllIs
<1>7. f[n + 1] = After(f[n], x, c)
  <2>1. PICK k \in 1 .. Len(t) : k = n + 1 /\ k - 1 = n
    BY <1>1
  <2>2. f[k] = After(f[k - 1], t[k], c)
    BY <1>2 DEF Splits
  <2>3. QED
    BY <1>1, <2>1, <2>2, Zenon
<1>8. QED
  BY <1>5, <1>6, <1>7 DEF t

\* What comes after a delimiter and holds none is the last part.
LEMMA SplitAllLast ==
  ASSUME NEW b \in Seq(Byte), NEW c \in Byte, NEW w \in Seq(Byte), Free(w, c)
  PROVE  SplitAll(Append(b, c) \o w, c) = Append(SplitAll(b, c), w)
<1> DEFINE a == Append(b, c)
           T == {u \in Seq(Byte) : Free(u, c) => SplitAll(a \o u, c) = Append(SplitAll(b, c), u)}
<1>1. a \in Seq(Byte) /\ SplitAll(a, c) = Append(SplitAll(b, c), <<>>) /\ SplitAll(b, c) \in Parts
  BY SplitAllAppend, AfterDelimiter, AppendProperties
<1> HIDE DEF a
<1>2. <<>> \in T
  BY <1>1, ConcatEmptySeq, EmptySeq
<1>3. ASSUME NEW u \in T, NEW x \in Byte PROVE Append(u, x) \in T
  <2>1. /\ Append(u, x) \in Seq(Byte) /\ a \o u \in Seq(Byte)
        /\ a \o Append(u, x) = Append(a \o u, x)
    BY <1>1, AppendProperties, ConcatProperties
  <2>2. /\ u \in Seq(Byte) /\ Len(u) \in Nat /\ Len(Append(u, x)) = Len(u) + 1
        /\ Append(u, x)[Len(u) + 1] = x /\ \A i \in 1 .. Len(u) : Append(u, x)[i] = u[i]
    BY AppendProperties, LenProperties
  <2>3. SUFFICES ASSUME Free(Append(u, x), c)
                 PROVE  SplitAll(a \o Append(u, x), c) = Append(SplitAll(b, c), Append(u, x))
    BY <2>1
  <2>4. x # c
    <3>1. Len(u) + 1 \in 1 .. Len(Append(u, x))
      BY <2>2
    <3>2. QED
      BY <2>2, <2>3, <3>1 DEF Free
  <2>5. Free(u, c)
    <3>1. \A i \in 1 .. Len(u) : i \in 1 .. Len(Append(u, x))
      BY <2>2
    <3>2. QED
      BY <2>2, <2>3, <3>1 DEF Free
  <2>6. SplitAll(a \o u, c) = Append(SplitAll(b, c), u)
    BY <2>5
  <2>7. SplitAll(Append(a \o u, x), c) = After(Append(SplitAll(b, c), u), x, c)
    <3> DEFINE v == a \o u
    <3>1. v \in Seq(Byte) /\ SplitAll(v, c) = Append(SplitAll(b, c), u)
      BY <2>1, <2>6
    <3> HIDE DEF v
    <3>2. SplitAll(Append(v, x), c) = After(SplitAll(v, c), x, c)
      BY <3>1, SplitAllAppend
    <3>3. QED
      BY <3>1, <3>2 DEF v
  <2>8. SplitAll(b, c) \in Seq(Seq(Byte))
    BY <1>1 DEF Parts
  <2>9. After(Append(SplitAll(b, c), u), x, c) = Append(SplitAll(b, c), Append(u, x))
    BY <2>2, <2>4, <2>8, AfterOther
  <2>10. QED
    BY <2>1, <2>7, <2>9
<1>4. T = Seq(Byte)
  <2> HIDE DEF T
  <2>1. T \in SUBSET Seq(Byte)
    BY DEF T
  <2>2. QED
    BY <1>2, <1>3, <2>1, SeqInduction
<1>5. QED
  BY <1>4 DEF a

-----------------------------------------------------------------------------
(* The encoding of bytes *)

\* The bytes that an encoded key or value is made of.
Safe   == Byte \ {Ampersand, Equals}
FormOf == [c \in Byte |-> FormByte(c)]

LEMMA HexDigitIs ==
  ASSUME NEW n \in 0 .. 15
  PROVE  HexDigit(n) \in Safe /\ Hex(HexDigit(n)) = n
<1>1. CASE n < 10
  <2>1. HexDigit(n) = 48 + n
    BY <1>1 DEF HexDigit
  <2>2. 48 + n \in Digits
    BY <1>1 DEF Digits
  <2>3. \A c \in Digits : c \notin 97 .. 102 /\ c \notin 65 .. 70 /\ c \in Safe
    BY DEF Digits, Safe, Byte, Ampersand, Equals
  <2>4. Hex(48 + n) = 48 + n - 48
    BY <2>2, <2>3 DEF Hex
  <2>5. QED
    BY <1>1, <2>1, <2>2, <2>3, <2>4
<1>2. CASE ~(n < 10)
  <2>1. HexDigit(n) = 55 + n
    BY <1>2 DEF HexDigit
  <2>2. 55 + n \in 65 .. 70
    BY <1>2
  <2>3. \A c \in 65 .. 70 : c \notin 97 .. 102 /\ c \notin Digits /\ c \in Safe
    BY DEF Digits, Safe, Byte, Ampersand, Equals
  <2>4. Hex(55 + n) = 55 + n - 55
    BY <2>2, <2>3 DEF Hex
  <2>5. QED
    BY <1>2, <2>1, <2>2, <2>3, <2>4
<1>3. QED
  BY <1>1, <1>2

LEMMA FormByteIs ==
  ASSUME NEW c \in Byte
  PROVE  \/ c = Space /\ FormByte(c) = <<Plus>>
         \/ c \in 97 .. 122 /\ FormByte(c) = <<c>>
         \/ \E h \in 0 .. 15, l \in 0 .. 15 :
              c = 16 * h + l /\ FormByte(c) = <<Percent, HexDigit(h), HexDigit(l)>>
<1>1. CASE c = Space
  BY <1>1 DEF FormByte, Space
<1>2. CASE c \in 97 .. 122
  <2>1. c # Space
    BY <1>2 DEF Space
  <2>2. QED
    BY <1>2, <2>1 DEF FormByte
<1>3. CASE c # Space /\ c \notin 97 .. 122
  <2>1. FormByte(c) = <<Percent, HexDigit(c \div 16), HexDigit(c % 16)>>
    BY <1>3 DEF FormByte
  <2>2. c \div 16 \in 0 .. 15 /\ c % 16 \in 0 .. 15 /\ c = 16 * (c \div 16) + (c % 16)
    BY DEF Byte
  <2>3. QED
    BY <2>1, <2>2
<1>4. QED
  BY <1>1, <1>2, <1>3

LEMMA FormByteType ==
  ASSUME NEW c \in Byte
  PROVE  FormByte(c) \in Seq(Safe) /\ FormByte(c) \in Seq(Byte) /\ Len(FormByte(c)) \in 1 .. 3
<1>1. Plus \in Safe /\ Percent \in Safe /\ \A x \in 97 .. 122 : x \in Safe
  BY DEF Plus, Percent, Safe, Byte, Ampersand, Equals
<1>2. ASSUME NEW x \in Safe PROVE <<x>> \in Seq(Safe) /\ Len(<<x>>) = 1
  OBVIOUS
<1>3. ASSUME NEW x \in Safe, NEW y \in Safe, NEW z \in Safe
      PROVE  <<x, y, z>> \in Seq(Safe) /\ Len(<<x, y, z>>) = 3
  OBVIOUS
<1>4. FormByte(c) \in Seq(Safe) /\ Len(FormByte(c)) \in 1 .. 3
  <2>1. CASE FormByte(c) = <<Plus>>
    BY <1>1, <1>2, <2>1
  <2>2. CASE c \in 97 .. 122 /\ FormByte(c) = <<c>>
    BY <1>1, <1>2, <2>2
  <2>3. ASSUME NEW h \in 0 .. 15, NEW l \in 0 .. 15,
               FormByte(c) = <<Percent, HexDigit(h), HexDigit(l)>>
        PROVE  FormByte(c) \in Seq(Safe) /\ Len(FormByte(c)) \in 1 .. 3
    <3>1. HexDigit(h) \in Safe /\ HexDigit(l) \in Safe
      BY HexDigitIs
    <3>2. QED
      BY <1>1, <1>3, <2>3, <3>1
  <2>4. QED
    BY <2>1, <2>2, <2>3, FormByteIs
<1>5. Safe \in SUBSET Byte
  BY DEF Safe
<1>6. QED
  BY <1>4, <1>5, SeqMonotonic

\* One call of percent_decode takes what one byte was encoded as.
LEMMA FormByteIsDecoded ==
  ASSUME NEW c \in Byte, NEW r \in Seq(Byte), NEW acc
  PROVE  NextCall(Call(FormByte(c) \o r, acc)) = Call(r, Append(acc, c))
<1> DEFINE e == FormByte(c)
           b == e \o r
<1>1. e \in Seq(Byte) /\ Len(e) \in 1 .. 3
  BY FormByteType
<1>2. b \in Seq(Byte) /\ Len(b) = Len(e) + Len(r) /\ Len(r) \in Nat /\ From(b, Len(e)) = r
  BY <1>1, Joined, TakenApart, Bytes
<1>3. \A i \in 1 .. Len(e) : b[i] = e[i]
  BY <1>1, Joined
<1>4. b # <<>>
  <2> HIDE DEF b, e
  <2>1. Len(b) # 0
    BY <1>1, <1>2
  <2>2. Len(<<>>) = 0
    OBVIOUS
  <2>3. QED
    BY <2>1, <2>2
<1> DEFINE call == Call(b, acc)
<1>5. call.rest = b /\ call.acc = acc
  BY DEF Call
<1>6. b[1] = e[1]
  BY <1>1, <1>3
<1>7. CASE c = Space /\ e = <<Plus>>
  <2>1. Len(e) = 1 /\ b[1] = Plus /\ b[1] # Percent
    BY <1>6, <1>7 DEF Plus, Percent
  <2> HIDE DEF b, call, e
  <2>2. NextCall(call) = Call(From(b, 1), Append(acc, Space))
    BY <1>4, <1>5, <2>1 DEF NextCall
  <2>3. QED
    BY <1>2, <1>7, <2>1, <2>2 DEF b, e, call
<1>8. CASE c \in 97 .. 122 /\ e = <<c>>
  <2>1. Len(e) = 1 /\ b[1] = c /\ b[1] # Percent /\ b[1] # Plus
    BY <1>6, <1>8 DEF Plus, Percent
  <2> HIDE DEF b, call, e
  <2>2. NextCall(call) = Call(From(b, 1), Append(acc, b[1]))
    BY <1>4, <1>5, <2>1 DEF NextCall
  <2>3. QED
    BY <1>2, <2>1, <2>2 DEF b, e, call
<1>9. ASSUME NEW h \in 0 .. 15, NEW l \in 0 .. 15, c = 16 * h + l,
             e = <<Percent, HexDigit(h), HexDigit(l)>>
      PROVE  NextCall(call) = Call(r, Append(acc, c))
  <2>1. Len(e) = 3 /\ e[1] = Percent /\ e[2] = HexDigit(h) /\ e[3] = HexDigit(l)
    BY <1>9
  <2> HIDE DEF b, call, e
  <2>2. Len(b) >= 3 /\ b[1] = Percent /\ b[2] = HexDigit(h) /\ b[3] = HexDigit(l)
    BY <1>2, <1>3, <2>1
  <2>3. Hex(b[2]) = h /\ Hex(b[3]) = l
    BY <2>2, HexDigitIs
  <2>4. Percent # Plus /\ h >= 0 /\ l >= 0
    BY DEF Percent, Plus
  <2>5. NextCall(call) = Call(From(b, 3), Append(acc, 16 * Hex(b[2]) + Hex(b[3])))
    BY <1>4, <1>5, <2>2, <2>3, <2>4 DEF NextCall
  <2>6. QED
    BY <1>2, <1>9, <2>1, <2>3, <2>5
<1>10. QED
  BY <1>7, <1>8, <1>9, FormByteIs

LEMMA FormEncodedIs ==
  ASSUME NEW b \in Seq(Byte)
  PROVE  FormEncoded(b) = FlattenSeq(Mapped(b, FormOf))
<1>1. \A i \in DOMAIN b : b[i] \in Byte
  BY Bytes
<1>2. QED
  BY <1>1 DEF FormEncoded, Mapped, FormOf

LEMMA FormEncodedType ==
  ASSUME NEW b \in Seq(Byte)
  PROVE  FormEncoded(b) \in Seq(Safe) /\ FormEncoded(b) \in Seq(Byte)
<1>1. FormOf \in [Byte -> Seq(Safe)]
  BY FormByteType DEF FormOf
<1>2. FormEncoded(b) \in Seq(Safe)
  BY <1>1, ComprehensionType, FormEncodedIs
<1>3. Safe \in SUBSET Byte
  BY DEF Safe
<1>4. QED
  BY <1>2, <1>3, SeqMonotonic

LEMMA FormEncodedEmpty == FormEncoded(<<>>) = <<>>
<1>1. <<>> \in Seq(Byte)
  BY EmptySeq
<1>2. QED
  BY <1>1, FormEncodedIs, MappedEmpty, FlattenEmpty

LEMMA FormEncodedJoined ==
  ASSUME NEW c \in Byte, NEW s \in Seq(Byte)
  PROVE  FormEncoded(<<c>> \o s) = FormByte(c) \o FormEncoded(s)
<1> DEFINE w == <<c>>
<1>1. FormOf \in [Byte -> Seq(Byte)]
  BY FormByteType DEF FormOf
<1>2. w \in Seq(Byte) /\ w \o s \in Seq(Byte)
  BY OneByte, Joined
<1>3. FlattenSeq(Mapped(w, FormOf)) = FormByte(c)
  BY <1>1, ComprehensionOne DEF FormOf
<1> HIDE DEF w
<1>4. FlattenSeq(Mapped(w \o s, FormOf)) = FlattenSeq(Mapped(w, FormOf)) \o FlattenSeq(Mapped(s, FormOf))
  BY <1>1, <1>2, ComprehensionConcat
<1>5. QED
  BY <1>2, <1>3, <1>4, FormEncodedIs DEF w

\* An encoded text is not shorter than the text.
LEMMA FormEncodedLength ==
  ASSUME NEW b \in Seq(Byte)
  PROVE  Len(FormEncoded(b)) >= Len(b)
<1> DEFINE T == {s \in Seq(Byte) : Len(FormEncoded(s)) >= Len(s)}
<1>1. ASSUME NEW s \in Seq(Byte), Len(s) < 1 PROVE s \in T
  <2>1. s = <<>>
    BY <1>1, EmptySeq, Bytes
  <2>2. QED
    BY <2>1, FormEncodedEmpty
<1>2. ASSUME NEW g \in Seq(Byte), NEW s \in T, Len(g) = 1 PROVE g \o s \in T
  <2>1. PICK c \in Byte : g = <<c>>
    <3>1. g = <<g[1]>> /\ g[1] \in Byte
      BY <1>2, Tuples, Bytes
    <3>2. QED
      BY <3>1
  <2>2. FormEncoded(g \o s) = FormByte(c) \o FormEncoded(s)
    BY <2>1, FormEncodedJoined
  <2>3. /\ FormByte(c) \in Seq(Byte) /\ Len(FormByte(c)) \in 1 .. 3
        /\ FormEncoded(s) \in Seq(Byte)
    BY FormByteType, FormEncodedType
  <2>4. Len(FormByte(c) \o FormEncoded(s)) = Len(FormByte(c)) + Len(FormEncoded(s))
    BY <2>3, Joined
  <2>5. g \o s \in Seq(Byte) /\ Len(g \o s) = Len(g) + Len(s)
    BY Joined
  <2>6. Len(FormEncoded(s)) >= Len(s) /\ Len(s) \in Nat /\ Len(FormEncoded(s)) \in Nat
    BY <2>3, Bytes
  <2>7. QED
    BY <1>2, <2>2, <2>3, <2>4, <2>5, <2>6
<1>3. T = Seq(Byte)
  <2> HIDE DEF T
  <2>1. T \in SUBSET Seq(Byte) /\ 1 \in Nat \ {0}
    BY DEF T
  <2>2. QED
    BY <1>1, <1>2, <2>1, GroupInduction
<1>4. QED
  BY <1>3

-----------------------------------------------------------------------------
(* percent_decode *)

LEMMA NextByte ==
  ASSUME NEW t \in Seq(Byte), NEW k \in 0 .. Len(t), k < Len(t)
  PROVE  /\ From(t, k) = <<t[k + 1]>> \o From(t, k + 1)
         /\ SubSeq(t, 1, k + 1) = Append(SubSeq(t, 1, k), t[k + 1])
         /\ t[k + 1] \in Byte /\ From(t, k + 1) \in Seq(Byte)
<1>1. Len(t) \in Nat /\ k + 1 \in 0 .. Len(t) /\ k + 1 \in 1 .. Len(t) /\ t[k + 1] \in Byte /\ k \in Nat
  <2>1. Len(t) \in Nat /\ k + 1 \in 1 .. Len(t) /\ k + 1 \in 0 .. Len(t) /\ k \in Nat
    BY Bytes
  <2>2. QED
    BY <2>1, Bytes
<1> DEFINE w == <<t[k + 1]>>
           r == From(t, k + 1)
           a == From(t, k)
           p == SubSeq(t, 1, k)
           q == SubSeq(t, 1, k + 1)
           l == Len(t)
<1>2. w \in Seq(Byte) /\ Len(w) = 1 /\ w[1] = t[k + 1]
  BY <1>1, OneByte
<1>3. /\ a \in Seq(Byte) /\ Len(a) = l - k /\ \A i \in 1 .. l - k : a[i] = t[k + i]
  BY CutInTwo
<1>4. p \in Seq(Byte) /\ Len(p) = k /\ \A i \in 1 .. k : p[i] = t[i]
  BY CutInTwo
<1>5. /\ r \in Seq(Byte) /\ Len(r) = l - (k + 1) /\ \A i \in 1 .. l - (k + 1) : r[i] = t[(k + 1) + i]
      /\ q \in Seq(Byte) /\ Len(q) = k + 1 /\ \A i \in 1 .. k + 1 : q[i] = t[i]
  <2> DEFINE m == k + 1
  <2>1. m \in 0 .. Len(t)
    BY <1>1
  <2> HIDE DEF m
  <2>2. /\ From(t, m) \in Seq(Byte) /\ Len(From(t, m)) = Len(t) - m
        /\ \A i \in 1 .. Len(t) - m : From(t, m)[i] = t[m + i]
    BY <2>1, CutInTwo
  <2>3. /\ SubSeq(t, 1, m) \in Seq(Byte) /\ Len(SubSeq(t, 1, m)) = m
        /\ \A i \in 1 .. m : SubSeq(t, 1, m)[i] = t[i]
    BY <2>1, CutInTwo
  <2>4. QED
    BY <2>2, <2>3 DEF m
<1>6. r \in Seq(Byte) /\ l \in Nat /\ k < l
  BY <1>1, <1>5
<1> HIDE DEF w, r, a, p, q, l
<1>7. a = w \o r
  <2> DEFINE c == w \o r
  <2>1. /\ c \in Seq(Byte) /\ Len(c) = 1 + Len(r)
        /\ c[1] = w[1] /\ \A i \in 1 .. Len(r) : c[1 + i] = r[i]
    <3>1. 1 \in 1 .. Len(w)
      BY <1>2
    <3>2. c \in Seq(Byte) /\ Len(c) = Len(w) + Len(r) /\ c[1] = w[1]
      BY <1>2, <1>5, <3>1, Joined
    <3>3. \A i \in 1 .. Len(r) : c[Len(w) + i] = r[i]
      BY <1>2, <1>5, Joined
    <3>4. QED
      BY <1>2, <3>2, <3>3
  <2> HIDE DEF c
  <2>2. Len(a) = Len(c)
    BY <1>1, <1>3, <1>5, <1>6, <2>1
  <2>3. ASSUME NEW i \in 1 .. Len(c) PROVE a[i] = c[i]
    <3>1. CASE i = 1
      BY <1>1, <1>2, <1>3, <1>6, <2>1, <3>1
    <3>2. CASE i # 1
      <4>1. PICK j \in 1 .. Len(r) : i = 1 + j
        <5>1. i - 1 \in 1 .. Len(r) /\ i = 1 + (i - 1)
          BY <1>1, <1>5, <1>6, <2>1, <3>2
        <5>2. QED
          BY <5>1
      <4>2. k + i = (k + 1) + j /\ j \in 1 .. l - (k + 1) /\ i \in 1 .. l - k
        BY <1>1, <1>5, <1>6, <4>1
      <4>3. a[i] = t[k + i] /\ r[j] = t[(k + 1) + j]
        BY <1>3, <1>5, <4>2
      <4>4. QED
        BY <2>1, <4>1, <4>2, <4>3
    <3>3. QED
      BY <3>1, <3>2
  <2>4. a = c
    BY <1>3, <2>1, <2>2, <2>3, SeqEqual
  <2>5. QED
    BY <2>4 DEF c
<1>8. q = Append(p, t[k + 1])
  <2> DEFINE x == t[k + 1]
             c == Append(p, x)
  <2>1. x \in Byte
    BY <1>1
  <2>2. /\ c \in Seq(Byte) /\ Len(c) = k + 1 /\ c[k + 1] = x
        /\ \A i \in 1 .. k : c[i] = p[i]
    BY <1>4, <2>1, AppendProperties
  <2>3. \A i \in 1 .. k + 1 : q[i] = c[i]
    BY <1>1, <1>4, <1>5, <2>2, SMTT(30)
  <2> HIDE DEF c
  <2>4. QED
    BY <1>5, <2>2, <2>3, SeqEqual DEF c
<1>9. QED
  BY <1>1, <1>6, <1>7, <1>8 DEF a, w, r, p, q

\* percent_decode undoes the encoding of any bytes, in as many calls as there are bytes.
LEMMA PercentDecoded ==
  ASSUME NEW t \in Seq(Byte)
  PROVE  PercentDecode(FormEncoded(t)) = t
<1> DEFINE e     == FormEncoded(t)
           n     == Len(t)
           m     == Len(e)
           D     == 0 .. m
           At1(k) == Call(FormEncoded(From(t, k)), SubSeq(t, 1, k))
           g     == [k \in D |-> IF k <= n THEN At1(k) ELSE Call(<<>>, t)]
           Is(f) == f = [k \in D |-> IF k = 0 THEN Call(e, <<>>) ELSE NextCall(f[k - 1])]
           call  == CHOOSE f : Is(f)
<1>1. e \in Seq(Byte) /\ m \in Nat /\ n \in Nat /\ n <= m
  BY FormEncodedType, FormEncodedLength, Bytes
<1>2. PercentDecode(e) = call[m].acc
  BY DEF PercentDecode, Calls
<1> HIDE DEF e, m
<1>3. At1(0) = Call(e, <<>>)
  <2>1. From(t, 0) = t
    BY SubSeqFull DEF From
  <2>2. SubSeq(t, 1, 0) = <<>>
    BY SubSeqEmpty
  <2>3. QED
    BY <2>1, <2>2 DEF e
<1>4. At1(n) = Call(<<>>, t)
  <2>1. SubSeq(t, 1, n) = t
    BY SubSeqFull
  <2>2. From(t, n) = <<>>
    <3>1. n \in 0 .. Len(t)
      BY <1>1
    <3> DEFINE r == From(t, n)
    <3>2. r \in Seq(Byte) /\ Len(r) = n - n
      BY <3>1, CutInTwo
    <3> HIDE DEF r
    <3>3. r = <<>>
      BY <1>1, <3>2, EmptySeq
    <3>4. QED
      BY <3>3 DEF r
  <2>3. QED
    BY <2>1, <2>2, FormEncodedEmpty
<1>5. ASSUME NEW k \in 0 .. n, k < n PROVE At1(k + 1) = NextCall(At1(k))
  <2> DEFINE c   == t[k + 1]
             r   == From(t, k + 1)
             acc == SubSeq(t, 1, k)
  <2>1. From(t, k) = <<c>> \o r /\ SubSeq(t, 1, k + 1) = Append(acc, c) /\ c \in Byte /\ r \in Seq(Byte)
    BY <1>5, NextByte
  <2>2. FormEncoded(From(t, k)) = FormByte(c) \o FormEncoded(r) /\ FormEncoded(r) \in Seq(Byte)
    BY <2>1, FormEncodedJoined, FormEncodedType
  <2> HIDE DEF c, r, acc
  <2>3. NextCall(Call(FormByte(c) \o FormEncoded(r), acc)) = Call(FormEncoded(r), Append(acc, c))
    BY <2>1, <2>2, FormByteIsDecoded
  <2>4. QED
    BY <2>1, <2>2, <2>3 DEF r, acc
<1>6. NextCall(Call(<<>>, t)) = Call(<<>>, t)
  BY DEF NextCall, Call
<1> HIDE DEF At1
<1>7. Is(g)
  <2>1. ASSUME NEW k \in D
        PROVE  g[k] = IF k = 0 THEN Call(e, <<>>) ELSE NextCall(g[k - 1])
    <3>1. CASE k = 0
      BY <1>1, <1>3, <3>1
    <3>2. CASE k # 0 /\ k <= n
      <4>1. PICK j \in 0 .. n : j < n /\ k = j + 1 /\ k - 1 = j /\ j \in D /\ j <= n
        <5>1. k - 1 \in 0 .. n /\ k - 1 < n /\ k = (k - 1) + 1 /\ k - 1 \in D /\ k - 1 <= n
          BY <1>1, <3>2
        <5>2. QED
          BY <5>1
      <4>2. At1(j + 1) = NextCall(At1(j))
        BY <1>5, <4>1
      <4>3. g[k] = At1(j + 1) /\ g[k - 1] = At1(j)
        BY <3>2, <4>1
      <4>4. QED
        BY <3>2, <4>2, <4>3
    <3>3. CASE k # 0 /\ ~(k <= n)
      <4>1. PICK j \in D : k - 1 = j /\ (j = n \/ ~(j <= n))
        <5>1. k - 1 \in D /\ (k - 1 = n \/ ~(k - 1 <= n))
          BY <1>1, <3>3
        <5>2. QED
          BY <5>1
      <4>2. g[j] = Call(<<>>, t)
        <5>1. CASE j = n
          <6>1. g[j] = At1(n)
            BY <1>1, <5>1
          <6>2. QED
            BY <1>4, <6>1
        <5>2. CASE ~(j <= n)
          BY <5>2
        <5>3. QED
          BY <4>1, <5>1, <5>2
      <4>3. g[k] = Call(<<>>, t)
        BY <3>3
      <4>4. QED
        BY <1>6, <3>3, <4>1, <4>2, <4>3
    <3>4. QED
      BY <3>1, <3>2, <3>3
  <2>2. g = [k \in D |-> g[k]]
    OBVIOUS
  <2> HIDE DEF g
  <2>3. QED
    BY <2>1, <2>2, Zenon
<1>8. g[m] = Call(<<>>, t)
  <2>1. m \in D
    BY <1>1
  <2>2. CASE m = n
    BY <1>4, <2>1, <2>2
  <2>3. CASE m # n
    BY <1>1, <2>1, <2>3
  <2>4. QED
    BY <2>2, <2>3
<1> HIDE DEF g
<1>9. Is(call)
  <2> HIDE DEF Is
  <2>1. QED
    BY <1>7
<1> HIDE DEF call
<1> DEFINE T == {k \in Nat : k <= m => call[k] = g[k]}
<1>10. 0 \in T
  <2>1. 0 \in D
    BY <1>1
  <2>2. call[0] = Call(e, <<>>) /\ g[0] = Call(e, <<>>)
    BY <1>7, <1>9, <2>1
  <2>3. QED
    BY <2>2
<1>11. ASSUME NEW k \in T PROVE k + 1 \in T
  <2>1. SUFFICES ASSUME k + 1 <= m PROVE call[k + 1] = g[k + 1]
    OBVIOUS
  <2> DEFINE i == k + 1
  <2>2. i \in D /\ i # 0 /\ i - 1 = k /\ call[k] = g[k]
    BY <1>1, <2>1
  <2> HIDE DEF i
  <2>3. call[i] = NextCall(call[i - 1])
    BY <1>9, <2>2
  <2>4. g[i] = NextCall(g[i - 1])
    BY <1>7, <2>2
  <2>5. call[i] = g[i]
    BY <2>2, <2>3, <2>4
  <2>6. QED
    BY <2>5 DEF i
<1>12. T = Nat
  <2> HIDE DEF T
  <2>1. T \in SUBSET Nat
    BY DEF T
  <2>2. QED
    BY <1>10, <1>11, <2>1, SetInduction
<1>13. call[m] = Call(<<>>, t)
  BY <1>1, <1>8, <1>12
<1>14. call[m].acc = t
  BY <1>13 DEF Call
<1>15. QED
  BY <1>2, <1>14 DEF e

-----------------------------------------------------------------------------
(* dissect_query *)

\* The pairs that a query can say.
Pairs == {kv \in Seq(Byte) \X Seq(Seq(Byte)) : Len(kv[2]) <= 1 /\ kv # <<<<>>, None>>}

LEMMA SafeIsFree ==
  ASSUME NEW b \in Seq(Safe)
  PROVE  Free(b, Ampersand) /\ Free(b, Equals)
<1>1. \A i \in 1 .. Len(b) : b[i] \in Safe
  BY ElementOfSeq
<1>2. QED
  BY <1>1 DEF Free, Safe

LEMMA Delimiters == Ampersand \in Byte /\ Equals \in Byte /\ Ampersand # Equals
BY DEF Ampersand, Equals, Byte

LEMMA FormPairIs ==
  ASSUME NEW kv \in Pairs
  PROVE  /\ FormPair(kv) \in Seq(Byte) /\ FormPair(kv) # <<>> /\ Free(FormPair(kv), Ampersand)
         /\ KeyValue(FormPair(kv)) = kv
<1> DEFINE key  == kv[1]
           e    == FormEncoded(key)
           part == FormPair(kv)
<1>1. kv = <<kv[1], kv[2]>> /\ key \in Seq(Byte) /\ kv[2] \in Seq(Seq(Byte)) /\ Len(kv[2]) <= 1
  BY DEF Pairs
<1>2. /\ e \in Seq(Safe) /\ e \in Seq(Byte) /\ Free(e, Ampersand) /\ Free(e, Equals)
      /\ PercentDecode(e) = key /\ Len(e) >= Len(key)
  BY <1>1, FormEncodedType, FormEncodedLength, SafeIsFree, PercentDecoded
<1> HIDE DEF e
<1>3. CASE kv[2] = None
  <2>1. part = e
    BY <1>2, <1>3, ConcatEmptySeq DEF FormPair, e
  <2>2. Split(e, Equals) = <<e>>
    BY <1>2, NotSplit
  <2>3. KeyValue(e) = <<key, None>>
    BY <1>2, <2>2 DEF KeyValue
  <2>4. e # <<>>
    <3>1. key # <<>>
      BY <1>1, <1>3 DEF Pairs
    <3>2. Len(key) # 0 /\ Len(key) \in Nat /\ Len(e) \in Nat
      BY <1>1, <1>2, <3>1, EmptySeq, Bytes
    <3>3. Len(e) # 0
      BY <1>2, <3>2
    <3>4. QED
      BY <3>3
  <2>5. QED
    BY <1>1, <1>2, <1>3, <2>1, <2>3, <2>4
<1>4. CASE kv[2] # None
  <2> DEFINE S == Seq(Byte)
             v == kv[2][1]
             f == FormEncoded(v)
             q == <<Equals>>
  <2>1. kv[2] = <<v>> /\ v \in Seq(Byte)
    <3>1. kv[2] \in Seq(S) /\ kv[2] # <<>>
      BY <1>1, <1>4 DEF None
    <3> HIDE DEF S
    <3>2. Len(kv[2]) = 1
      <4> DEFINE l == Len(kv[2])
      <4>1. l \in Nat /\ l # 0 /\ l <= 1
        BY <1>1, <3>1, EmptySeq, LenProperties
      <4> HIDE DEF l
      <4>2. l = 1
        BY <4>1
      <4>3. QED
        BY <4>2 DEF l
    <3>3. kv[2] = <<v>> /\ 1 \in 1 .. Len(kv[2])
      BY <3>1, <3>2, Tuples
    <3>4. v \in S
      BY <3>1, <3>3, ElementOfSeq
    <3>5. QED
      BY <3>3, <3>4 DEF S
  <2> HIDE DEF v
  <2>2. f \in Seq(Safe) /\ f \in Seq(Byte) /\ PercentDecode(f) = v /\ Free(f, Ampersand)
    BY <2>1, FormEncodedType, PercentDecoded, SafeIsFree
  <2>3. q \in Seq(Byte) /\ Len(q) = 1 /\ q[1] = Equals
    BY OneByte, Delimiters
  <2>4. part = e \o (q \o f)
    BY <1>4 DEF FormPair, e, v
  <2> HIDE DEF f, part
  <2>5. part = (e \o q) \o f
    <3> HIDE DEF q
    <3>1. QED
      BY <1>2, <2>2, <2>3, <2>4, ThreeJoined
  <2>6. Split(part, Equals) = <<e, f>>
    BY <1>2, <2>2, <2>5, Delimiters, SplitThere
  <2>7. KeyValue(part) = <<key, <<v>>>>
    BY <1>2, <2>2, <2>6 DEF KeyValue, Some
  <2>8. part \in Seq(Byte) /\ part # <<>> /\ Free(part, Ampersand)
    <3> HIDE DEF q
    <3> DEFINE r == q \o f
    <3>1. r \in Seq(Byte) /\ Len(r) = 1 + Len(f) /\ Len(f) \in Nat
      <4>1. r \in Seq(Byte) /\ Len(r) = Len(q) + Len(f)
        BY <2>2, <2>3, Joined
      <4>2. Len(f) \in Nat
        BY <2>2, Bytes
      <4> HIDE DEF r
      <4>3. QED
        BY <2>3, <4>1, <4>2
    <3>2. Free(r, Ampersand)
      <4>1. ASSUME NEW i \in 1 .. Len(r) PROVE r[i] # Ampersand
        <5>1. CASE i = 1
          <6>1. 1 \in 1 .. Len(q)
            BY <2>3
          <6>2. r[1] = q[1]
            BY <2>2, <2>3, <6>1, Joined
          <6>3. QED
            BY <2>3, <5>1, <6>2, Delimiters
        <5>2. CASE i # 1
          <6>1. PICK j \in 1 .. Len(f) : i = Len(q) + j
            <7>1. i - 1 \in 1 .. Len(f) /\ i = Len(q) + (i - 1)
              BY <2>3, <3>1, <5>2
            <7>2. QED
              BY <7>1
          <6>2. r[Len(q) + j] = f[j]
            BY <2>2, <2>3, Joined
          <6>3. QED
            BY <2>2, <6>1, <6>2 DEF Free
        <5>3. QED
          BY <5>1, <5>2
      <4>2. QED
        BY <4>1 DEF Free
    <3> HIDE DEF r
    <3>3. /\ e \o r \in Seq(Byte) /\ Len(e \o r) = Len(e) + Len(r) /\ Len(e) \in Nat
      BY <1>2, <3>1, Joined, Bytes
    <3>4. part = e \o r
      BY <2>4 DEF r
    <3>5. ASSUME NEW i \in 1 .. Len(part) PROVE part[i] # Ampersand
      <4>1. CASE i \in 1 .. Len(e)
        <5>1. (e \o r)[i] = e[i]
          BY <1>2, <3>1, <4>1, Joined
        <5>2. QED
          BY <1>2, <3>4, <4>1, <5>1 DEF Free
      <4>2. CASE i \notin 1 .. Len(e)
        <5>1. PICK j \in 1 .. Len(r) : i = Len(e) + j
          <6>1. i - Len(e) \in 1 .. Len(r) /\ i = Len(e) + (i - Len(e))
            BY <3>1, <3>3, <3>4, <4>2
          <6>2. QED
            BY <6>1
        <5>2. (e \o r)[Len(e) + j] = r[j]
          BY <1>2, <3>1, Joined
        <5>3. QED
          BY <3>2, <3>4, <5>1, <5>2 DEF Free
      <4>3. QED
        BY <4>1, <4>2
    <3>6. part # <<>>
      <4>1. Len(part) # 0
        BY <3>1, <3>3, <3>4
      <4>2. QED
        BY <4>1
    <3>7. QED
      BY <3>3, <3>4, <3>5, <3>6 DEF Free
  <2> HIDE DEF key
  <2>9. kv = <<key, <<v>>>>
    BY <1>1, <2>1 DEF key
  <2>10. KeyValue(part) = kv
    BY <2>7, <2>9
  <2>11. QED
    BY <2>8, <2>10 DEF part
<1>5. QED
  BY <1>3, <1>4

\* What a part gives, and the pairs of all parts.
PairOf     == [p \in Seq(Byte) |-> IF p = <<>> THEN <<>> ELSE <<KeyValue(p)>>]
KeyValues  == {KeyValue(p) : p \in Seq(Byte)}
PairsOf(ps) == FlattenSeq(Mapped(ps, PairOf))

LEMMA PairOfType == PairOf \in [Seq(Byte) -> Seq(KeyValues)]
<1>1. ASSUME NEW p \in Seq(Byte)
      PROVE  (IF p = <<>> THEN <<>> ELSE <<KeyValue(p)>>) \in Seq(KeyValues)
  <2> DEFINE x == KeyValue(p)
  <2>1. x \in KeyValues
    BY DEF KeyValues
  <2> HIDE DEF x
  <2>2. <<x>> \in Seq(KeyValues) /\ <<>> \in Seq(KeyValues)
    BY <2>1
  <2>3. QED
    BY <2>2 DEF x
<1>2. QED
  BY <1>1 DEF PairOf

LEMMA DissectQueryIs ==
  ASSUME NEW b \in Seq(Byte)
  PROVE  DissectQuery(b) = PairsOf(SplitAll(b, Ampersand)) /\ SplitAll(b, Ampersand) \in Seq(Seq(Byte))
<1> DEFINE ps == SplitAll(b, Ampersand)
           S  == Seq(Byte)
<1>1. ps \in Seq(S)
  BY SplitAllAppend, Delimiters DEF Parts
<1>2. DissectQuery(b) =
        FlattenSeq([i \in DOMAIN ps |-> IF ps[i] = <<>> THEN <<>> ELSE <<KeyValue(ps[i])>>])
  BY DEF DissectQuery
<1> HIDE DEF ps
<1>3. \A i \in DOMAIN ps : ps[i] \in Seq(Byte)
  <2> HIDE DEF S
  <2>1. \A i \in DOMAIN ps : ps[i] \in S
    BY <1>1, ElementOfSeq, LenProperties
  <2>2. QED
    BY <2>1 DEF S
<1>4. Mapped(ps, PairOf) = [i \in DOMAIN ps |-> IF ps[i] = <<>> THEN <<>> ELSE <<KeyValue(ps[i])>>]
  BY <1>3 DEF Mapped, PairOf
<1>5. QED
  BY <1>1, <1>2, <1>4 DEF PairsOf, ps

\* A part more.
LEMMA DissectMore ==
  ASSUME NEW b \in Seq(Byte), NEW w \in Seq(Byte), Free(w, Ampersand)
  PROVE  /\ DissectQuery(Append(b, Ampersand) \o w) = DissectQuery(b) \o PairOf[w]
         /\ DissectQuery(b) \in Seq(KeyValues)
<1> DEFINE ps == SplitAll(b, Ampersand)
           a  == Append(b, Ampersand)
           S  == Seq(Byte)
<1>1. ps \in Seq(S) /\ DissectQuery(b) = PairsOf(ps)
  BY DissectQueryIs
<1>2. a \in Seq(Byte)
  BY AppendProperties, Delimiters
<1>3. SplitAll(a \o w, Ampersand) = Append(ps, w)
  BY Delimiters, SplitAllLast
<1> HIDE DEF a, ps
<1>4. a \o w \in Seq(Byte)
  BY <1>2, Joined
<1>5. DissectQuery(a \o w) = PairsOf(Append(ps, w))
  BY <1>3, <1>4, DissectQueryIs
<1>6. PairOf \in [S -> Seq(KeyValues)] /\ w \in S
  BY PairOfType
<1> HIDE DEF S
<1>7. PairsOf(Append(ps, w)) = PairsOf(ps) \o PairOf[w]
  BY <1>1, <1>6, ComprehensionAppend DEF PairsOf
<1>8. PairsOf(ps) \in Seq(KeyValues)
  BY <1>1, <1>6, ComprehensionType DEF PairsOf
<1>9. QED
  BY <1>1, <1>5, <1>7, <1>8 DEF a

LEMMA DissectNothing == DissectQuery(<<>>) = <<>>
<1> DEFINE S == Seq(Byte)
<1>1. <<>> \in Seq(Byte) /\ <<>> \in S
  BY EmptySeq
<1>2. DissectQuery(<<>>) = PairsOf(<< <<>> >>)
  BY <1>1, DissectQueryIs, SplitAllEmpty
<1>3. PairOf \in [S -> Seq(KeyValues)] /\ PairOf[<<>>] = <<>>
  BY <1>1, PairOfType DEF PairOf
<1> HIDE DEF S
<1>4. PairsOf(<< <<>> >>) = PairOf[<<>>]
  BY <1>1, <1>3, ComprehensionOne DEF PairsOf
<1>5. QED
  BY <1>2, <1>3, <1>4

\* Ampersands at the end say nothing.
LEMMA DissectJoints ==
  ASSUME NEW b \in Seq(Byte), NEW j \in Seq({Ampersand})
  PROVE  b \o j \in Seq(Byte) /\ DissectQuery(b \o j) = DissectQuery(b)
<1> DEFINE T == {s \in Seq({Ampersand}) :
                   b \o s \in Seq(Byte) /\ DissectQuery(b \o s) = DissectQuery(b)}
<1>1. <<>> \in T
  BY EmptySeq, ConcatEmptySeq
<1>2. ASSUME NEW s \in T, NEW x \in {Ampersand} PROVE Append(s, x) \in T
  <2>1. x = Ampersand /\ s \in Seq({Ampersand}) /\ {Ampersand} \in SUBSET Byte
    BY Delimiters
  <2>2. s \in Seq(Byte) /\ Append(s, x) \in Seq({Ampersand})
    BY <2>1, SeqMonotonic, AppendProperties
  <2>3. b \o Append(s, x) = Append(b \o s, x)
    BY <2>1, <2>2
  <2> DEFINE c == b \o s
  <2>4. c \in Seq(Byte) /\ DissectQuery(c) = DissectQuery(b)
    OBVIOUS
  <2> HIDE DEF c
  <2>5. Append(c, Ampersand) \in Seq(Byte) /\ <<>> \in Seq(Byte) /\ Free(<<>>, Ampersand)
    BY <2>4, Delimiters, AppendProperties, EmptySeq DEF Free
  <2>6. /\ DissectQuery(Append(c, Ampersand) \o <<>>) = DissectQuery(c) \o PairOf[<<>>]
        /\ DissectQuery(c) \in Seq(KeyValues)
    BY <2>4, <2>5, DissectMore
  <2>7. PairOf[<<>>] = <<>> /\ Append(c, Ampersand) \o <<>> = Append(c, Ampersand)
    BY <2>5, ConcatEmptySeq DEF PairOf
  <2>8. DissectQuery(c) \o <<>> = DissectQuery(c)
    BY <2>6, ConcatEmptySeq
  <2>9. QED
    BY <2>1, <2>2, <2>3, <2>4, <2>5, <2>6, <2>7, <2>8 DEF c
<1>3. T = Seq({Ampersand})
  <2> HIDE DEF T
  <2>1. T \in SUBSET Seq({Ampersand})
    BY DEF T
  <2>2. QED
    BY <1>1, <1>2, <2>1, SeqInduction
<1>4. QED
  BY <1>3

LEMMA DissectPair ==
  ASSUME NEW b \in Seq(Byte), NEW joint \in Seq({Ampersand}), joint # <<>>, NEW kv \in Pairs
  PROVE  /\ b \o (joint \o FormPair(kv)) \in Seq(Byte)
         /\ DissectQuery(b \o (joint \o FormPair(kv))) = DissectQuery(b) \o <<kv>>
<1> DEFINE w == FormPair(kv)
<1>1. w \in Seq(Byte) /\ w # <<>> /\ Free(w, Ampersand) /\ PairOf[w] = <<kv>>
  BY FormPairIs DEF PairOf
<1> HIDE DEF w
<1>2. PICK j \in Seq({Ampersand}), x \in {Ampersand} : joint = Append(j, x)
  BY SequenceEmptyOrAppend
<1>3. {Ampersand} \in SUBSET Byte /\ x = Ampersand
  BY Delimiters
<1>4. j \in Seq(Byte) /\ joint \in Seq(Byte)
  BY <1>3, SeqMonotonic
<1>5. b \o j \in Seq(Byte) /\ DissectQuery(b \o j) = DissectQuery(b)
  BY DissectJoints
<1>6. b \o joint = Append(b \o j, Ampersand)
  BY <1>2, <1>3, <1>4
<1>7. b \o (joint \o w) = (b \o joint) \o w
  BY <1>1, <1>4, ThreeJoined
<1>8. DissectQuery(Append(b \o j, Ampersand) \o w) = DissectQuery(b \o j) \o PairOf[w]
  BY <1>1, <1>5, DissectMore
<1>9. b \o (joint \o w) \in Seq(Byte)
  BY <1>1, <1>4, Joined
<1>10. QED
  BY <1>1, <1>5, <1>6, <1>7, <1>8, <1>9 DEF w

THEOREM QueriesAreRead ==
  ASSUME NEW pairs \in Seq(Pairs), NEW joint \in Seq({Ampersand}), joint # <<>>
  PROVE  DissectQuery(FlattenSeq([i \in DOMAIN pairs |-> joint \o FormPair(pairs[i])])) = pairs
<1> DEFINE g == [kv \in Pairs |-> joint \o FormPair(kv)]
           Q(s) == FlattenSeq(Mapped(s, g))
           T == {s \in Seq(Pairs) : DissectQuery(Q(s)) = s}
<1>1. g \in [Pairs -> Seq(Byte)]
  <2>1. {Ampersand} \in SUBSET Byte
    BY Delimiters
  <2>2. joint \in Seq(Byte)
    BY <2>1, SeqMonotonic
  <2>3. ASSUME NEW kv \in Pairs PROVE joint \o FormPair(kv) \in Seq(Byte)
    BY <2>2, FormPairIs, Joined
  <2>4. QED
    BY <2>3
<1>2. \A kv \in Pairs : g[kv] = joint \o FormPair(kv)
  OBVIOUS
<1> HIDE DEF g
<1>3. Q(<<>>) = <<>>
  BY MappedEmpty, FlattenEmpty
<1>4. ASSUME NEW s \in Seq(Pairs)
      PROVE  Q(s) \in Seq(Byte) /\ \A kv \in Pairs : Q(Append(s, kv)) = Q(s) \o g[kv]
  <2>1. Q(s) \in Seq(Byte)
    BY <1>1, ComprehensionType
  <2>2. ASSUME NEW kv \in Pairs PROVE Q(Append(s, kv)) = Q(s) \o g[kv]
    BY <1>1, ComprehensionAppend
  <2>3. QED
    BY <2>1, <2>2
<1> HIDE DEF Q
<1>5. <<>> \in T
  BY <1>3, DissectNothing, EmptySeq
<1>6. ASSUME NEW s \in T, NEW kv \in Pairs PROVE Append(s, kv) \in T
  <2>1. s \in Seq(Pairs) /\ DissectQuery(Q(s)) = s /\ Q(s) \in Seq(Byte)
    BY <1>4
  <2>2. Append(s, kv) \in Seq(Pairs) /\ Append(s, kv) = s \o <<kv>>
    BY <2>1, AppendProperties, AppendIsConcat
  <2>3. Q(Append(s, kv)) = Q(s) \o (joint \o FormPair(kv))
    BY <1>2, <1>4, <2>1
  <2>4. DissectQuery(Q(s) \o (joint \o FormPair(kv))) = DissectQuery(Q(s)) \o <<kv>>
    BY <2>1, DissectPair
  <2>5. QED
    BY <2>1, <2>2, <2>3, <2>4
<1>7. T = Seq(Pairs)
  <2> HIDE DEF T
  <2>1. T \in SUBSET Seq(Pairs)
    BY DEF T
  <2>2. QED
    BY <1>5, <1>6, <2>1, SeqInduction
<1>8. DissectQuery(Q(pairs)) = pairs
  BY <1>7
<1>9. Mapped(pairs, g) = [i \in DOMAIN pairs |-> joint \o FormPair(pairs[i])]
  <2>1. \A i \in DOMAIN pairs : pairs[i] \in Pairs
    BY ElementOfSeq, LenProperties
  <2>2. QED
    BY <1>2, <2>1 DEF Mapped
<1>10. QED
  BY <1>8, <1>9 DEF Q

THEOREM QueriesStayRead == Spec => []QueriesReadBack
<1>1. shim \in DOMAIN Inputs /\ input \in Inputs[shim] => QueriesReadBack
  <2> SUFFICES ASSUME shim \in DOMAIN Inputs, input \in Inputs[shim], shim = "query"
               PROVE  DissectQuery(FlattenSeq([i \in DOMAIN input.pairs |->
                                                  input.joint \o FormPair(input.pairs[i])]))
                        = input.pairs
    BY DEF QueriesReadBack
  <2>1. IsPairs(input)
    BY QueriesAssumption
  <2> DEFINE pairs == input.pairs
             joint == input.joint
             R == Seq(Byte) \X Seq(Seq(Byte))
  <2>2. joint \in Seq({Ampersand}) /\ joint # <<>>
    BY <2>1 DEF IsPairs
  <2>3. pairs \in Seq(Pairs)
    <3>1. pairs \in Seq(R) /\ \A i \in DOMAIN pairs : Len(pairs[i][2]) <= 1 /\ pairs[i] # <<<<>>, None>>
      BY <2>1 DEF IsPairs
    <3> HIDE DEF pairs
    <3>2. \A x \in R : Len(x[2]) <= 1 /\ x # <<<<>>, None>> => x \in Pairs
      BY DEF Pairs
    <3> HIDE DEF R
    <3>3. Len(pairs) \in Nat /\ DOMAIN pairs = 1 .. Len(pairs)
      BY <3>1, LenProperties
    <3>4. \A i \in 1 .. Len(pairs) : pairs[i] \in Pairs
      BY <3>1, <3>2, <3>3, ElementOfSeq
    <3>5. pairs \in [1 .. Len(pairs) -> Pairs]
      BY <3>1, <3>3, <3>4, LenProperties
    <3>6. QED
      BY <3>3, <3>5, IsASeq
  <2> HIDE DEF pairs, joint
  <2>4. DissectQuery(FlattenSeq([i \in DOMAIN pairs |-> joint \o FormPair(pairs[i])])) = pairs
    BY <2>2, <2>3, QueriesAreRead
  <2>5. QED
    BY <2>4 DEF pairs, joint
<1>2. QED
  BY <1>1, InputsAreTried, PTL

-----------------------------------------------------------------------------
(* Numbers that are read and printed *)

\* What DigitsOf is, given its value at a tenth of n.
Digited(h, n) == (IF n < 10 THEN <<>> ELSE h[n \div 10]) \o <<48 + (n % 10)>>

LEMMA Tenth ==
  ASSUME NEW n \in Nat
  PROVE  n \div 10 \in Nat /\ n % 10 \in 0 .. 9 /\ (n >= 10 => n \div 10 < n)
OBVIOUS

LEMMA DigitsExist == \E f : f = [n \in Nat |-> Digited(f, n)] /\ f \in [Nat -> Seq(Byte)]
<1> DEFINE S    == [Nat -> Seq(Byte)]
           a    == [n \in Nat |-> <<>>]
           step == [k \in Nat |-> [h \in S |-> [n \in Nat |-> Digited(h, n)]]]
<1>1. a \in S
  <2>1. <<>> \in Seq(Byte)
    BY EmptySeq
  <2>2. QED
    BY <2>1
<1>2. ASSUME NEW h \in S, NEW n \in Nat PROVE Digited(h, n) \in Seq(Byte)
  <2>1. (IF n < 10 THEN <<>> ELSE h[n \div 10]) \in Seq(Byte)
    BY EmptySeq, Tenth
  <2>2. 48 + (n % 10) \in Byte
    BY Tenth DEF Byte
  <2>3. <<48 + (n % 10)>> \in Seq(Byte)
    BY <2>2
  <2>4. QED
    BY <2>1, <2>3, ConcatProperties DEF Digited
<1>3. \A k \in Nat : \A h \in S : step[k][h] \in S
  BY <1>2
<1>4. \A k \in Nat : \A h \in S : \A n \in Nat : step[k][h][n] = Digited(h, n)
  OBVIOUS
<1> HIDE DEF step, a
<1>5. PICK f : Solves(f, S, a, step)
  <2>1. Within(S, a, step)
    BY <1>1, <1>3 DEF Within
  <2> HIDE DEF S
  <2>2. QED
    BY <2>1, Recursion
<1>6. \A k \in Nat : f[k] \in S /\ \A n \in Nat : f[k + 1][n] = Digited(f[k], n)
  <2> HIDE DEF S
  <2>1. ASSUME NEW k \in Nat PROVE f[k] \in S /\ f[k + 1] = step[k][f[k]]
    BY <1>5 DEF Solves
  <2>2. QED
    BY <1>4, <2>1
<1> DEFINE T == {k \in Nat : \A n \in Nat : n < k => f[k + 1][n] = f[k][n]}
<1>7. 0 \in T
  OBVIOUS
<1>8. ASSUME NEW k \in T PROVE k + 1 \in T
  <2>1. k \in Nat /\ k + 1 \in Nat
    OBVIOUS
  <2>2. ASSUME NEW n \in Nat, n < k + 1 PROVE f[k + 1 + 1][n] = f[k + 1][n]
    <3>1. f[k + 1 + 1][n] = Digited(f[k + 1], n) /\ f[k + 1][n] = Digited(f[k], n)
      BY <1>6, <2>1
    <3>2. n >= 10 => f[k + 1][n \div 10] = f[k][n \div 10]
      <4>1. SUFFICES ASSUME n >= 10 PROVE f[k + 1][n \div 10] = f[k][n \div 10]
        OBVIOUS
      <4>2. n \div 10 \in Nat /\ n \div 10 < k
        BY <2>1, <2>2, <4>1, Tenth
      <4>3. QED
        BY <4>2
    <3>3. Digited(f[k + 1], n) = Digited(f[k], n)
      <4>1. CASE n < 10
        BY <4>1 DEF Digited
      <4>2. CASE ~(n < 10)
        <5>1. n >= 10
          BY <4>2
        <5>2. QED
          BY <3>2, <4>2, <5>1 DEF Digited
      <4>3. QED
        BY <4>1, <4>2
    <3>4. QED
      BY <3>1, <3>3
  <2>3. QED
    BY <2>1, <2>2
<1>9. T = Nat
  <2> HIDE DEF T
  <2>1. T \in SUBSET Nat
    BY DEF T
  <2>2. QED
    BY <1>7, <1>8, <2>1, SetInduction
<1>10. ASSUME NEW k \in Nat, NEW n \in Nat, n < k PROVE f[k + 1][n] = f[k][n]
  <2>1. k \in T
    BY <1>9
  <2>2. QED
    BY <1>10, <2>1
<1> HIDE DEF T
<1>11. ASSUME NEW n \in Nat, NEW k \in Nat, n < k PROVE f[k][n] = f[n + 1][n]
  <2> DEFINE U == {d \in Nat : f[n + 1 + d][n] = f[n + 1][n]}
  <2>1. 0 \in U
    OBVIOUS
  <2>2. ASSUME NEW d \in U PROVE d + 1 \in U
    <3>1. n + 1 + d \in Nat /\ n < n + 1 + d /\ n + 1 + (d + 1) = n + 1 + d + 1
      OBVIOUS
    <3>2. f[n + 1 + d + 1][n] = f[n + 1 + d][n]
      BY <1>10, <3>1
    <3>3. QED
      BY <3>1, <3>2
  <2>3. U = Nat
    <3> HIDE DEF U
    <3>1. U \in SUBSET Nat
      BY DEF U
    <3>2. QED
      BY <2>1, <2>2, <3>1, SetInduction
  <2>4. k - (n + 1) \in Nat /\ n + 1 + (k - (n + 1)) = k
    BY <1>11
  <2>5. k - (n + 1) \in U
    BY <2>3, <2>4
  <2>6. QED
    BY <2>4, <2>5
<1> DEFINE g == [n \in Nat |-> f[n + 1][n]]
<1>12. g \in [Nat -> Seq(Byte)]
  <2>1. \A n \in Nat : f[n + 1][n] \in Seq(Byte)
    BY <1>6
  <2>2. QED
    BY <2>1
<1>13. ASSUME NEW n \in Nat PROVE g[n] = Digited(g, n)
  <2>1. g[n] = Digited(f[n], n)
    BY <1>6
  <2>2. CASE n < 10
    BY <2>1, <2>2 DEF Digited
  <2>3. CASE ~(n < 10)
    <3> DEFINE m == n \div 10
    <3>1. m \in Nat /\ m < n
      BY <2>3, Tenth
    <3> HIDE DEF m
    <3>2. f[n][m] = g[m]
      BY <1>11, <3>1
    <3>3. Digited(f[n], n) = f[n][m] \o <<48 + (n % 10)>> /\ Digited(g, n) = g[m] \o <<48 + (n % 10)>>
      BY <2>3 DEF Digited, m
    <3>4. QED
      BY <2>1, <3>2, <3>3
  <2>4. QED
    BY <2>2, <2>3
<1>14. g = [n \in Nat |-> Digited(g, n)]
  <2>1. g = [n \in Nat |-> g[n]]
    OBVIOUS
  <2> HIDE DEF g
  <2>2. QED
    BY <1>13, <2>1, Zenon
<1>15. QED
  BY <1>12, <1>14

LEMMA DigitsAre == \A n \in Nat : DigitsOf[n] = Digited(DigitsOf, n)
<1> DEFINE Is(f) == f = [n \in Nat |-> Digited(f, n)]
<1>1. DigitsOf = CHOOSE f : Is(f)
  BY DEF DigitsOf, Digited
<1>2. \E f : Is(f)
  BY DigitsExist
<1>3. Is(DigitsOf)
  <2> HIDE DEF Is
  <2>1. QED
    BY <1>1, <1>2, Zenon
<1>4. QED
  BY <1>3, Zenon

LEMMA ValuesAre ==
  ASSUME NEW t \in Seq(Digits)
  PROVE  /\ Values(t)[0] = 0
         /\ \A k \in 0 .. Len(t) : Values(t)[k] \in Nat
         /\ \A k \in 1 .. Len(t) : Values(t)[k] = 10 * Values(t)[k - 1] + t[k] - 48
<1> DEFINE n     == Len(t)
           D     == 0 .. n
           step  == [k \in Nat |-> [v \in Nat |-> IF k < n THEN 10 * v + t[k + 1] - 48 ELSE v]]
           Is(f) == f = [k \in D |-> IF k = 0 THEN 0 ELSE 10 * f[k - 1] + t[k] - 48]
<1>1. n \in Nat /\ \A k \in 1 .. n : t[k] \in Digits
  BY LenProperties, ElementOfSeq
<1>2. Values(t) = CHOOSE f : Is(f)
  BY DEF Values
<1> HIDE DEF n
<1>3. ASSUME NEW k \in Nat, NEW v \in Nat PROVE step[k][v] \in Nat
  <2>1. CASE k < n
    <3>1. t[k + 1] \in Digits
      BY <1>1, <2>1
    <3>2. t[k + 1] \in 48 .. 57
      BY <3>1 DEF Digits
    <3>3. 10 * v + t[k + 1] - 48 \in Nat
      BY <3>2, SMTT(30)
    <3>4. QED
      BY <2>1, <3>3
  <2>2. QED
    BY <2>1
<1>4. \A k \in Nat : \A v \in Nat : k < n => step[k][v] = 10 * v + t[k + 1] - 48
  OBVIOUS
<1> HIDE DEF step
<1>5. PICK f : Solves(f, Nat, 0, step)
  <2>1. Within(Nat, 0, step)
    BY <1>3 DEF Within
  <2>2. QED
    BY <2>1, Recursion
<1> DEFINE g == [k \in D |-> f[k]]
<1>6. Is(g)
  <2>1. ASSUME NEW k \in D PROVE g[k] = IF k = 0 THEN 0 ELSE 10 * g[k - 1] + t[k] - 48
    <3>1. CASE k = 0
      BY <1>5, <3>1 DEF Solves
    <3>2. CASE k # 0
      <4>1. PICK j \in Nat : k - 1 = j /\ j + 1 = k /\ j < n /\ j \in D
        <5>1. k - 1 \in Nat /\ k - 1 + 1 = k /\ k - 1 < n /\ k - 1 \in D
          BY <1>1, <3>2
        <5>2. QED
          BY <5>1
      <4>2. f[j] \in Nat /\ f[j + 1] = step[j][f[j]]
        BY <1>5, <4>1 DEF Solves
      <4>3. step[j][f[j]] = 10 * f[j] + t[j + 1] - 48
        BY <1>4, <4>1, <4>2
      <4>4. f[k] = 10 * f[j] + t[k] - 48
        BY <4>1, <4>2, <4>3
      <4>5. QED
        BY <3>2, <4>1, <4>4
    <3>3. QED
      BY <3>1, <3>2
  <2>2. g = [k \in D |-> g[k]]
    OBVIOUS
  <2> HIDE DEF g
  <2>3. QED
    BY <2>1, <2>2, Zenon
<1> HIDE DEF g
<1> DEFINE v == CHOOSE h : Is(h)
<1>7. Is(v)
  <2> HIDE DEF Is
  <2>1. QED
    BY <1>6
<1> HIDE DEF v
<1>8. v[0] = 0 /\ \A k \in 1 .. n : v[k] = 10 * v[k - 1] + t[k] - 48
  <2>1. 0 \in D /\ \A k \in 1 .. n : k \in D /\ k # 0
    BY <1>1
  <2>2. QED
    BY <1>7, <2>1
<1> DEFINE T == {k \in Nat : k <= n => v[k] \in Nat}
<1>9. 0 \in T
  BY <1>8
<1>10. ASSUME NEW k \in T PROVE k + 1 \in T
  <2>1. SUFFICES ASSUME k + 1 <= n PROVE v[k + 1] \in Nat
    OBVIOUS
  <2> DEFINE i == k + 1
  <2>2. i \in 1 .. n /\ i - 1 = k /\ v[k] \in Nat
    BY <1>1, <2>1
  <2> HIDE DEF i
  <2>3. t[i] \in 48 .. 57
    BY <1>1, <2>2 DEF Digits
  <2>4. v[i] = 10 * v[k] + t[i] - 48
    BY <1>8, <2>2
  <2>5. v[i] \in Nat
    <3> DEFINE y == v[k]
               c == t[i]
    <3>1. v[i] = 10 * y + c - 48 /\ y \in Nat /\ c \in 48 .. 57
      BY <2>2, <2>3, <2>4
    <3> HIDE DEF y, c
    <3>2. 10 * y + c - 48 \in Nat
      BY <3>1
    <3>3. QED
      BY <3>1, <3>2
  <2>6. QED
    BY <2>5 DEF i
<1>11. T = Nat
  <2> HIDE DEF T
  <2>1. T \in SUBSET Nat
    BY DEF T
  <2>2. QED
    BY <1>9, <1>10, <2>1, SetInduction
<1>12. \A k \in 0 .. n : v[k] \in Nat
  BY <1>1, <1>11
<1>13. QED
  BY <1>2, <1>8, <1>12 DEF v, n

-----------------------------------------------------------------------------
(* Parts and their texts *)

LEMMA DelimiterBytes ==
  /\ Colon \in Byte /\ Slash \in Byte /\ Question \in Byte /\ Hash \in Byte /\ AtSign \in Byte
  /\ {Colon, Slash, Question, Hash, AtSign} \intersect SchemeBytes = {}
  /\ {AtSign, Slash, Question, Hash} \intersect Digits = {}
  /\ Slash # Colon /\ Question # Colon /\ Hash # Colon /\ Slash # -1
BY DEF Colon, Slash, Question, Hash, AtSign, Byte, SchemeBytes, Digits

LEMMA NothingJoined ==
  ASSUME NEW b \in Seq(Byte)
  PROVE  b \o <<>> = b /\ <<>> \o b = b
BY ConcatEmptySeq

\* A part that may be missing is missing or is there.
LEMMA OptionalIs ==
  ASSUME NEW S, NEW part \in Optional(S)
  PROVE  part = None \/ (part # None /\ part[1] \in S /\ part = Some(part[1]))
<1>1. part \in Seq(S) /\ Len(part) <= 1 /\ Len(part) \in Nat
  BY LenProperties DEF Optional
<1>2. CASE Len(part) = 0
  <2>1. part = <<>>
    BY <1>1, <1>2, EmptySeq
  <2>2. QED
    BY <2>1 DEF None
<1>3. CASE Len(part) = 1
  <2>1. part[1] \in S
    BY <1>1, <1>3, ElementOfSeq
  <2>2. part = <<part[1]>> /\ part # <<>>
    BY <1>1, <1>3
  <2>3. QED
    BY <2>1, <2>2 DEF None, Some
<1>4. Len(part) = 0 \/ Len(part) = 1
  <2> DEFINE n == Len(part)
  <2>1. n \in Nat /\ n <= 1
    BY <1>1
  <2> HIDE DEF n
  <2>2. n = 0 \/ n = 1
    BY <2>1
  <2>3. QED
    BY <2>2 DEF n
<1>5. QED
  BY <1>2, <1>3, <1>4

LEMMA Texts ==
  ASSUME NEW v \in Seq(Byte), NEW w \in Seq(Byte)
  PROVE  /\ Text(None, v, w) = <<>>
         /\ Text(Some(w), v, <<>>) = v \o w
         /\ Text(Some(w), <<>>, v) = w \o v
<1>1. Some(w) # None /\ Some(w)[1] = w
  BY DEF Some, None
<1>2. Text(None, v, w) = <<>>
  BY DEF Text
<1>3. Text(Some(w), v, <<>>) = (v \o w) \o <<>> /\ Text(Some(w), <<>>, v) = (<<>> \o w) \o v
  BY <1>1 DEF Text
<1>4. v \o w \in Seq(Byte)
  BY Joined
<1>5. (v \o w) \o <<>> = v \o w /\ <<>> \o w = w
  BY <1>4, NothingJoined
<1>6. QED
  BY <1>2, <1>3, <1>5

LEMMA TextType ==
  ASSUME NEW part \in Optional(Seq(Byte)), NEW v \in Seq(Byte)
  PROVE  Text(part, v, <<>>) \in Seq(Byte) /\ Text(part, <<>>, v) \in Seq(Byte)
<1>1. CASE part = None
  BY <1>1, EmptySeq DEF Text
<1>2. ASSUME NEW w \in Seq(Byte), part = Some(w)
      PROVE  Text(part, v, <<>>) \in Seq(Byte) /\ Text(part, <<>>, v) \in Seq(Byte)
  BY <1>2, Texts, Joined
<1>3. QED
  BY <1>1, <1>2, OptionalIs

\* A part and the delimiter before it are split off what has no such delimiter.
LEMMA FirstSplitAt ==
  ASSUME NEW u \in Seq(Byte), NEW c \in Byte, Free(u, c), NEW part \in Optional(Seq(Byte))
  PROVE  SplitFirst(u \o Text(part, <<c>>, <<>>), c) = [before |-> u, after |-> part]
<1>1. <<c>> \in Seq(Byte)
  BY OneByte
<1>2. CASE part = None
  <2>1. u \o Text(part, <<c>>, <<>>) = u
    BY <1>2, NothingJoined DEF Text
  <2>2. Split(u, c) = <<u>>
    BY NotSplit
  <2>3. SplitFirst(u, c) = [before |-> u, after |-> None]
    BY <2>2 DEF SplitFirst
  <2>4. QED
    BY <1>2, <2>1, <2>3
<1>3. ASSUME NEW v \in Seq(Byte), part = Some(v)
      PROVE  SplitFirst(u \o Text(part, <<c>>, <<>>), c) = [before |-> u, after |-> part]
  <2> DEFINE b == u \o Text(part, <<c>>, <<>>)
  <2>1. b = (u \o <<c>>) \o v
    <3>1. Text(part, <<c>>, <<>>) = <<c>> \o v
      BY <1>1, <1>3, Texts
    <3> DEFINE w == <<c>>
    <3>2. w \in Seq(Byte) /\ b = u \o (w \o v)
      BY <1>1, <3>1
    <3> HIDE DEF w, b
    <3>3. (u \o w) \o v = u \o (w \o v)
      BY <3>2, ThreeJoined
    <3>4. QED
      BY <3>2, <3>3 DEF w
  <2>2. Split(b, c) = <<u, v>>
    BY <2>1, SplitThere
  <2> HIDE DEF b
  <2>3. SplitFirst(b, c) = [before |-> u, after |-> Some(v)]
    BY <2>2 DEF SplitFirst
  <2>4. QED
    BY <1>3, <2>3 DEF b
<1>4. QED
  BY <1>2, <1>3, OptionalIs

LEMMA FreeJoined ==
  ASSUME NEW u \in Seq(Byte), NEW v \in Seq(Byte), NEW c, Free(u, c), Free(v, c)
  PROVE  Free(u \o v, c)
<1> DEFINE b == u \o v
           m == Len(u)
           n == Len(v)
<1>1. /\ Len(b) = m + n /\ m \in Nat /\ n \in Nat
      /\ \A i \in 1 .. m : b[i] = u[i]
      /\ \A i \in 1 .. n : b[m + i] = v[i]
  BY Joined, Bytes
<1>2. (\A i \in 1 .. m : u[i] # c) /\ (\A i \in 1 .. n : v[i] # c)
  BY DEF Free
<1> HIDE DEF b, m, n
<1>3. ASSUME NEW i \in 1 .. Len(b) PROVE b[i] # c
  <2>1. CASE i <= m
    <3>1. i \in 1 .. m
      BY <1>1, <2>1
    <3>2. QED
      BY <1>1, <1>2, <3>1
  <2>2. CASE i > m
    <3>1. PICK k \in 1 .. n : i = m + k
      <4>1. i - m \in 1 .. n /\ i = m + (i - m)
        BY <1>1, <2>2
      <4>2. QED
        BY <4>1
    <3>2. QED
      BY <1>1, <1>2, <3>1
  <2>3. QED
    BY <1>1, <2>1, <2>2
<1>4. QED
  BY <1>3 DEF Free, b

\* A text is free of what its part and its delimiter are free of.
LEMMA FreeText ==
  ASSUME NEW part \in Optional(Seq(Byte)), NEW d \in Byte, NEW c, d # c,
         part = None \/ Free(part[1], c)
  PROVE  Free(Text(part, <<d>>, <<>>), c) /\ Free(Text(part, <<>>, <<d>>), c)
<1>1. <<d>> \in Seq(Byte) /\ Free(<<d>>, c)
  BY OneByte DEF Free
<1>2. CASE part = None
  BY <1>2 DEF Text, Free
<1>3. ASSUME NEW v \in Seq(Byte), part = Some(v)
      PROVE  Free(Text(part, <<d>>, <<>>), c) /\ Free(Text(part, <<>>, <<d>>), c)
  <2>1. Free(v, c)
    BY <1>3 DEF Some, None
  <2> DEFINE w == <<d>>
  <2>2. w \in Seq(Byte) /\ Free(w, c)
    BY <1>1
  <2> HIDE DEF w
  <2>3. Free(w \o v, c) /\ Free(v \o w, c)
    BY <2>1, <2>2, FreeJoined
  <2>4. Text(part, w, <<>>) = w \o v /\ Text(part, <<>>, w) = v \o w
    BY <1>3, <2>2, Texts
  <2>5. QED
    BY <2>3, <2>4 DEF w
<1>4. QED
  BY <1>2, <1>3, OptionalIs

LEMMA WithoutIsFree ==
  ASSUME NEW b \in Seq(Byte), NEW S, Without(b, S)
  PROVE  \A c \in S : Free(b, c)
BY LenProperties DEF Without, Free

-----------------------------------------------------------------------------
(* Each split finds its part *)

\* Before the first colon there is a byte that no scheme has.
Guarded(b) ==
  \A i \in 1 .. Len(b) : b[i] = Colon => \E k \in 1 .. i - 1 : b[k] \notin SchemeBytes

\* A scheme is found, and none is seen where a colon comes late.
LEMMA SchemeIsFound ==
  ASSUME NEW part \in Optional(Seq(Byte)), NEW rest \in Seq(Byte),
         part = None \/ IsScheme(part[1]), part = None => Guarded(rest)
  PROVE  SplitScheme(Text(part, <<>>, <<Colon>>) \o rest) = [scheme |-> part, rest |-> rest]
<1> DEFINE c == <<Colon>>
<1>1. c \in Seq(Byte)
  BY OneByte, DelimiterBytes
<1>2. CASE part = None
  <2>1. Text(part, <<>>, c) \o rest = rest
    BY <1>2, NothingJoined DEF Text
  <2>2. SplitScheme(rest) = [scheme |-> None, rest |-> rest]
    <3>1. CASE Free(rest, Colon) /\ Split(rest, Colon) = <<rest>>
      BY <3>1 DEF SplitScheme
    <3>2. ASSUME NEW u \in Seq(Byte), NEW v \in Seq(Byte), rest = (u \o c) \o v,
                 Split(rest, Colon) = <<u, v>>
          PROVE  SplitScheme(rest) = [scheme |-> None, rest |-> rest]
      <4> DEFINE m == Len(u)
                 d == u \o c
      <4>1. m \in Nat /\ Len(c) = 1 /\ c[1] = Colon
        BY Bytes, OneByte, DelimiterBytes
      <4> HIDE DEF c
      <4>2. d \in Seq(Byte) /\ Len(d) = m + 1 /\ d[m + 1] = Colon /\ \A k \in 1 .. m : d[k] = u[k]
        <5>1. 1 \in 1 .. Len(c)
          BY <4>1
        <5>2. d \in Seq(Byte) /\ Len(d) = m + Len(c) /\ d[m + 1] = c[1]
          BY <1>1, <5>1, Joined
        <5>3. \A k \in 1 .. m : d[k] = u[k]
          BY <1>1, Joined
        <5>4. QED
          BY <4>1, <5>2, <5>3
      <4>3. rest = d \o v
        BY <3>2
      <4> HIDE DEF d
      <4>4. Len(rest) = m + 1 + Len(v) /\ Len(v) \in Nat /\ \A k \in 1 .. m + 1 : rest[k] = d[k]
        <5>1. Len(rest) = Len(d) + Len(v) /\ Len(v) \in Nat
          BY <4>2, <4>3, Joined, Bytes
        <5>2. \A k \in 1 .. Len(d) : rest[k] = d[k]
          BY <4>2, <4>3, Joined
        <5> HIDE DEF m
        <5>3. QED
          BY <4>2, <5>1, <5>2
      <4> HIDE DEF m
      <4>5. m + 1 \in 1 .. Len(rest) /\ m + 1 \in 1 .. m + 1 /\ m + 1 - 1 = m
            /\ \A k \in 1 .. m : k \in 1 .. m + 1
        BY <4>1, <4>4
      <4>6. rest[m + 1] = Colon /\ \A k \in 1 .. m : rest[k] = u[k]
        BY <4>2, <4>4, <4>5
      <4>7. PICK k \in 1 .. m : rest[k] \notin SchemeBytes
        <5>1. \E k \in 1 .. m : rest[k] \notin SchemeBytes
          <6>1. \A i \in 1 .. Len(rest) : rest[i] = Colon => \E k \in 1 .. i - 1 : rest[k] \notin SchemeBytes
            BY <1>2 DEF Guarded
          <6> DEFINE i == m + 1
          <6>2. i \in 1 .. Len(rest) /\ rest[i] = Colon
            BY <4>5, <4>6
          <6>3. i - 1 = m
            BY <4>1
          <6> HIDE DEF i
          <6>4. \E k \in 1 .. i - 1 : rest[k] \notin SchemeBytes
            BY <6>1, <6>2
          <6>5. QED
            BY <6>3, <6>4
        <5>2. QED
          BY <5>1
      <4>8. k \in DOMAIN u /\ u[k] \notin SchemeBytes
        BY <4>6, <4>7, LenProperties DEF m
      <4>9. ~IsScheme(u)
        BY <4>8 DEF IsScheme
      <4>10. QED
        BY <3>2, <4>9 DEF SplitScheme
    <3>3. QED
      BY <3>1, <3>2, SplitIs, DelimiterBytes
  <2>3. QED
    BY <1>2, <2>1, <2>2
<1>3. ASSUME NEW w \in Seq(Byte), part = Some(w)
      PROVE  SplitScheme(Text(part, <<>>, c) \o rest) = [scheme |-> part, rest |-> rest]
  <2>1. IsScheme(w)
    BY <1>3 DEF Some, None
  <2>2. Free(w, Colon)
    BY <2>1, LenProperties, DelimiterBytes DEF IsScheme, Free
  <2> DEFINE b == Text(part, <<>>, c) \o rest
  <2>3. Split((w \o c) \o rest, Colon) = <<w, rest>>
    BY <2>2, SplitThere, DelimiterBytes
  <2>4. b = (w \o c) \o rest
    <3> HIDE DEF c
    <3>1. QED
      BY <1>1, <1>3, Texts
  <2>5. Split(b, Colon) = <<w, rest>>
    BY <2>3, <2>4
  <2> HIDE DEF b
  <2>6. SplitScheme(b) = [scheme |-> Some(w), rest |-> rest]
    BY <2>1, <2>5 DEF SplitScheme
  <2>7. QED
    BY <1>3, <2>6 DEF b
<1>4. QED
  BY <1>2, <1>3, OptionalIs

\* The query ends at the fragment, what comes before it at the query.
LEMMA TailIsFound ==
  ASSUME NEW h \in Seq(Byte), NEW q \in Optional(Seq(Byte)), NEW f \in Optional(Seq(Byte)),
         Free(h, Question), Free(h, Hash), q = None \/ Free(q[1], Hash)
  PROVE  SplitTail((h \o Text(q, <<Question>>, <<>>)) \o Text(f, <<Hash>>, <<>>))
           = [rest |-> h, query |-> q, fragment |-> f]
<1> DEFINE t == Text(q, <<Question>>, <<>>)
           r == h \o t
           b == r \o Text(f, <<Hash>>, <<>>)
<1>1. t \in Seq(Byte) /\ Free(t, Hash)
  <2>1. Question # Hash
    BY DEF Question, Hash
  <2>2. QED
    BY <2>1, OneByte, DelimiterBytes, TextType, FreeText
<1>2. SplitFirst(r, Question) = [before |-> h, after |-> q]
  BY FirstSplitAt, DelimiterBytes
<1> HIDE DEF t
<1>3. r \in Seq(Byte) /\ Free(r, Hash)
  BY <1>1, Joined, FreeJoined
<1> HIDE DEF r
<1>4. SplitFirst(b, Hash) = [before |-> r, after |-> f]
  BY <1>3, FirstSplitAt, DelimiterBytes
<1> HIDE DEF b
<1>5. SplitTail(b) = [rest |-> h, query |-> q, fragment |-> f]
  BY <1>2, <1>4 DEF SplitTail
<1>6. QED
  BY <1>5 DEF b, r, t

\* The authority lies between the two slashes and the next one.
LEMMA AuthorityIsFound ==
  ASSUME NEW v \in Seq(Byte), NEW p \in Seq(Byte), Free(v, Slash), At(p, 0) \in {Slash, -1}
  PROVE  SplitAuthority((<<Slash, Slash>> \o v) \o p) = [authority |-> Some(v), path |-> p]
<1> DEFINE w    == <<Slash, Slash>>
           rest == v \o p
           b    == (w \o v) \o p
           i    == SelectInSeq(rest, LAMBDA x : x = Slash)
           m    == Len(v)
           l    == Len(p)
<1>1. w \in Seq(Byte) /\ Len(w) = 2 /\ w[1] = Slash /\ w[2] = Slash
  BY DelimiterBytes
<1>2. /\ rest \in Seq(Byte) /\ Len(rest) = m + l /\ m \in Nat /\ l \in Nat
      /\ \A k \in 1 .. m : rest[k] = v[k]
      /\ \A k \in 1 .. l : rest[m + k] = p[k]
  BY Joined, Bytes
<1>3. SubSeq(rest, 1, m) = v /\ From(rest, m) = p
  BY TakenApart
<1>4. l = 0 \/ (l # 0 /\ p[1] = Slash)
  <2>1. At(p, 0) = IF 0 < l THEN p[1] ELSE -1
    BY DEF At
  <2>2. \A k \in 1 .. l : p[k] \in Byte
    BY Bytes
  <2> HIDE DEF l
  <2>3. l # 0 => 0 < l /\ 1 \in 1 .. l
    BY <1>2
  <2>4. l # 0 => p[1] \in Byte
    BY <2>2, <2>3
  <2>5. -1 \notin Byte
    BY DEF Byte
  <2>6. QED
    BY <2>1, <2>3, <2>4, <2>5
<1>5. b = w \o rest
  <2> HIDE DEF w
  <2>1. QED
    BY <1>1, ThreeJoined
<1> HIDE DEF w, rest, b
<1>6. From(b, 2) = rest /\ At(b, 0) = Slash /\ At(b, 1) = Slash
  <2>1. From(b, 2) = rest
    BY <1>1, <1>2, <1>5, TakenApart
  <2>2. 1 \in 1 .. Len(w) /\ 2 \in 1 .. Len(w)
    BY <1>1
  <2>3. b[1] = w[1] /\ b[2] = w[2] /\ Len(b) = 2 + Len(rest) /\ Len(rest) \in Nat
    <3>1. Len(b) = Len(w) + Len(rest) /\ Len(rest) \in Nat
      BY <1>1, <1>2, <1>5, Joined, Bytes
    <3>2. \A k \in 1 .. Len(w) : b[k] = w[k]
      BY <1>1, <1>2, <1>5, Joined
    <3>3. QED
      BY <1>1, <2>2, <3>1, <3>2
  <2>4. 0 < Len(b) /\ 1 < Len(b) /\ 0 + 1 = 1 /\ 1 + 1 = 2
    BY <2>3
  <2>5. QED
    BY <1>1, <2>1, <2>3, <2>4 DEF At
<1>7. SplitAuthority(b) =
        IF i = 0 THEN [authority |-> Some(rest), path |-> <<>>]
        ELSE [authority |-> Some(SubSeq(rest, 1, i - 1)), path |-> From(rest, i - 1)]
  BY <1>6 DEF SplitAuthority
<1>8. \/ i = 0 /\ Free(rest, Slash)
      \/ i \in 1 .. Len(rest) /\ rest[i] = Slash /\ \A k \in 1 .. i - 1 : rest[k] # Slash
  BY <1>2, FirstIs
<1> HIDE DEF i
<1>9. \A k \in 1 .. m : rest[k] # Slash
  BY <1>2 DEF Free
<1>10. CASE l = 0
  <2>1. p = <<>>
    BY <1>10, EmptySeq
  <2>2. rest = v
    BY <2>1, NothingJoined DEF rest
  <2>3. i = 0
    BY <1>2, <1>8, <1>9, <1>10
  <2>4. QED
    BY <1>7, <2>1, <2>2, <2>3 DEF b, w
<1>11. CASE l # 0 /\ p[1] = Slash
  <2> HIDE DEF m, l
  <2>1. rest[m + 1] = Slash /\ m + 1 \in 1 .. Len(rest)
    <3>1. 1 \in 1 .. l /\ m + 1 \in 1 .. Len(rest)
      BY <1>2, <1>11
    <3>2. QED
      BY <1>2, <1>11, <3>1
  <2>2. i = m + 1
    <3>1. i # 0
      BY <1>8, <2>1 DEF Free
    <3>2. i \in 1 .. Len(rest) /\ rest[i] = Slash /\ \A k \in 1 .. i - 1 : rest[k] # Slash
      BY <1>8, <3>1
    <3>3. ~(i <= m)
      <4>1. i <= m => i \in 1 .. m
        BY <1>2, <3>2
      <4>2. QED
        BY <1>9, <3>2, <4>1
    <3>4. ~(m + 1 <= i - 1)
      <4>1. m + 1 <= i - 1 => m + 1 \in 1 .. i - 1
        BY <1>2, <3>2
      <4>2. QED
        BY <2>1, <3>2, <4>1
    <3>5. QED
      BY <1>2, <3>2, <3>3, <3>4
  <2>3. i # 0 /\ i - 1 = m
    BY <1>2, <2>2
  <2>4. SplitAuthority(b) = [authority |-> Some(SubSeq(rest, 1, m)), path |-> From(rest, m)]
    BY <1>7, <2>3
  <2>5. QED
    BY <1>3, <2>4 DEF b, w, rest
<1>12. QED
  BY <1>4, <1>10, <1>11

LEMMA NoAuthorityIsSeen ==
  ASSUME NEW p, ~(At(p, 0) = Slash /\ At(p, 1) = Slash)
  PROVE  SplitAuthority(p) = [authority |-> None, path |-> p]
BY DEF SplitAuthority

\* A port is found behind the only colon.
LEMMA PortIsFound ==
  ASSUME NEW h \in Seq(Byte), Free(h, Colon), NEW port \in Optional(Seq(Digits)),
         port = None \/ port[1] # <<>>
  PROVE  SplitPort(h \o Text(port, <<Colon>>, <<>>)) = [host |-> h, port |-> PortNumber(port)]
<1> DEFINE b == h \o Text(port, <<Colon>>, <<>>)
           c == <<Colon>>
<1>1. c \in Seq(Byte)
  BY OneByte, DelimiterBytes
<1>2. CASE port = None
  <2>1. b = h
    BY <1>2, NothingJoined DEF Text
  <2>2. Split(h, Colon) = <<h>>
    BY NotSplit
  <2>3. SplitPort(h) = [host |-> h, port |-> None]
    BY <2>2 DEF SplitPort
  <2>4. QED
    BY <1>2, <2>1, <2>3 DEF PortNumber
<1>3. ASSUME NEW t \in Seq(Digits), port = Some(t)
      PROVE  SplitPort(b) = [host |-> h, port |-> PortNumber(port)]
  <2>1. t # <<>> /\ PortNumber(port) = Some(BinaryToInteger(t))
    BY <1>3 DEF PortNumber, Some, None
  <2>2. t \in Seq(Byte)
    <3>1. Digits \in SUBSET Byte
      BY DEF Digits, Byte
    <3>2. QED
      BY <3>1, SeqMonotonic
  <2>3. IsInteger(t)
    <3>1. Len(t) \in Nat /\ Len(t) # 0 /\ DOMAIN t = 1 .. Len(t) /\ \A i \in 1 .. Len(t) : t[i] \in Digits
      BY <2>1, LenProperties, ElementOfSeq, EmptySeq
    <3>2. At(t, 0) \in Digits
      BY <3>1 DEF At
    <3>3. Unsigned(t) = t
      BY <3>2 DEF Unsigned, Digits
    <3>4. QED
      BY <2>1, <3>1, <3>3 DEF IsInteger, AllDigits
  <2>4. Split((h \o c) \o t, Colon) = <<h, t>>
    BY <2>2, SplitThere, DelimiterBytes
  <2> HIDE DEF c
  <2>5. b = (h \o c) \o t
    <3>1. b = h \o (c \o t)
      BY <1>1, <1>3, <2>2, Texts DEF c
    <3>2. (h \o c) \o t = h \o (c \o t)
      BY <1>1, <2>2, ThreeJoined
    <3>3. QED
      BY <3>1, <3>2
  <2> HIDE DEF b
  <2>6. SplitPort(b) = [host |-> h, port |-> Some(BinaryToInteger(t))]
    BY <2>3, <2>4, <2>5 DEF SplitPort
  <2>7. QED
    BY <2>1, <2>6
<1>4. QED
  BY <1>2, <1>3, OptionalIs

\* The part before the first @, and what follows it.
UserOf(v) == LET parts == Split(v, AtSign) IN IF Len(parts) = 2 THEN Some(parts[1]) ELSE None
HostOf(v) == LET parts == Split(v, AtSign) IN parts[Len(parts)]

LEMMA UserIsFound ==
  ASSUME NEW part \in Optional(Seq(Byte)), NEW h \in Seq(Byte), Free(h, AtSign),
         part = None \/ Free(part[1], AtSign)
  PROVE  LET v == Text(part, <<>>, <<AtSign>>) \o h IN UserOf(v) = part /\ HostOf(v) = h
<1> DEFINE v == Text(part, <<>>, <<AtSign>>) \o h
           c == <<AtSign>>
<1>1. c \in Seq(Byte)
  BY OneByte, DelimiterBytes
<1>2. CASE part = None
  <2>1. v = h
    BY <1>2, NothingJoined DEF Text
  <2>2. Split(h, AtSign) = <<h>>
    BY NotSplit
  <2>3. UserOf(h) = None /\ HostOf(h) = h
    <3>1. Len(Split(h, AtSign)) = 1 /\ Split(h, AtSign)[1] = h
      BY <2>2
    <3>2. QED
      BY <3>1 DEF UserOf, HostOf
  <2>4. QED
    BY <1>2, <2>1, <2>3
<1>3. ASSUME NEW u \in Seq(Byte), part = Some(u)
      PROVE  UserOf(v) = part /\ HostOf(v) = h
  <2>1. Free(u, AtSign)
    BY <1>3 DEF Some, None
  <2>2. Split((u \o c) \o h, AtSign) = <<u, h>>
    BY <2>1, SplitThere, DelimiterBytes
  <2>3. v = (u \o c) \o h
    BY <1>1, <1>3, Texts
  <2> HIDE DEF v
  <2>4. Len(Split(v, AtSign)) = 2 /\ Split(v, AtSign)[1] = u /\ Split(v, AtSign)[2] = h
    <3>1. Split(v, AtSign) = <<u, h>>
      BY <2>2, <2>3
    <3>2. QED
      BY <3>1
  <2>5. QED
    BY <1>3, <2>4 DEF UserOf, HostOf
<1>4. QED
  BY <1>2, <1>3, OptionalIs
-----------------------------------------------------------------------------
(* Where there is no scheme, none is seen *)

LEMMA GuardedText ==
  ASSUME NEW u \in Seq(Byte), Guarded(u), NEW part \in Optional(Seq(Byte)),
         NEW c \in Byte, c \notin SchemeBytes, c # Colon
  PROVE  Guarded(u \o Text(part, <<c>>, <<>>))
<1>1. CASE part = None
  <2>1. u \o Text(part, <<c>>, <<>>) = u
    BY <1>1, NothingJoined DEF Text
  <2>2. QED
    BY <2>1
<1>2. ASSUME NEW v \in Seq(Byte), part = Some(v)
      PROVE  Guarded(u \o Text(part, <<c>>, <<>>))
  <2> DEFINE w == <<c>>
             t == w \o v
             b == u \o t
             m == Len(u)
  <2>1. w \in Seq(Byte) /\ Len(w) = 1 /\ w[1] = c
    BY OneByte
  <2>2. Text(part, w, <<>>) = t
    BY <1>2, <2>1, Texts
  <2> HIDE DEF w
  <2>3. t \in Seq(Byte) /\ Len(t) >= 1 /\ Len(t) \in Nat /\ t[1] = c
    <3>1. 1 \in 1 .. Len(w)
      BY <2>1
    <3>2. t \in Seq(Byte) /\ Len(t) = Len(w) + Len(v) /\ Len(v) \in Nat /\ t[1] = w[1]
      BY <2>1, <3>1, Joined, Bytes
    <3>3. QED
      BY <2>1, <3>2
  <2> HIDE DEF t
  <2>4. /\ Len(b) = m + Len(t) /\ m \in Nat
        /\ \A k \in 1 .. m : b[k] = u[k]
        /\ \A k \in 1 .. Len(t) : b[m + k] = t[k]
    BY <2>3, Joined, Bytes
  <2>5. b[m + 1] = c
    <3>1. 1 \in 1 .. Len(t)
      BY <2>3
    <3>2. QED
      BY <2>3, <2>4, <3>1
  <2>6. \A i \in 1 .. m : u[i] = Colon => \E k \in 1 .. i - 1 : u[k] \notin SchemeBytes
    BY DEF Guarded
  <2> HIDE DEF b, m
  <2>7. ASSUME NEW i \in 1 .. Len(b), b[i] = Colon
        PROVE  \E k \in 1 .. i - 1 : b[k] \notin SchemeBytes
    <3>1. CASE i <= m
      <4>1. i \in 1 .. m /\ \A k \in 1 .. i - 1 : k \in 1 .. m
        BY <2>4, <3>1
      <4>2. QED
        BY <2>4, <2>6, <2>7, <4>1
    <3>2. CASE i > m + 1
      <4>1. m + 1 \in 1 .. i - 1
        BY <2>4, <3>2
      <4>2. QED
        BY <2>5, <4>1
    <3>3. i # m + 1
      BY <2>5, <2>7
    <3>4. QED
      BY <2>3, <2>4, <3>1, <3>2, <3>3
  <2>8. QED
    BY <2>2, <2>7 DEF Guarded, b, w
<1>3. QED
  BY <1>1, <1>2, OptionalIs

\* The slash that an authority begins with comes before every colon.
LEMMA GuardedAuthority ==
  ASSUME NEW v \in Seq(Byte), NEW p \in Seq(Byte)
  PROVE  Guarded((<<Slash, Slash>> \o v) \o p)
<1> DEFINE w == <<Slash, Slash>>
           d == w \o v
           b == d \o p
<1>1. w \in Seq(Byte) /\ Len(w) = 2 /\ w[1] = Slash
  BY DelimiterBytes
<1> HIDE DEF w
<1>2. d \in Seq(Byte) /\ Len(d) >= 2 /\ Len(d) \in Nat /\ d[1] = Slash
  <2>1. 1 \in 1 .. Len(w)
    BY <1>1
  <2>2. d \in Seq(Byte) /\ Len(d) = Len(w) + Len(v) /\ Len(v) \in Nat /\ d[1] = w[1]
    BY <1>1, <2>1, Joined, Bytes
  <2>3. QED
    BY <1>1, <2>2
<1> HIDE DEF d
<1>3. b[1] = Slash /\ Len(b) \in Nat
  <2>1. 1 \in 1 .. Len(d)
    BY <1>2
  <2>2. QED
    BY <1>2, <2>1, Joined, Bytes
<1> HIDE DEF b
<1>4. ASSUME NEW i \in 1 .. Len(b), b[i] = Colon
      PROVE  \E k \in 1 .. i - 1 : b[k] \notin SchemeBytes
  <2>1. i # 1
    BY <1>3, <1>4, DelimiterBytes
  <2>2. 1 \in 1 .. i - 1
    BY <1>3, <2>1
  <2>3. QED
    BY <1>3, <2>2, DelimiterBytes
<1>5. QED
  BY <1>4 DEF Guarded, b, d, w

-----------------------------------------------------------------------------
(* parse *)

LEMMA MapWithHost ==
  ASSUME NEW h, NEW p, NEW sc, NEW us, NEW po, NEW q, NEW f
  PROVE  AddOptional([host |-> h, path |-> p],
                     [scheme |-> sc, userinfo |-> us, port |-> po, query |-> q, fragment |-> f])
           = Present([scheme |-> sc, userinfo |-> us, host |-> Some(h), port |-> po,
                      path |-> Some(p), query |-> q, fragment |-> f])
<1> DEFINE map   == [host |-> h, path |-> p]
           pairs == [scheme |-> sc, userinfo |-> us, port |-> po, query |-> q, fragment |-> f]
           parts == [scheme |-> sc, userinfo |-> us, host |-> Some(h), port |-> po,
                     path |-> Some(p), query |-> q, fragment |-> f]
           ks    == {"scheme", "userinfo", "port", "query", "fragment"}
           D     == DOMAIN map \union {k \in DOMAIN pairs : pairs[k] # None}
           E     == {k \in DOMAIN parts : parts[k] # None}
<1>1. DOMAIN map = {"host", "path"} /\ map["path"] = p /\ map["host"] = h
  OBVIOUS
<1>2. /\ DOMAIN pairs = ks
      /\ pairs["scheme"] = sc /\ pairs["userinfo"] = us /\ pairs["port"] = po
      /\ pairs["query"] = q /\ pairs["fragment"] = f
  OBVIOUS
<1>3. /\ DOMAIN parts = ks \union {"host", "path"}
      /\ parts["scheme"] = sc /\ parts["userinfo"] = us /\ parts["port"] = po
      /\ parts["query"] = q /\ parts["fragment"] = f
      /\ parts["host"] = Some(h) /\ parts["path"] = Some(p)
  OBVIOUS
<1>4. Some(h) # None /\ Some(p) # None /\ Some(h)[1] = h /\ Some(p)[1] = p
  BY DEF Some, None
<1> HIDE DEF map, pairs, parts
<1>5. \A k \in ks : pairs[k] = parts[k]
  BY <1>2, <1>3
<1>6. D = E
  BY <1>1, <1>2, <1>3, <1>4, <1>5
<1>7. \A k \in D : (IF k \in DOMAIN map THEN map[k] ELSE pairs[k][1]) = parts[k][1]
  BY <1>1, <1>2, <1>3, <1>4, <1>5
<1> HIDE DEF D, E
<1>8. [k \in D |-> IF k \in DOMAIN map THEN map[k] ELSE pairs[k][1]] = [k \in E |-> parts[k][1]]
  BY <1>6, <1>7
<1>9. AddOptional(map, pairs) = Present(parts)
  BY <1>8 DEF AddOptional, Present, D, E
<1>10. QED
  BY <1>9 DEF map, pairs, parts

LEMMA MapWithoutHost ==
  ASSUME NEW p, NEW sc, NEW q, NEW f
  PROVE  AddOptional([path |-> p], [scheme |-> sc, query |-> q, fragment |-> f])
           = Present([scheme |-> sc, userinfo |-> None, host |-> None, port |-> None,
                      path |-> Some(p), query |-> q, fragment |-> f])
<1> DEFINE map   == [path |-> p]
           pairs == [scheme |-> sc, query |-> q, fragment |-> f]
           parts == [scheme |-> sc, userinfo |-> None, host |-> None, port |-> None,
                     path |-> Some(p), query |-> q, fragment |-> f]
           ks    == {"scheme", "query", "fragment"}
           D     == DOMAIN map \union {k \in DOMAIN pairs : pairs[k] # None}
           E     == {k \in DOMAIN parts : parts[k] # None}
<1>1. DOMAIN map = {"path"} /\ map["path"] = p
  OBVIOUS
<1>2. /\ DOMAIN pairs = ks
      /\ pairs["scheme"] = sc /\ pairs["query"] = q /\ pairs["fragment"] = f
  OBVIOUS
<1>3. /\ DOMAIN parts = ks \union {"userinfo", "host", "port", "path"}
      /\ parts["scheme"] = sc /\ parts["query"] = q /\ parts["fragment"] = f
      /\ parts["userinfo"] = None /\ parts["host"] = None /\ parts["port"] = None
      /\ parts["path"] = Some(p)
  OBVIOUS
<1>4. Some(p) # None /\ Some(p)[1] = p
  BY DEF Some, None
<1> HIDE DEF map, pairs, parts
<1>5. \A k \in ks : pairs[k] = parts[k]
  BY <1>2, <1>3
<1>6. D = E
  BY <1>1, <1>2, <1>3, <1>4, <1>5
<1>7. \A k \in D : (IF k \in DOMAIN map THEN map[k] ELSE pairs[k][1]) = parts[k][1]
  BY <1>1, <1>2, <1>3, <1>4, <1>5
<1> HIDE DEF D, E
<1>8. [k \in D |-> IF k \in DOMAIN map THEN map[k] ELSE pairs[k][1]] = [k \in E |-> parts[k][1]]
  BY <1>6, <1>7
<1>9. AddOptional(map, pairs) = Present(parts)
  BY <1>8 DEF AddOptional, Present, D, E
<1>10. QED
  BY <1>9 DEF map, pairs, parts

\* What IsUri says of the authority, of the other parts and of the colons.
LEMMA AuthorityHas ==
  ASSUME NEW x, IsUri(x), x.host # None
  PROVE  /\ x.userinfo \in Optional(Seq(Byte)) /\ x.port \in Optional(Seq(Digits))
         /\ x.host[1] \in Seq(Byte) /\ x.host = Some(x.host[1])
         /\ x.userinfo = None \/ (x.userinfo[1] \in Seq(Byte) /\ \A c \in {AtSign, Slash, Question, Hash} : Free(x.userinfo[1], c))
         /\ \A c \in {AtSign, Colon, Slash, Question, Hash} : Free(x.host[1], c)
         /\ x.port = None \/ (x.port[1] \in Seq(Digits) /\ x.port[1] # <<>>)
<1>1. /\ x.userinfo \in Optional(Seq(Byte)) /\ x.host \in Optional(Seq(Byte)) /\ x.port \in Optional(Seq(Digits))
      /\ x.userinfo = None \/ Without(x.userinfo[1], {AtSign, Slash, Question, Hash})
      /\ Without(x.host[1], {AtSign, Colon, Slash, Question, Hash})
      /\ x.port = None \/ x.port[1] # <<>>
  BY DEF IsUri
<1>2. x.host[1] \in Seq(Byte) /\ x.host = Some(x.host[1])
  BY <1>1, OptionalIs
<1>3. x.userinfo = None \/ x.userinfo[1] \in Seq(Byte)
  BY <1>1, OptionalIs
<1>4. x.port = None \/ x.port[1] \in Seq(Digits)
  BY <1>1, OptionalIs
<1>5. \A c \in {AtSign, Colon, Slash, Question, Hash} : Free(x.host[1], c)
  BY <1>1, <1>2, WithoutIsFree
<1>6. x.userinfo = None \/ \A c \in {AtSign, Slash, Question, Hash} : Free(x.userinfo[1], c)
  BY <1>1, <1>3, WithoutIsFree
<1>7. QED
  BY <1>1, <1>2, <1>3, <1>4, <1>5, <1>6

LEMMA PathHas ==
  ASSUME NEW x, IsUri(x)
  PROVE  /\ x.path \in Seq(Byte) /\ Free(x.path, Question) /\ Free(x.path, Hash)
         /\ x.host # None => At(x.path, 0) \in {Slash, -1}
         /\ x.host = None => ~(At(x.path, 0) = Slash /\ At(x.path, 1) = Slash)
                               /\ x.userinfo = None /\ x.port = None
         /\ x.scheme = None /\ x.host = None => Guarded(x.path)
<1>1. x.path \in Seq(Byte) /\ Without(x.path, {Question, Hash})
  BY DEF IsUri
<1>2. Free(x.path, Question) /\ Free(x.path, Hash)
  <2>1. \A c \in {Question, Hash} : Free(x.path, c)
    BY <1>1, WithoutIsFree
  <2>2. QED
    BY <2>1
<1>3. x.scheme = None /\ x.host = None => Guarded(x.path)
  <2> SUFFICES ASSUME x.scheme = None, x.host = None,
                      NEW i \in 1 .. Len(x.path), x.path[i] = Colon
               PROVE  \E k \in 1 .. i - 1 : x.path[k] \notin SchemeBytes
    BY DEF Guarded
  <2>1. PICK k \in 1 .. i - 1 : x.path[k] = Slash
    <3>1. i \in DOMAIN x.path
      BY <1>1, LenProperties
    <3>2. QED
      BY <3>1 DEF IsUri
  <2>2. QED
    BY <2>1, DelimiterBytes
<1>4. QED
  BY <1>1, <1>2, <1>3 DEF IsUri

LEMMA OthersHave ==
  ASSUME NEW x, IsUri(x)
  PROVE  /\ x.scheme \in Optional(Seq(Byte)) /\ x.query \in Optional(Seq(Byte))
         /\ x.fragment \in Optional(Seq(Byte))
         /\ x.scheme = None \/ IsScheme(x.scheme[1])
         /\ x.query = None \/ Free(x.query[1], Hash)
<1>1. /\ x.scheme \in Optional(Seq(Byte)) /\ x.query \in Optional(Seq(Byte))
      /\ x.fragment \in Optional(Seq(Byte))
      /\ x.scheme = None \/ IsScheme(x.scheme[1])
      /\ x.query = None \/ Without(x.query[1], {Hash})
  BY DEF IsUri
<1>2. x.query = None \/ x.query[1] \in Seq(Byte)
  BY <1>1, OptionalIs
<1>3. x.query = None \/ Free(x.query[1], Hash)
  <2>1. x.query = None \/ \A c \in {Hash} : Free(x.query[1], c)
    BY <1>1, <1>2, WithoutIsFree
  <2>2. QED
    BY <2>1
<1>4. QED
  BY <1>1, <1>3

\* The authority has no delimiter that would end it, and is taken apart into its parts.
LEMMA AuthorityIsApart ==
  ASSUME NEW x, IsUri(x), x.host # None
  PROVE  /\ AuthorityText(x) \in Seq(Byte)
         /\ \A c \in {Slash, Question, Hash} : Free(AuthorityText(x), c)
         /\ UserOf(AuthorityText(x)) = x.userinfo
         /\ SplitPort(HostOf(AuthorityText(x))) = [host |-> x.host[1], port |-> PortNumber(x.port)]
<1> DEFINE us == x.userinfo
           h  == x.host[1]
           po == x.port
           t  == Text(po, <<Colon>>, <<>>)
           u  == Text(us, <<>>, <<AtSign>>)
           b  == h \o t
           v  == u \o b
           Ends == {AtSign, Slash, Question, Hash}
<1>1. /\ us \in Optional(Seq(Byte)) /\ po \in Optional(Seq(Digits)) /\ h \in Seq(Byte)
      /\ us = None \/ (us[1] \in Seq(Byte) /\ \A c \in Ends : Free(us[1], c))
      /\ Free(h, Colon) /\ \A c \in Ends : Free(h, c)
      /\ po = None \/ (po[1] \in Seq(Digits) /\ po[1] # <<>>)
  BY AuthorityHas
<1>2. AuthorityText(x) = v
  BY DEF AuthorityText
<1> HIDE DEF us, h, po
<1>3. /\ po \in Optional(Seq(Byte))
      /\ po = None \/ \A c \in Ends : Free(po[1], c)
  <2>1. CASE po = None
    <3>1. None \in Seq(Seq(Byte)) /\ Len(None) <= 1
      BY EmptySeq DEF None
    <3>2. QED
      BY <2>1, <3>1 DEF Optional
  <2>2. ASSUME NEW d \in Seq(Digits), po = Some(d)
        PROVE  po \in Optional(Seq(Byte)) /\ \A c \in Ends : Free(po[1], c)
    <3>1. Digits \in SUBSET Byte
      BY DEF Digits, Byte
    <3>2. d \in Seq(Byte)
      BY <3>1, SeqMonotonic
    <3>3. po \in Seq(Seq(Byte)) /\ Len(po) <= 1 /\ po[1] = d
      BY <2>2, <3>2 DEF Some
    <3>4. \A i \in 1 .. Len(d) : d[i] \in Digits
      BY ElementOfSeq
    <3>5. \A c \in Ends : Free(d, c)
      BY <3>4, DelimiterBytes DEF Free
    <3>6. QED
      BY <3>3, <3>5 DEF Optional
  <2>3. QED
    BY <1>1, <2>1, <2>2, OptionalIs
<1>4. t \in Seq(Byte) /\ \A c \in Ends : Free(t, c)
  <2>1. t \in Seq(Byte)
    BY <1>3, OneByte, DelimiterBytes, TextType
  <2>2. \A c \in Ends : Colon # c
    BY DEF Colon, AtSign, Slash, Question, Hash
  <2>3. ASSUME NEW c \in Ends PROVE Free(t, c)
    <3>1. po = None \/ Free(po[1], c)
      BY <1>3
    <3>2. QED
      BY <1>3, <2>2, <3>1, DelimiterBytes, FreeText
  <2>4. QED
    BY <2>1, <2>3
<1>5. u \in Seq(Byte) /\ \A c \in {Slash, Question, Hash} : Free(u, c)
  <2>1. u \in Seq(Byte)
    BY <1>1, OneByte, DelimiterBytes, TextType
  <2>2. \A c \in {Slash, Question, Hash} : AtSign # c
    BY DEF AtSign, Slash, Question, Hash
  <2>3. ASSUME NEW c \in {Slash, Question, Hash} PROVE Free(u, c)
    <3>1. us = None \/ Free(us[1], c)
      BY <1>1
    <3>2. QED
      BY <1>1, <2>2, <3>1, DelimiterBytes, FreeText
  <2>4. QED
    BY <2>1, <2>3
<1>6. SplitPort(b) = [host |-> h, port |-> PortNumber(po)]
  BY <1>1, PortIsFound
<1> HIDE DEF t
<1>7. b \in Seq(Byte) /\ \A c \in Ends : Free(b, c)
  BY <1>1, <1>4, Joined, FreeJoined
<1> HIDE DEF b
<1>8. UserOf(v) = us /\ HostOf(v) = b
  <2>1. Free(b, AtSign) /\ (us = None \/ Free(us[1], AtSign))
    BY <1>1, <1>7
  <2>2. QED
    BY <1>1, <1>7, <2>1, UserIsFound
<1> HIDE DEF u
<1>9. v \in Seq(Byte) /\ \A c \in {Slash, Question, Hash} : Free(v, c)
  BY <1>5, <1>7, Joined, FreeJoined
<1> HIDE DEF v
<1>10. QED
  BY <1>2, <1>6, <1>8, <1>9 DEF us, h, po

\* Authority and path are taken apart, and no scheme is seen in them.
LEMMA HierarchyIsApart ==
  ASSUME NEW x, IsUri(x)
  PROVE  /\ HierarchyText(x) \in Seq(Byte)
         /\ Free(HierarchyText(x), Question) /\ Free(HierarchyText(x), Hash)
         /\ x.scheme = None => Guarded(HierarchyText(x))
         /\ SplitAuthority(HierarchyText(x)) =
              [authority |-> IF x.host = None THEN None ELSE Some(AuthorityText(x)), path |-> x.path]
<1>1. CASE x.host = None
  <2>1. HierarchyText(x) = x.path
    BY <1>1 DEF HierarchyText
  <2>2. SplitAuthority(x.path) = [authority |-> None, path |-> x.path]
    BY <1>1, PathHas, NoAuthorityIsSeen
  <2>3. QED
    BY <1>1, <2>1, <2>2, PathHas
<1>2. CASE x.host # None
  <2> DEFINE w == <<Slash, Slash>>
             v == AuthorityText(x)
             p == x.path
             d == w \o v
             b == d \o p
  <2>1. HierarchyText(x) = b
    BY <1>2 DEF HierarchyText
  <2>2. v \in Seq(Byte) /\ \A c \in {Slash, Question, Hash} : Free(v, c)
    BY <1>2, AuthorityIsApart
  <2>3. p \in Seq(Byte) /\ Free(p, Question) /\ Free(p, Hash) /\ At(p, 0) \in {Slash, -1}
    BY <1>2, PathHas
  <2> HIDE DEF v, p
  <2>4. SplitAuthority(b) = [authority |-> Some(v), path |-> p]
    BY <2>2, <2>3, AuthorityIsFound
  <2>5. Guarded(b)
    BY <2>2, <2>3, GuardedAuthority
  <2>6. w \in Seq(Byte) /\ Free(w, Question) /\ Free(w, Hash)
    <3>1. w \in Seq(Byte) /\ Len(w) = 2 /\ w[1] = Slash /\ w[2] = Slash
      BY DelimiterBytes
    <3>2. Slash # Question /\ Slash # Hash
      BY DEF Slash, Question, Hash
    <3> HIDE DEF w
    <3>3. QED
      BY <3>1, <3>2 DEF Free
  <2> HIDE DEF w
  <2>7. d \in Seq(Byte) /\ Free(d, Question) /\ Free(d, Hash)
    BY <2>2, <2>6, Joined, FreeJoined
  <2> HIDE DEF d
  <2>8. b \in Seq(Byte) /\ Free(b, Question) /\ Free(b, Hash)
    BY <2>3, <2>7, Joined, FreeJoined
  <2> HIDE DEF b
  <2>9. QED
    BY <1>2, <2>1, <2>4, <2>5, <2>8 DEF v, p
<1>3. QED
  BY <1>1, <1>2

\* The text of any URI's parts is taken apart into these parts, whichever of them there are and
\* whatever delimiters of other parts they hold (uri_string.erl:40-123).
THEOREM UrisAreTakenApart ==
  ASSUME NEW x, IsUri(x)
  PROVE  ParseUri(UriText(x)) = UriMap(x)
<1> DEFINE s    == UriText(x)
           sc   == x.scheme
           q    == x.query
           f    == x.fragment
           p    == x.path
           h    == HierarchyText(x)
           r    == h \o Text(q, <<Question>>, <<>>)
           rest == r \o Text(f, <<Hash>>, <<>>)
           v    == AuthorityText(x)
<1>1. s = Text(sc, <<>>, <<Colon>>) \o rest
  BY DEF UriText
<1>2. /\ sc \in Optional(Seq(Byte)) /\ q \in Optional(Seq(Byte)) /\ f \in Optional(Seq(Byte))
      /\ sc = None \/ IsScheme(sc[1])
      /\ q = None \/ Free(q[1], Hash)
  BY OthersHave
<1>3. /\ h \in Seq(Byte) /\ Free(h, Question) /\ Free(h, Hash) /\ (sc = None => Guarded(h))
      /\ SplitAuthority(h) = [authority |-> IF x.host = None THEN None ELSE Some(v), path |-> p]
  BY HierarchyIsApart
<1>4. x.host = None => PortNumber(x.port) = None /\ x.userinfo = None
  BY PathHas DEF PortNumber
<1>5. x.host # None =>
        /\ UserOf(v) = x.userinfo /\ x.host = Some(x.host[1])
        /\ SplitPort(HostOf(v)) = [host |-> x.host[1], port |-> PortNumber(x.port)]
  BY AuthorityIsApart, AuthorityHas
<1> HIDE DEF s, sc, q, f, p, h, v
<1>6. SplitTail(rest) = [rest |-> h, query |-> q, fragment |-> f]
  BY <1>2, <1>3, TailIsFound
<1>7. Guarded(h) => Guarded(r)
  BY <1>2, <1>3, GuardedText, DelimiterBytes
<1>8. r \in Seq(Byte)
  BY <1>2, <1>3, OneByte, DelimiterBytes, TextType, Joined
<1> HIDE DEF r
<1>9. Guarded(r) => Guarded(rest)
  BY <1>2, <1>8, GuardedText, DelimiterBytes
<1>10. rest \in Seq(Byte)
  BY <1>2, <1>8, OneByte, DelimiterBytes, TextType, Joined
<1> HIDE DEF rest
<1>11. SplitScheme(s) = [scheme |-> sc, rest |-> rest]
  BY <1>1, <1>2, <1>3, <1>7, <1>9, <1>10, SchemeIsFound
<1>12. CASE x.host = None
  <2>1. SplitAuthority(h) = [authority |-> None, path |-> p]
    BY <1>3, <1>12
  <2>2. ParseUri(s) = AddOptional([path |-> p], [scheme |-> sc, query |-> q, fragment |-> f])
    BY <1>6, <1>11, <2>1 DEF ParseUri
  <2>3. UriMap(x) = Present([scheme |-> sc, userinfo |-> None, host |-> None, port |-> None,
                             path |-> Some(p), query |-> q, fragment |-> f])
    BY <1>4, <1>12 DEF UriMap, sc, p, q, f
  <2>4. QED
    BY <2>2, <2>3, MapWithoutHost DEF s
<1>13. CASE x.host # None
  <2> DEFINE us == UserOf(v)
             hp == SplitPort(HostOf(v))
             a  == Some(v)
  <2>1. SplitAuthority(h) = [authority |-> a, path |-> p]
    BY <1>3, <1>13
  <2>2. a # None /\ a[1] = v
    BY DEF Some, None
  <2> HIDE DEF a
  <2>3. ParseUri(s) = AddOptional([host |-> hp.host, path |-> p],
                        [scheme |-> sc, userinfo |-> us, port |-> hp.port, query |-> q, fragment |-> f])
    BY <1>6, <1>11, <2>1, <2>2 DEF ParseUri, UserOf, HostOf
  <2>4. us = x.userinfo /\ hp.host = x.host[1] /\ hp.port = PortNumber(x.port) /\ x.host = Some(hp.host)
    BY <1>5, <1>13
  <2> HIDE DEF us, hp
  <2>5. UriMap(x) = Present([scheme |-> sc, userinfo |-> us, host |-> Some(hp.host), port |-> hp.port,
                             path |-> Some(p), query |-> q, fragment |-> f])
    BY <2>4 DEF UriMap, sc, p, q, f
  <2>6. QED
    BY <2>3, <2>5, MapWithHost DEF s
<1>14. QED
  BY <1>12, <1>13

\* The URIs of the runs are taken apart into the parts they were put together from
\* (PartsAreTheUris; uri_string.erl:40-123).
THEOREM PartsStayTheUris == Spec => []PartsAreTheUris
<1>1. shim \in DOMAIN Inputs /\ input \in Inputs[shim] => PartsAreTheUris
  BY UrisAssumption, UrisAreTakenApart DEF PartsAreTheUris
<1>2. QED
  BY <1>1, InputsAreTried, PTL
=============================================================================
