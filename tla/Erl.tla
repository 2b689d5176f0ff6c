--------------------------------- MODULE Erl ---------------------------------
(***************************************************************************)
(* Functions of Erlang's kernel that the shims call on binaries.  A binary *)
(* is a sequence of bytes; positions count from 0.                         *)
(***************************************************************************)
EXTENDS Integers, Sequences, SequencesExt

Byte   == 0 .. 255
Digits == 48 .. 57

\* binary:at/2; -1 stands for its badarg.
At(b, p) == IF p < Len(b) THEN b[p + 1] ELSE -1

\* The bytes from position p on.
From(b, p) == SubSeq(b, p + 1, Len(b))

\* binary:split/2 at the first byte of value c: one part or two.
Split(b, c) ==
  LET i == SelectInSeq(b, LAMBDA x : x = c)
  IN  IF i = 0 THEN <<b>> ELSE <<SubSeq(b, 1, i - 1), From(b, i)>>

\* binary:split/3 with global: the parts of the first k bytes, for every k.
SplitAll(b, c) ==
  LET parts[k \in 0 .. Len(b)] ==
        IF k = 0 THEN << <<>> >>
        ELSE LET before == parts[k - 1]
             IN  IF b[k] = c THEN Append(before, <<>>)
                 ELSE [before EXCEPT ![Len(before)] = Append(@, b[k])]
  IN  parts[Len(b)]

AllDigits(t) == t # <<>> /\ \A i \in DOMAIN t : t[i] \in Digits

Unsigned(t) == IF At(t, 0) \in {43, 45} THEN From(t, 1) ELSE t

\* What binary_to_integer/1 and binary_to_float/1 accept; of anything else they say badarg.
IsInteger(t) == AllDigits(Unsigned(t))
IsFloat(t) ==
  \E i \in DOMAIN t :
    /\ t[i] = 46 /\ IsInteger(SubSeq(t, 1, i - 1))
    /\ \E j \in i + 1 .. Len(t) :
         /\ AllDigits(SubSeq(t, i + 1, j))
         /\ j < Len(t) => t[j + 1] \in {69, 101} /\ IsInteger(From(t, j + 1))

\* The number that the first k digits of t are, for every k.
Values(t) ==
  LET value[k \in 0 .. Len(t)] == IF k = 0 THEN 0 ELSE 10 * value[k - 1] + t[k] - 48
  IN  value

BinaryToInteger(t) ==
  LET digits    == Unsigned(t)
      magnitude == Values(digits)[Len(digits)]
  IN  IF At(t, 0) = 45 THEN -magnitude ELSE magnitude

DigitsOf[n \in Nat] == (IF n < 10 THEN <<>> ELSE DigitsOf[n \div 10]) \o <<48 + (n % 10)>>

IntegerToBinary(n) == IF n < 0 THEN <<45>> \o DigitsOf[-n] ELSE DigitsOf[n]

\* A digit as integer_to_binary/2 writes it in base 16.
HexDigit(n) == IF n < 10 THEN 48 + n ELSE 55 + n

\* The value of a hexadecimal digit, or -1.
Hex(c) == CASE c \in Digits     -> c - 48
            [] c \in 97 .. 102  -> c - 87
            [] c \in 65 .. 70   -> c - 55
            [] OTHER            -> -1
=============================================================================
