----------------------------- MODULE WireProofs -----------------------------
(***************************************************************************)
(* What either end of the wire encodes, the other end reads back, for      *)
(* every request and every response.                                       *)
(*                                                                         *)
(* The encodings are concatenations, the decoders work with offsets.       *)
(* Occurs joins the two: where the encoding of something occurs in any     *)
(* bytes, a decoder reads that thing and ends up behind it.                *)
(***************************************************************************)
EXTENDS Etf, NatProofs, SequenceTheorems

Bytes == Seq(Byte)

\* s begins at offset o of b.
Occurs(b, o, s) == o + Len(s) <= Len(b) /\ \A i \in 1 .. Len(s) : b[o + i] = s[i]

-----------------------------------------------------------------------------
(* Byte strings *)

LEMMA ConcatBytes ==
  ASSUME NEW s \in Bytes, NEW t \in Bytes
  PROVE  s \o t \in Bytes /\ Len(s \o t) = Len(s) + Len(t)
BY ConcatProperties DEF Bytes

LEMMA OccursInItself ==
  ASSUME NEW b \in Bytes
  PROVE  Occurs(b, 0, b)
BY DEF Bytes, Occurs

LEMMA OccursConcat ==
  ASSUME NEW b, NEW o \in Nat, NEW s \in Bytes, NEW t \in Bytes, Occurs(b, o, s \o t),
         Len(b) \in Nat
  PROVE  Occurs(b, o, s) /\ Occurs(b, o + Len(s), t)
<1>1. /\ Len(s) \in Nat /\ Len(t) \in Nat /\ Len(s \o t) = Len(s) + Len(t)
      /\ \A i \in 1 .. Len(s) + Len(t) :
           (s \o t)[i] = IF i <= Len(s) THEN s[i] ELSE t[i - Len(s)]
  BY ConcatProperties, LenProperties DEF Bytes
<1>2. ASSUME NEW i \in 1 .. Len(s) PROVE b[o + i] = s[i]
  BY <1>1 DEF Occurs
<1>3. ASSUME NEW i \in 1 .. Len(t) PROVE b[o + Len(s) + i] = t[i]
  <2>1. Len(s) + i \in 1 .. Len(s) + Len(t) /\ ~(Len(s) + i <= Len(s)) /\ Len(s) + i - Len(s) = i
    BY <1>1
  <2>2. b[o + (Len(s) + i)] = (s \o t)[Len(s) + i] /\ o + (Len(s) + i) = o + Len(s) + i
    <3>1. b[o + (Len(s) + i)] = (s \o t)[Len(s) + i]
      BY <1>1, <2>1 DEF Occurs
    <3>2. QED
      BY <1>1, <3>1
  <2>3. QED
    BY <1>1, <2>1, <2>2
<1>4. QED
  BY <1>1, <1>2, <1>3 DEF Occurs

LEMMA OccursByte ==
  ASSUME NEW b, NEW o \in Nat, NEW x, Occurs(b, o, <<x>>), Len(b) \in Nat
  PROVE  ByteAt(b, o) = x /\ o + 1 <= Len(b)
BY DEF Occurs, ByteAt

-----------------------------------------------------------------------------
(* Lengths *)

LEMMA DividedBy256 ==
  ASSUME NEW n \in Nat, NEW m \in Nat, n <= m * 256 + 255
  PROVE  n \div 256 \in 0 .. m /\ n % 256 \in 0 .. 255 /\ (n \div 256) * 256 + (n % 256) = n
BY SMT

LEMMA MaxIntType == MaxInt \in Nat
<1>1. 127 * 256 + 255 \in Nat
  BY SMT
<1>2. \A n \in Nat : n * 256 + 255 \in Nat
  BY SMT
<1>3. (127 * 256 + 255) * 256 + 255 \in Nat
  BY <1>1, <1>2, ZenonT(30)
<1>4. QED
  BY <1>2, <1>3, ZenonT(30) DEF MaxInt

\* n is made of its four bytes.
LEMMA FourBytes ==
  ASSUME NEW n \in 0 .. MaxInt
  PROVE  \E x \in 0 .. 127, y, z, w \in Byte :
           U32(n) = <<x, y, z, w>> /\ ((x * 256 + y) * 256 + z) * 256 + w = n
<1> DEFINE n1 == n \div 256
           n2 == n1 \div 256
           m2 == 127 * 256 + 255
           m1 == m2 * 256 + 255
<1>1. MaxInt = m1 * 256 + 255
  BY Zenon DEF MaxInt
<1>2. m2 \in Nat
  BY SMT
<1> HIDE DEF m2
<1>3. m1 \in Nat
  BY <1>2, SMT
<1> HIDE DEF m1
<1>4. m2 \in Nat /\ m1 \in Nat /\ n \in Nat /\ n <= m1 * 256 + 255
  BY <1>1, <1>2, <1>3, SMT
<1>5. n1 \in 0 .. m1 /\ n % 256 \in 0 .. 255 /\ n1 * 256 + (n % 256) = n
  BY <1>4, DividedBy256, SMT
<1> HIDE DEF n1
<1>6. n1 \in Nat /\ n1 <= m2 * 256 + 255
  BY <1>4, <1>5, SMT DEF m1
<1>7. n2 \in 0 .. m2 /\ n1 % 256 \in 0 .. 255 /\ n2 * 256 + (n1 % 256) = n1
  BY <1>4, <1>6, DividedBy256, SMT
<1> HIDE DEF n2
<1>8. n2 \in Nat /\ n2 <= 127 * 256 + 255
  BY <1>7, SMT DEF m2
<1>9. n2 \div 256 \in 0 .. 127 /\ n2 % 256 \in 0 .. 255 /\ (n2 \div 256) * 256 + (n2 % 256) = n2
  BY <1>8, DividedBy256, SMT
<1>10. U32(n) = <<n2 \div 256, n2 % 256, n1 % 256, n % 256>>
  BY DEF U32, n1, n2
<1> DEFINE x == n2 \div 256
           y == n2 % 256
           z == n1 % 256
           w == n % 256
<1>11. x \in 0 .. 127 /\ y \in Byte /\ z \in Byte /\ w \in Byte
  BY <1>5, <1>7, <1>9, SMT DEF Byte
<1>12. ((x * 256 + y) * 256 + z) * 256 + w = n
  <2>1. x * 256 + y = n2 /\ n2 * 256 + z = n1 /\ n1 * 256 + w = n
    BY <1>5, <1>7, <1>9, Zenon
  <2> HIDE DEF x, y, z, w
  <2>2. QED
    BY <2>1, Zenon
<1>13. U32(n) = <<x, y, z, w>>
  BY <1>10, Zenon
<1> HIDE DEF x, y, z, w
<1>14. QED
  BY <1>11, <1>12, <1>13, SMT

LEMMA U32Bytes ==
  ASSUME NEW n \in 0 .. MaxInt
  PROVE  U32(n) \in Bytes /\ Len(U32(n)) = 4
<1>1. PICK x \in 0 .. 127, y, z, w \in Byte :
        U32(n) = <<x, y, z, w>> /\ ((x * 256 + y) * 256 + z) * 256 + w = n
  BY FourBytes, Zenon
<1>2. x \in Byte
  BY SMT DEF Byte
<1> HIDE DEF Byte
<1>3. QED
  BY <1>1, <1>2, SMT DEF Bytes

LEMMA U32Reads ==
  ASSUME NEW b, NEW o \in Nat, NEW n \in 0 .. MaxInt, Occurs(b, o, U32(n)), Len(b) \in Nat
  PROVE  Fits(b, o, 4) /\ GetUint32(b, o) = n /\ GetInt32(b, o) = n
<1>1. PICK x \in 0 .. 127, y \in Byte, z \in Byte, w \in Byte :
             U32(n) = <<x, y, z, w>> /\ ((x * 256 + y) * 256 + z) * 256 + w = n
  BY FourBytes, Zenon
<1>2. b[o + 1] = x /\ b[o + 2] = y /\ b[o + 3] = z /\ b[o + 4] = w /\ o + 4 <= Len(b)
  BY <1>1, SMT DEF Occurs
<1>3. QED
  BY <1>1, <1>2, SMT DEF Fits, GetUint32, GetInt32

-----------------------------------------------------------------------------
(* Terms inside terms *)

\* The n terms are read one behind the other, the first at at[0], and each where the one
\* before it ends.
Chain(below, terms, at, n) ==
  /\ n \in Nat /\ Len(terms) = n /\ \E T : terms \in Seq(T)
  /\ \A k \in 1 .. n : below[at[k - 1]] = Got(terms[k], at[k])

LEMMA ItemsAre ==
  ASSUME NEW b, NEW below, NEW terms, NEW at, NEW n,
         Chain(below, terms, at, n), Len(b) \in Nat, n <= Len(b)
  PROVE  Items(b, below, n, at[0]) = Got(terms, at[n])
<1> USE DEF Chain
<1>1. PICK T : terms \in Seq(T)
  OBVIOUS
<1> DEFINE Body(f, k) ==
             IF k = 0 THEN Got(<<>>, at[0])
             ELSE IF f[k - 1].ok /\ below[f[k - 1].next].ok
                  THEN Got(Append(f[k - 1].term, below[f[k - 1].next].term),
                           below[f[k - 1].next].next)
                  ELSE Throw
           g == [k \in 0 .. n |-> Got(SubSeq(terms, 1, k), at[k])]
           first == FirstItems(below, n, at[0])
<1>2. SubSeq(terms, 1, 0) = <<>> /\ SubSeq(terms, 1, n) = terms
  BY <1>1, SubSeqFull, SubSeqEmpty
<1>3. ASSUME NEW k \in 1 .. n
      PROVE  Append(SubSeq(terms, 1, k - 1), terms[k]) = SubSeq(terms, 1, k)
  BY <1>1, SubSeqRecursiveSecond
<1>4. ASSUME NEW k \in 0 .. n PROVE g[k] = Body(g, k)
  <2>1. CASE k = 0
    BY <1>2, <2>1
  <2>2. CASE k # 0
    <3>1. k \in 1 .. n /\ k - 1 \in 0 .. n
      BY <2>2
    <3>2. g[k - 1].ok /\ g[k - 1].term = SubSeq(terms, 1, k - 1) /\ g[k - 1].next = at[k - 1]
      BY <3>1 DEF Got
    <3>3. below[at[k - 1]] = Got(terms[k], at[k])
      BY <3>1
    <3>4. Body(g, k) = Got(Append(SubSeq(terms, 1, k - 1), terms[k]), at[k])
      <4> HIDE DEF g
      <4>1. QED
        BY <2>2, <3>2, <3>3 DEF Got
    <3>5. QED
      BY <1>3, <3>1, <3>4
  <2>3. QED
    BY <2>1, <2>2
<1>5. g = [k \in 0 .. n |-> Body(g, k)]
  BY <1>4
<1>6. first = [k \in 0 .. n |-> Body(first, k)]
  <2> HIDE DEF g
  <2>1. QED
    BY <1>5 DEF FirstItems
<1> HIDE DEF first
<1>7. ASSUME NEW k \in 0 .. n - 1, first[k] = g[k] PROVE first[k + 1] = g[k + 1]
  <2>1. k + 1 \in 0 .. n /\ k + 1 # 0 /\ k + 1 - 1 = k
    OBVIOUS
  <2> HIDE DEF g
  <2>2. Body(first, k + 1) = Body(g, k + 1)
    BY <1>7, <2>1
  <2> HIDE DEF Body
  <2>3. QED
    BY <1>5, <1>6, <2>1, <2>2
<1>8. first[0] = g[0] /\ g[n] = Got(terms, at[n])
  <2>1. first[0] = Body(first, 0) /\ g[0] = Body(g, 0)
    <3> HIDE DEF Body
    <3>1. QED
      BY <1>4, <1>6
  <2>2. g[n] = Got(terms, at[n])
    <3>1. g[n] = Got(SubSeq(terms, 1, n), at[n])
      OBVIOUS
    <3>2. QED
      BY <1>2, <3>1
  <2> HIDE DEF g
  <2>3. QED
    BY <2>1, <2>2
<1> HIDE DEF g, Body
<1> DEFINE I == {k \in Nat : k <= n => first[k] = g[k]}
<1>9. 0 \in I
  BY <1>8
<1>10. ASSUME NEW k \in I PROVE k + 1 \in I
  <2>1. k + 1 <= n => k \in 0 .. n - 1 /\ first[k] = g[k]
    OBVIOUS
  <2>2. QED
    BY <1>7, <2>1
<1>11. I = Nat
  <2> HIDE DEF I
  <2>1. I \in SUBSET Nat
    BY DEF I
  <2>2. QED
    BY <1>9, <1>10, <2>1, SetInduction
<1>12. first[n] = g[n]
  BY <1>11
<1>13. n = 0 => terms = <<>>
  BY <1>1, EmptySeq
<1>14. QED
  BY <1>8, <1>12, <1>13 DEF Items, first

-----------------------------------------------------------------------------
(* The decoders' recursion *)

\* Three functions are recursive in how deep terms lie in one another: what a decoder
\* reads, the sets Exchanged, and the functions AsArrays on them.
Ground(what) == CASE what = "reads"     -> [o \in Nat |-> Throw]
                  [] what = "exchanged" -> {}
                  [] what = "arrays"    -> [t \in {} |-> t]

Around(terms) ==
  [type : {"integer"}, value : Int] \union [type : {"binary"}, value : Seq(Byte)]
    \union [type : {"tuple", "list"}, value : Seq(terms)]

ArrayOf(t, arrays) ==
  IF t.type \in {"tuple", "list"} THEN Term("array", [i \in DOMAIN t.value |-> arrays[t.value[i]]])
  ELSE t

Deeper(what, end, b, d, x) ==
  CASE what = "reads"     -> [o \in Nat |-> Read(end, b, x, o)]
    [] what = "exchanged" -> Around(x)
    [] what = "arrays"    -> [t \in Exchanged[d + 1] |-> ArrayOf(t, x)]

\* f has the first values of one of them.
UpTo(f, n, what, end, b) ==
  /\ DOMAIN f = 0 .. n
  /\ f[0] = Ground(what)
  /\ \A d \in 0 .. n - 1 : f[d + 1] = Deeper(what, end, b, d, f[d])

LEMMA UpToAll ==
  ASSUME NEW what, NEW end, NEW b
  PROVE  \A n \in Nat : \E f : UpTo(f, n, what, end, b)
<1> DEFINE I == {n \in Nat : \E f : UpTo(f, n, what, end, b)}
<1>1. 0 \in I
  <2>1. UpTo([d \in 0 .. 0 |-> Ground(what)], 0, what, end, b)
    BY DEF UpTo
  <2>2. QED
    BY <2>1
<1>2. ASSUME NEW n \in I PROVE n + 1 \in I
  <2>1. PICK f : UpTo(f, n, what, end, b)
    OBVIOUS
  <2>2. n \in Nat
    OBVIOUS
  <2> DEFINE x == Deeper(what, end, b, n, f[n])
             g == [d \in 0 .. n + 1 |-> IF d = n + 1 THEN x ELSE f[d]]
  <2> HIDE DEF x
  <2>3. DOMAIN g = 0 .. n + 1 /\ g[0] = Ground(what)
    BY <2>1, <2>2 DEF UpTo
  <2>4. ASSUME NEW d \in 0 .. n PROVE g[d + 1] = Deeper(what, end, b, d, g[d])
    <3>1. g[d] = f[d] /\ g[d + 1] = IF d = n THEN x ELSE f[d + 1]
      BY <2>2
    <3>2. CASE d = n
      BY <3>1, <3>2 DEF x
    <3>3. CASE d # n
      <4>1. d \in 0 .. n - 1 /\ g[d + 1] = f[d + 1]
        BY <2>2, <3>1, <3>3
      <4>2. QED
        BY <2>1, <3>1, <4>1 DEF UpTo
    <3>4. QED
      BY <3>2, <3>3
  <2> HIDE DEF g
  <2>5. UpTo(g, n + 1, what, end, b)
    <3>1. n + 1 - 1 = n
      BY <2>2
    <3>2. QED
      BY <2>3, <2>4, <3>1 DEF UpTo
  <2>6. QED
    BY <2>2, <2>5
<1>3. I = Nat
  <2> HIDE DEF I
  <2>1. I \in SUBSET Nat
    BY DEF I
  <2>2. QED
    BY <1>1, <1>2, <2>1, SetInduction
<1>4. QED
  BY <1>3

LEMMA UpToAlike ==
  ASSUME NEW what, NEW end, NEW b, NEW m \in Nat, NEW n \in Nat, m <= n, NEW f, NEW g,
         UpTo(f, m, what, end, b), UpTo(g, n, what, end, b)
  PROVE  f[m] = g[m]
<1> DEFINE I == {d \in Nat : d <= m => f[d] = g[d]}
<1>1. 0 \in I
  BY DEF UpTo
<1>2. ASSUME NEW d \in I PROVE d + 1 \in I
  <2>1. CASE d + 1 <= m
    <3>1. d \in 0 .. m - 1 /\ d \in 0 .. n - 1 /\ f[d] = g[d]
      BY <2>1
    <3>2. f[d + 1] = Deeper(what, end, b, d, f[d]) /\ g[d + 1] = Deeper(what, end, b, d, g[d])
      BY <3>1 DEF UpTo
    <3>3. QED
      BY <1>2, <3>1, <3>2
  <2>2. QED
    BY <2>1
<1>3. I = Nat
  <2> HIDE DEF I
  <2>1. I \in SUBSET Nat
    BY DEF I
  <2>2. QED
    BY <1>1, <1>2, <2>1, SetInduction
<1>4. QED
  BY <1>3

\* f has all values of one of them.
Solution(f, what, end, b) ==
  /\ f = [n \in Nat |-> f[n]] /\ f[0] = Ground(what)
  /\ \A n \in Nat : f[n + 1] = Deeper(what, end, b, n, f[n])

LEMMA Solved ==
  ASSUME NEW what, NEW end, NEW b
  PROVE  \E f : Solution(f, what, end, b)
<1> DEFINE F == [n \in Nat |-> CHOOSE f : UpTo(f, n, what, end, b)]
<1>1. \A n \in Nat : UpTo(F[n], n, what, end, b)
  BY UpToAll
<1> HIDE DEF F
<1> DEFINE f == [n \in Nat |-> F[n][n]]
<1>2. f[0] = Ground(what)
  BY <1>1 DEF UpTo
<1>3. ASSUME NEW n \in Nat PROVE f[n + 1] = Deeper(what, end, b, n, f[n])
  <2>1. /\ UpTo(F[n], n, what, end, b) /\ UpTo(F[n + 1], n + 1, what, end, b)
        /\ n + 1 \in Nat /\ n <= n + 1 /\ n + 1 - 1 = n
    BY <1>1
  <2> HIDE DEF f
  <2>2. F[n][n] = F[n + 1][n]
    BY <2>1, UpToAlike
  <2>3. F[n + 1][n + 1] = Deeper(what, end, b, n, F[n + 1][n])
    BY <2>1 DEF UpTo
  <2>4. QED
    BY <2>1, <2>2, <2>3 DEF f
<1>4. f = [n \in Nat |-> f[n]]
  OBVIOUS
<1> HIDE DEF f
<1>5. Solution(f, what, end, b)
  BY <1>2, <1>3, <1>4 DEF Solution
<1>6. QED
  BY <1>5

\* The recursion of a decoder has a solution, so Reads is one.
LEMMA ReadsSteps ==
  ASSUME NEW end, NEW b
  PROVE  /\ \A o \in Nat : Reads(end, b)[0][o] = Throw
         /\ \A d \in Nat : \A o \in Nat :
              Reads(end, b)[d + 1][o] = Read(end, b, Reads(end, b)[d], o)
<1>1. PICK f : Solution(f, "reads", end, b)
  BY Solved, Zenon
<1>2. f[0] = [o \in Nat |-> Throw]
  BY <1>1 DEF Solution, Ground
<1>3. ASSUME NEW n \in Nat PROVE f[n + 1] = [o \in Nat |-> Read(end, b, f[n], o)]
  BY <1>1 DEF Solution, Deeper
<1>4. \A n \in Nat : f[n] = IF n = 0 THEN [o \in Nat |-> Throw]
                            ELSE [o \in Nat |-> Read(end, b, f[n - 1], o)]
  <2> TAKE n \in Nat
  <2>1. CASE n # 0
    <3>1. n - 1 \in Nat /\ n - 1 + 1 = n
      BY <2>1
    <3>2. f[n] = [o \in Nat |-> Read(end, b, f[n - 1], o)]
      BY <1>3, <3>1
    <3>3. QED
      BY <2>1, <3>2
  <2>2. QED
    BY <1>2, <2>1
<1>5. f = [n \in Nat |-> IF n = 0 THEN [o \in Nat |-> Throw]
                         ELSE [o \in Nat |-> Read(end, b, f[n - 1], o)]]
  BY <1>1, <1>4 DEF Solution
<1> DEFINE reads == Reads(end, b)
<1>6. reads = [n \in Nat |-> IF n = 0 THEN [o \in Nat |-> Throw]
                             ELSE [o \in Nat |-> Read(end, b, reads[n - 1], o)]]
  BY <1>5 DEF Reads
<1> HIDE DEF reads
<1>7. ASSUME NEW d \in Nat, NEW o \in Nat PROVE reads[d + 1][o] = Read(end, b, reads[d], o)
  <2>1. d + 1 \in Nat /\ d + 1 # 0 /\ d + 1 - 1 = d
    OBVIOUS
  <2>2. reads[d + 1] = [p \in Nat |-> Read(end, b, reads[d], p)]
    BY <1>6, <2>1
  <2>3. QED
    BY <2>2
<1>8. \A o \in Nat : reads[0][o] = Throw
  <2>1. reads[0] = [o \in Nat |-> Throw]
    BY <1>6
  <2>2. QED
    BY <2>1
<1>9. QED
  BY <1>7, <1>8, Zenon DEF reads

LEMMA ExchangedSteps ==
  /\ Exchanged[0] = {}
  /\ \A d \in Nat : Exchanged[d + 1] = Around(Exchanged[d])
<1>1. PICK f : Solution(f, "exchanged", 0, 0)
  BY Solved, Zenon
<1>2. f[0] = {} /\ \A n \in Nat : f[n + 1] = Around(f[n])
  BY <1>1 DEF Solution, Ground, Deeper
<1>3. \A n \in Nat : f[n] = IF n = 0 THEN {} ELSE Around(f[n - 1])
  <2> TAKE n \in Nat
  <2>1. CASE n # 0
    <3>1. n - 1 \in Nat /\ n - 1 + 1 = n
      BY <2>1
    <3>2. f[n] = Around(f[n - 1])
      BY <1>2, <3>1
    <3>3. QED
      BY <2>1, <3>2
  <2>2. QED
    BY <1>2, <2>1
<1>4. f = [n \in Nat |-> IF n = 0 THEN {} ELSE Around(f[n - 1])]
  BY <1>1, <1>3 DEF Solution
<1> DEFINE sets == Exchanged
<1>5. sets = [n \in Nat |-> IF n = 0 THEN {} ELSE Around(sets[n - 1])]
  BY <1>4, Zenon DEF Exchanged, Around
<1> HIDE DEF sets
<1>6. sets[0] = {}
  BY <1>5
<1>7. ASSUME NEW d \in Nat, NEW n, n = d + 1 PROVE sets[n] = Around(sets[d])
  <2>1. n \in Nat /\ n # 0 /\ n - 1 = d
    BY <1>7
  <2>2. sets[n] = IF n = 0 THEN {} ELSE Around(sets[n - 1])
    BY <1>5, <2>1, Zenon
  <2>3. QED
    BY <2>1, <2>2, Zenon
<1>8. QED
  BY <1>6, <1>7, Zenon DEF sets

LEMMA ArraysSteps ==
  \A d \in Nat : AsArrays[d + 1] = [t \in Exchanged[d + 1] |-> ArrayOf(t, AsArrays[d])]
<1>1. PICK f : Solution(f, "arrays", 0, 0)
  BY Solved, Zenon
<1>2. /\ f[0] = [t \in {} |-> t]
      /\ \A n \in Nat : f[n + 1] = [t \in Exchanged[n + 1] |-> ArrayOf(t, f[n])]
  BY <1>1 DEF Solution, Ground, Deeper
<1>3. \A n \in Nat : f[n] = [t \in Exchanged[n] |-> ArrayOf(t, f[n - 1])]
  <2> TAKE n \in Nat
  <2>1. CASE n = 0
    <3>1. Exchanged[n] = {} /\ f[n] = [t \in {} |-> t]
      BY <1>2, <2>1, ExchangedSteps
    <3>2. QED
      BY <3>1
  <2>2. CASE n # 0
    <3>1. n - 1 \in Nat /\ n - 1 + 1 = n
      BY <2>2
    <3>2. QED
      BY <1>2, <3>1
  <2>3. QED
    BY <2>1, <2>2
<1>4. f = [n \in Nat |-> [t \in Exchanged[n] |-> ArrayOf(t, f[n - 1])]]
  BY <1>1, <1>3 DEF Solution
<1> DEFINE funs == AsArrays
<1>5. funs = [n \in Nat |-> [t \in Exchanged[n] |-> ArrayOf(t, funs[n - 1])]]
  <2>1. f = [n \in Nat |->
               [t \in Exchanged[n] |->
                  IF t.type \in {"tuple", "list"}
                  THEN Term("array", [i \in DOMAIN t.value |-> f[n - 1][t.value[i]]])
                  ELSE t]]
    BY <1>4, Zenon DEF ArrayOf
  <2>2. funs = [n \in Nat |->
                  [t \in Exchanged[n] |->
                     IF t.type \in {"tuple", "list"}
                     THEN Term("array", [i \in DOMAIN t.value |-> funs[n - 1][t.value[i]]])
                     ELSE t]]
    <3> DEFINE P(x) == x = [n \in Nat |->
                              [t \in Exchanged[n] |->
                                 IF t.type \in {"tuple", "list"}
                                 THEN Term("array", [i \in DOMAIN t.value |-> x[n - 1][t.value[i]]])
                                 ELSE t]]
    <3>1. P(f)
      BY <2>1, Zenon
    <3>2. funs = CHOOSE x : P(x)
      BY Zenon DEF AsArrays
    <3> HIDE DEF P, funs
    <3>3. P(funs)
      BY <3>1, <3>2, Zenon
    <3>4. QED
      BY <3>3, Zenon DEF P
  <2> HIDE DEF funs
  <2>3. QED
    BY <2>2, Zenon DEF ArrayOf
<1> HIDE DEF funs
<1>6. ASSUME NEW d \in Nat
      PROVE  funs[d + 1] = [t \in Exchanged[d + 1] |-> ArrayOf(t, funs[d])]
  <2>1. d + 1 \in Nat /\ d + 1 - 1 = d
    OBVIOUS
  <2>2. QED
    BY <1>5, <2>1
<1>7. QED
  BY <1>6, Zenon DEF funs

-----------------------------------------------------------------------------
(* Binaries *)

LEMMA OneByte ==
  ASSUME NEW x \in Byte
  PROVE  <<x>> \in Bytes /\ Len(<<x>>) = 1
BY DEF Bytes

LEMMA TwoBytes ==
  ASSUME NEW x \in Byte, NEW y \in Byte
  PROVE  <<x, y>> \in Bytes /\ Len(<<x, y>>) = 2
BY DEF Bytes

LEMMA TextIsBytes ==
  ASSUME NEW s \in Texts
  PROVE  s \in Bytes /\ Len(s) \in 0 .. MaxInt /\ Len(s) \in Nat
<1>1. s \in Bytes /\ Len(s) \in Nat /\ Len(s) <= MaxInt
  BY LenProperties, Zenon DEF Texts, Bytes
<1>2. MaxInt \in Nat
  BY MaxIntType
<1>3. QED
  BY <1>1, <1>2

\* A tag and four bytes for a number, as a list, a binary and an integer begin.
LEMMA TaggedBytes ==
  ASSUME NEW tag \in Byte, NEW n \in 0 .. MaxInt
  PROVE  <<tag>> \o U32(n) \in Bytes /\ Len(<<tag>> \o U32(n)) = 5
<1> DEFINE t == <<tag>>
           u == U32(n)
<1>1. t \in Bytes /\ Len(t) = 1 /\ u \in Bytes /\ Len(u) = 4
  BY OneByte, U32Bytes
<1> HIDE DEF t, u
<1>2. t \o u \in Bytes /\ Len(t \o u) = 1 + 4
  BY <1>1, ConcatBytes
<1>3. QED
  BY <1>2, SMT DEF t, u

LEMMA TaggedReads ==
  ASSUME NEW b \in Bytes, NEW o \in Nat, NEW tag \in Byte, NEW n \in 0 .. MaxInt,
         Occurs(b, o, <<tag>> \o U32(n))
  PROVE  /\ ByteAt(b, o) = tag
         /\ Fits(b, o + 1, 4) /\ GetUint32(b, o + 1) = n /\ GetInt32(b, o + 1) = n
<1> DEFINE t == <<tag>>
           u == U32(n)
<1>1. t \in Bytes /\ Len(t) = 1 /\ u \in Bytes /\ Len(b) \in Nat
  BY OneByte, U32Bytes, LenProperties DEF Bytes
<1> HIDE DEF t, u
<1>2. Occurs(b, o, t) /\ Occurs(b, o + Len(t), u)
  BY <1>1, OccursConcat DEF t, u
<1>3. Occurs(b, o + 1, U32(n)) /\ o + 1 \in Nat
  BY <1>1, <1>2 DEF u
<1>4. ByteAt(b, o) = tag
  BY <1>1, <1>2, OccursByte DEF t
<1>5. QED
  BY <1>1, <1>3, <1>4, U32Reads

LEMMA BinaryBytes ==
  ASSUME NEW s \in Texts
  PROVE  /\ EncodeBinary(s) \in Bytes /\ Len(EncodeBinary(s)) = 5 + Len(s)
         /\ Len(EncodeBinary(s)) \in Nat
<1> DEFINE t == <<Binary>> \o U32(Len(s))
<1>1. s \in Bytes /\ Len(s) \in 0 .. MaxInt /\ Len(s) \in Nat
  BY TextIsBytes
<1>2. t \in Bytes /\ Len(t) = 5
  <2>1. Binary \in Byte
    BY SMT DEF Binary, Byte
  <2>2. QED
    BY <1>1, <2>1, TaggedBytes
<1>3. EncodeBinary(s) = t \o s
  BY DEF EncodeBinary
<1> HIDE DEF t
<1>4. t \o s \in Bytes /\ Len(t \o s) = 5 + Len(s)
  BY <1>1, <1>2, ConcatBytes
<1>5. QED
  BY <1>1, <1>3, <1>4, SMT

\* Where s occurs, SubSeq finds it.
LEMMA OccursCut ==
  ASSUME NEW b \in Bytes, NEW o \in Nat, NEW s \in Bytes, Occurs(b, o, s)
  PROVE  SubSeq(b, o + 1, o + Len(s)) = s
<1>1. Len(b) \in Nat /\ Len(s) \in Nat /\ o + Len(s) <= Len(b)
      /\ b \in Seq(Byte) /\ s \in Seq(Byte)
  BY LenProperties DEF Bytes, Occurs
<1> DEFINE cut == SubSeq(b, o + 1, o + Len(s))
<1>2. cut \in Seq(Byte) /\ Len(cut) = Len(s) /\ \A i \in 1 .. Len(s) : cut[i] = b[o + 1 + i - 1]
  BY <1>1, SubSeqProperties
<1>3. \A i \in 1 .. Len(s) : cut[i] = s[i]
  <2>1. \A i \in 1 .. Len(s) : o + 1 + i - 1 = o + i
    BY <1>1
  <2>2. QED
    BY <1>2, <2>1 DEF Occurs
<1>4. QED
  BY <1>1, <1>2, <1>3, SeqEqual

LEMMA BinaryReads ==
  ASSUME NEW end, NEW below, NEW b \in Bytes, NEW o \in Nat, NEW s \in Texts,
         Occurs(b, o, EncodeBinary(s))
  PROVE  Read(end, b, below, o) = Got(Term("binary", s), o + (5 + Len(s)))
<1> DEFINE t == <<Binary>> \o U32(Len(s))
<1>1. /\ s \in Bytes /\ Len(s) \in 0 .. MaxInt /\ Len(s) \in Nat /\ Len(b) \in Nat
      /\ Binary \in Byte
  <2>1. Binary \in Byte
    BY SMT DEF Binary, Byte
  <2>2. QED
    BY <2>1, TextIsBytes, LenProperties DEF Bytes
<1>2. t \in Bytes /\ Len(t) = 5
  BY <1>1, TaggedBytes
<1>3. Occurs(b, o, t) /\ Occurs(b, o + 5, s)
  <2>1. EncodeBinary(s) = t \o s
    BY DEF EncodeBinary
  <2> HIDE DEF t
  <2>2. QED
    BY <1>1, <1>2, <2>1, OccursConcat
<1>4. ByteAt(b, o) = Binary /\ Fits(b, o + 1, 4) /\ GetUint32(b, o + 1) = Len(s)
  BY <1>1, <1>3, TaggedReads
<1>5. o + 5 \in Nat
  BY SMT
<1>6. SubSeq(b, o + 5 + 1, o + 5 + Len(s)) = s /\ o + 5 + Len(s) <= Len(b)
  BY <1>1, <1>3, <1>5, OccursCut DEF Occurs
<1> HIDE DEF t
<1>7. ReadTerm(b, below, o) = Got(Term("binary", s), o + (5 + Len(s)))
  <2>1. ReadTerm(b, below, o) = ReadBinary(b, o + 1)
    BY <1>4, SMT DEF ReadTerm, SmallInteger, Integer32, SmallTuple, Nil, List, Binary
  <2>2. /\ o + 1 + 4 + Len(s) = o + (5 + Len(s)) /\ o + 1 + 5 = o + 5 + 1
        /\ o + 5 + Len(s) = o + (5 + Len(s)) /\ Fits(b, o + 1 + 4, Len(s))
    BY <1>1, <1>6, SMT DEF Fits
  <2>3. QED
    BY <1>4, <1>6, <2>1, <2>2, Zenon DEF ReadBinary
<1>8. ErlTerm(b, below, o) = Got(Term("binary", s), o + (5 + Len(s)))
  <2>1. Fits(b, o, 5) /\ Fits(b, o + 5, Len(s)) /\ o + 5 + Len(s) = o + (5 + Len(s))
    BY <1>1, <1>6, SMT DEF Fits
  <2>2. ErlTerm(b, below, o) = ErlBytes(b, "binary", GetUint32(b, o + 1), o + 5)
    BY <1>4, <2>1, SMT
       DEF ErlTerm, SmallInteger, Integer32, SmallTuple, SmallAtom, Nil, List, Binary
  <2>3. QED
    BY <1>4, <1>6, <2>1, <2>2, Zenon DEF ErlBytes
<1>9. QED
  BY <1>7, <1>8 DEF Read

-----------------------------------------------------------------------------
(* Tuples, and lists that hold something *)

TupleType(end) == IF end = "guest" THEN "tuple" ELSE "array"
ListType(end)  == IF end = "guest" THEN "list" ELSE "array"

LEMMA TupleReads ==
  ASSUME NEW end, NEW below, NEW b \in Bytes, NEW o \in Nat, NEW n \in Byte, n <= Len(b),
         Occurs(b, o, <<SmallTuple, n>>),
         NEW terms, NEW at, Chain(below, terms, at, n), at[0] = o + 2
  PROVE  Read(end, b, below, o) = Got(Term(TupleType(end), terms), at[n])
<1>1. n \in Nat /\ Len(b) \in Nat
  BY LenProperties DEF Byte, Bytes
<1>2. ByteAt(b, o) = SmallTuple /\ ByteAt(b, o + 1) = n /\ o + 2 <= Len(b)
  BY <1>1 DEF Occurs, ByteAt
<1>3. Items(b, below, n, at[0]) = Got(terms, at[n])
  BY <1>1, ItemsAre
<1>4. Items(b, below, n, o + 2) = Got(terms, at[n]) /\ o + 1 + 1 = o + 2
  BY <1>3
<1>5. ReadTerm(b, below, o) = Typed("array", Items(b, below, ByteAt(b, o + 1), o + 2))
  BY <1>2, SMT DEF ReadTerm, SmallInteger, Integer32, SmallTuple, Nil, List, Binary
<1>6. ErlTerm(b, below, o) = ErlTuple(b, below, o + 1)
  BY <1>2, SMT DEF ErlTerm, SmallInteger, Integer32, SmallTuple, SmallAtom, Nil, List, Binary
<1>7. Fits(b, o + 1, 1)
  BY <1>1, <1>2 DEF Fits
<1>8. ErlTuple(b, below, o + 1) = Typed("tuple", Items(b, below, n, o + 2))
  BY <1>2, <1>4, <1>7, Zenon DEF ErlTuple
<1>9. ASSUME NEW type
      PROVE  Typed(type, Got(terms, at[n])) = Got(Term(type, terms), at[n])
  BY DEF Typed, Got
<1>10. QED
  BY <1>2, <1>4, <1>5, <1>6, <1>8, <1>9, Zenon DEF Read, TupleType

LEMMA ListReads ==
  ASSUME NEW end, NEW below, NEW b \in Bytes, NEW o \in Nat, NEW n \in 0 .. MaxInt, n <= Len(b),
         Occurs(b, o, <<List>> \o U32(n)),
         NEW terms, NEW at, Chain(below, terms, at, n), at[0] = o + 5,
         ByteAt(b, at[n]) = Nil
  PROVE  Read(end, b, below, o) = Got(Term(ListType(end), terms), at[n] + 1)
<1>1. n \in Nat /\ Len(b) \in Nat /\ List \in Byte
  BY LenProperties DEF List, Byte, Bytes
<1>2. /\ ByteAt(b, o) = List
      /\ Fits(b, o + 1, 4) /\ GetUint32(b, o + 1) = n
  BY <1>1, TaggedReads
<1>3. Items(b, below, n, at[0]) = Got(terms, at[n])
  BY <1>1, ItemsAre
<1>4. Items(b, below, n, o + 5) = Got(terms, at[n]) /\ o + 1 + 4 = o + 5
  BY <1>3
<1>5. ReadTerm(b, below, o) = ReadList(b, below, o + 1)
  BY <1>2, SMT DEF ReadTerm, SmallInteger, Integer32, SmallTuple, Nil, List, Binary
<1>6. ErlTerm(b, below, o) = ErlList(b, below, o + 1)
  BY <1>2, SMT DEF ErlTerm, SmallInteger, Integer32, SmallTuple, SmallAtom, Nil, List, Binary
<1> DEFINE list == Items(b, below, n, o + 5)
<1>7. list.ok /\ list.term = terms /\ list.next = at[n]
  BY <1>4 DEF Got
<1>8. Items(b, below, GetUint32(b, o + 1), o + 1 + 4) = list
  BY <1>2, <1>4, Zenon
<1> HIDE DEF list
<1>9. ReadList(b, below, o + 1) = Got(Term("array", terms), at[n] + 1)
  BY <1>2, <1>7, <1>8, Zenon DEF ReadList
<1>10. ErlList(b, below, o + 1) = Got(Term("list", terms), at[n] + 1)
  BY <1>2, <1>7, <1>8, Zenon DEF ErlList
<1>11. QED
  BY <1>5, <1>6, <1>9, <1>10, Zenon DEF Read, ListType

-----------------------------------------------------------------------------
(* Headers *)

\* below reads with the decoder itself.
Recurses(end, b, below, inner) == \A p \in Nat : below[p] = Read(end, b, inner, p)

HeaderTerm(end, h) == Term(TupleType(end), <<Term("binary", h[1]), Term("binary", h[2])>>)

LEMMA HeaderBytes ==
  ASSUME NEW h \in Texts \X Texts
  PROVE  /\ EncodeHeader(h) \in Bytes
         /\ Len(EncodeHeader(h)) \in Nat /\ Len(EncodeHeader(h)) >= 1
         /\ Len(EncodeHeader(h)) = 2 + (5 + Len(h[1])) + (5 + Len(h[2]))
<1> DEFINE t == <<SmallTuple, 2>>
           x == EncodeBinary(h[1])
           y == EncodeBinary(h[2])
<1>1. h[1] \in Texts /\ h[2] \in Texts
  OBVIOUS
<1>2. Len(h[1]) \in Nat /\ Len(h[2]) \in Nat
  BY <1>1, TextIsBytes
<1>3. t \in Bytes /\ Len(t) = 2
  <2>1. SmallTuple \in Byte /\ 2 \in Byte
    BY DEF SmallTuple, Byte
  <2>2. QED
    BY <2>1, TwoBytes
<1>4. x \in Bytes /\ Len(x) = 5 + Len(h[1]) /\ y \in Bytes /\ Len(y) = 5 + Len(h[2])
  BY <1>1, BinaryBytes
<1>5. EncodeHeader(h) = (t \o x) \o y
  BY DEF EncodeHeader
<1> HIDE DEF t, x, y
<1>6. t \o x \in Bytes /\ Len(t \o x) = Len(t) + Len(x)
  BY <1>3, <1>4, ConcatBytes
<1>7. (t \o x) \o y \in Bytes /\ Len((t \o x) \o y) = Len(t \o x) + Len(y)
  BY <1>4, <1>6, ConcatBytes
<1>8. QED
  BY <1>2, <1>3, <1>4, <1>5, <1>6, <1>7

LEMMA HeaderReads ==
  ASSUME NEW end, NEW inner, NEW below, NEW b \in Bytes, NEW o \in Nat,
         Recurses(end, b, below, inner),
         NEW h \in Texts \X Texts, Occurs(b, o, EncodeHeader(h))
  PROVE  Read(end, b, below, o) = Got(HeaderTerm(end, h), o + Len(EncodeHeader(h)))
<1> DEFINE t  == <<SmallTuple, 2>>
           x  == EncodeBinary(h[1])
           y  == EncodeBinary(h[2])
           o1 == o + 2
           o2 == o + 2 + (5 + Len(h[1]))
           o3 == o + 2 + (5 + Len(h[1])) + (5 + Len(h[2]))
<1>1. h[1] \in Texts /\ h[2] \in Texts
  OBVIOUS
<1>2. Len(h[1]) \in Nat /\ Len(h[2]) \in Nat /\ Len(b) \in Nat
  BY <1>1, TextIsBytes, LenProperties DEF Bytes
<1>3. t \in Bytes /\ Len(t) = 2
  <2>1. SmallTuple \in Byte /\ 2 \in Byte
    BY DEF SmallTuple, Byte
  <2>2. QED
    BY <2>1, TwoBytes
<1>4. x \in Bytes /\ Len(x) = 5 + Len(h[1]) /\ y \in Bytes /\ Len(y) = 5 + Len(h[2])
  BY <1>1, BinaryBytes
<1>5. EncodeHeader(h) = (t \o x) \o y
  BY DEF EncodeHeader
<1>6. o1 \in Nat /\ o2 \in Nat /\ o3 = o + Len(EncodeHeader(h))
  <2>1. Len(EncodeHeader(h)) = 2 + (5 + Len(h[1])) + (5 + Len(h[2]))
    BY HeaderBytes
  <2>2. QED
    BY <1>2, <2>1
<1> HIDE DEF t, x, y, o1, o2, o3
<1>7. t \o x \in Bytes /\ Len(t \o x) = Len(t) + Len(x)
  BY <1>3, <1>4, ConcatBytes
<1>8. Occurs(b, o, t) /\ Occurs(b, o + 2, x) /\ Occurs(b, o + Len(t \o x), y)
  <2>1. Occurs(b, o, t \o x) /\ Occurs(b, o + Len(t \o x), y)
    BY <1>2, <1>4, <1>5, <1>7, OccursConcat
  <2>2. QED
    BY <1>2, <1>3, <1>4, <2>1, OccursConcat
<1>9. Occurs(b, o2, y)
  <2>1. o + Len(t \o x) = o2
    BY <1>2, <1>3, <1>4, <1>7 DEF o2
  <2>2. QED
    BY <1>8, <2>1
<1>10. below[o1] = Got(Term("binary", h[1]), o2)
  <2>1. Read(end, b, inner, o1) = Got(Term("binary", h[1]), o1 + (5 + Len(h[1])))
    BY <1>1, <1>6, <1>8, BinaryReads DEF o1, x
  <2>2. QED
    BY <1>6, <2>1 DEF o1, o2, Recurses
<1>11. below[o2] = Got(Term("binary", h[2]), o3)
  <2>1. Read(end, b, inner, o2) = Got(Term("binary", h[2]), o2 + (5 + Len(h[2])))
    BY <1>1, <1>6, <1>9, BinaryReads DEF y
  <2>2. QED
    BY <1>6, <2>1 DEF o2, o3, Recurses
<1> DEFINE terms == <<Term("binary", h[1]), Term("binary", h[2])>>
           at    == [k \in 0 .. 2 |-> IF k = 0 THEN o1 ELSE IF k = 1 THEN o2 ELSE o3]
<1>12. \A k \in 1 .. 2 : below[at[k - 1]] = Got(terms[k], at[k])
  BY <1>10, <1>11
<1>13. Chain(below, terms, at, 2)
  <2>1. terms \in Seq({terms[1], terms[2]}) /\ Len(terms) = 2
    OBVIOUS
  <2> HIDE DEF terms, at
  <2>2. QED
    BY <1>12, <2>1 DEF Chain
<1>14. at[0] = o + 2 /\ at[2] = o3
  BY DEF o1
<1>15. 2 \in Byte /\ 2 <= Len(b)
  BY <1>2, <1>3, <1>8 DEF Occurs, Byte
<1> HIDE DEF at, terms
<1>16. Read(end, b, below, o) = Got(Term(TupleType(end), terms), at[2])
  BY <1>8, <1>13, <1>14, <1>15, TupleReads DEF t
<1>17. QED
  BY <1>6, <1>14, <1>16 DEF HeaderTerm, terms

-----------------------------------------------------------------------------
(* Header lists *)

LEMMA HeadersAre ==
  ASSUME NEW hs \in Headers
  PROVE  /\ Len(hs) \in 0 .. MaxInt /\ Len(hs) \in Nat /\ DOMAIN hs = 1 .. Len(hs)
         /\ \A i \in 1 .. Len(hs) : hs[i] \in Texts \X Texts
<1>1. hs \in Seq(Texts \X Texts) /\ Len(hs) <= MaxInt
  BY Zenon DEF Headers
<1>2. Len(hs) \in Nat /\ DOMAIN hs = 1 .. Len(hs)
  BY <1>1, LenProperties
<1>3. \A i \in 1 .. Len(hs) : hs[i] \in Texts \X Texts
  BY <1>1, ElementOfSeq
<1>4. QED
  BY <1>1, <1>2, <1>3, MaxIntType, SMT

\* The first k headers are the first k - 1 and another one.
LEMMA FirstHeadersSteps ==
  ASSUME NEW hs \in Headers
  PROVE  /\ FirstHeaders(hs)[0] = <<>>
         /\ \A k \in 0 .. Len(hs) : /\ FirstHeaders(hs)[k] \in Bytes
                                    /\ Len(FirstHeaders(hs)[k]) \in Nat
         /\ \A k \in 1 .. Len(hs) :
              FirstHeaders(hs)[k] = FirstHeaders(hs)[k - 1] \o EncodeHeader(hs[k])
<1> DEFINE n     == Len(hs)
           step  == [i \in Nat |-> [s \in Bytes |->
                       IF i < n THEN s \o EncodeHeader(hs[i + 1]) ELSE s]]
           first == FirstHeaders(hs)
<1>1. n \in Nat /\ \A k \in 1 .. n : hs[k] \in Texts \X Texts
  BY HeadersAre
<1> HIDE DEF n
<1>2. ASSUME NEW i \in Nat, NEW s \in Bytes PROVE step[i][s] \in Bytes
  <2>1. CASE i < n
    <3>1. i + 1 \in 1 .. n
      BY <1>1, <2>1
    <3>2. EncodeHeader(hs[i + 1]) \in Bytes
      BY <1>1, <3>1, HeaderBytes
    <3>3. QED
      BY <2>1, <3>2, ConcatBytes
  <2>2. CASE ~(i < n)
    BY <2>2
  <2>3. QED
    BY <2>1, <2>2
<1>3. <<>> \in Bytes
  BY EmptySeq DEF Bytes
<1>4. \A i \in Nat : \A s \in Bytes : i < n => step[i][s] = s \o EncodeHeader(hs[i + 1])
  OBVIOUS
<1> HIDE DEF step
<1>5. PICK f : Solves(f, Bytes, <<>>, step)
  <2>1. Within(Bytes, <<>>, step)
    BY <1>2, <1>3 DEF Within
  <2>2. QED
    BY <2>1, Recursion
<1>6. ASSUME NEW k \in 1 .. n PROVE f[k] = f[k - 1] \o EncodeHeader(hs[k])
  <2>1. k - 1 \in Nat /\ k - 1 + 1 = k /\ k - 1 < n
    BY <1>1
  <2>2. f[k - 1] \in Bytes /\ f[k - 1 + 1] = step[k - 1][f[k - 1]]
    BY <1>5, <2>1 DEF Solves
  <2>3. step[k - 1][f[k - 1]] = f[k - 1] \o EncodeHeader(hs[k - 1 + 1])
    BY <1>4, <2>1, <2>2
  <2>4. QED
    BY <2>1, <2>2, <2>3
<1> DEFINE g == [k \in 0 .. n |-> f[k]]
<1>7. g = [k \in 0 .. n |-> IF k = 0 THEN <<>> ELSE g[k - 1] \o EncodeHeader(hs[k])]
  <2>1. ASSUME NEW k \in 0 .. n
        PROVE  f[k] = IF k = 0 THEN <<>> ELSE g[k - 1] \o EncodeHeader(hs[k])
    <3>1. CASE k = 0
      BY <1>5, <3>1 DEF Solves
    <3>2. CASE k # 0
      <4>1. k \in 1 .. n /\ k - 1 \in 0 .. n
        BY <1>1, <3>2
      <4>2. QED
        BY <1>6, <3>2, <4>1
    <3>3. QED
      BY <3>1, <3>2
  <2>2. QED
    BY <2>1
<1> HIDE DEF g
<1>8. first = [k \in 0 .. n |-> IF k = 0 THEN <<>> ELSE first[k - 1] \o EncodeHeader(hs[k])]
  BY <1>7 DEF FirstHeaders, n
<1> HIDE DEF first
<1>9. first[0] = <<>> /\ \A k \in 1 .. n : first[k] = first[k - 1] \o EncodeHeader(hs[k])
  BY <1>1, <1>8
<1> DEFINE I == {k \in Nat : k <= n => first[k] \in Bytes}
<1>10. 0 \in I
  BY <1>3, <1>9
<1>11. ASSUME NEW k \in I PROVE k + 1 \in I
  <2>1. SUFFICES ASSUME k + 1 <= n PROVE first[k + 1] \in Bytes
    OBVIOUS
  <2>2. k + 1 \in 1 .. n /\ k + 1 - 1 = k /\ first[k] \in Bytes
    BY <1>1, <2>1
  <2>3. EncodeHeader(hs[k + 1]) \in Bytes
    BY <1>1, <2>2, HeaderBytes
  <2>4. first[k + 1] = first[k] \o EncodeHeader(hs[k + 1])
    <3>1. PICK m \in 1 .. n : m = k + 1 /\ m - 1 = k
      BY <2>2
    <3>2. first[m] = first[m - 1] \o EncodeHeader(hs[m])
      BY <1>9
    <3>3. QED
      BY <3>1, <3>2, Zenon
  <2>5. QED
    BY <2>2, <2>3, <2>4, ConcatBytes
<1>12. I = Nat
  <2> HIDE DEF I
  <2>1. I \in SUBSET Nat
    BY DEF I
  <2>2. QED
    BY <1>10, <1>11, <2>1, SetInduction
<1>13. \A k \in 0 .. n : first[k] \in Bytes /\ Len(first[k]) \in Nat
  <2>1. \A k \in 0 .. n : first[k] \in Bytes
    BY <1>1, <1>12
  <2>2. QED
    BY <2>1, LenProperties DEF Bytes
<1>14. QED
  BY <1>9, <1>13 DEF first, n

\* Where all headers occur, the first k of them do.
LEMMA FirstHeadersOccur ==
  ASSUME NEW hs \in Headers, NEW b \in Bytes, NEW o \in Nat,
         Occurs(b, o, FirstHeaders(hs)[Len(hs)])
  PROVE  \A k \in 1 .. Len(hs) :
           Occurs(b, o + Len(FirstHeaders(hs)[k - 1]), EncodeHeader(hs[k]))
<1> DEFINE n     == Len(hs)
           first == FirstHeaders(hs)
<1>1. n \in Nat /\ \A k \in 1 .. n : hs[k] \in Texts \X Texts
  BY HeadersAre
<1>2. /\ \A k \in 0 .. n : first[k] \in Bytes
      /\ \A k \in 1 .. n : first[k] = first[k - 1] \o EncodeHeader(hs[k])
  BY FirstHeadersSteps
<1>3. Len(b) \in Nat /\ Occurs(b, o, first[n])
  BY LenProperties DEF Bytes
<1> HIDE DEF n, first
<1>4. ASSUME NEW k \in 1 .. n, Occurs(b, o, first[k])
      PROVE  Occurs(b, o, first[k - 1]) /\ Occurs(b, o + Len(first[k - 1]), EncodeHeader(hs[k]))
  <2>1. k - 1 \in 0 .. n
    BY <1>1
  <2>2. first[k - 1] \in Bytes /\ EncodeHeader(hs[k]) \in Bytes
    BY <1>1, <1>2, <2>1, HeaderBytes
  <2>3. Occurs(b, o, first[k - 1] \o EncodeHeader(hs[k]))
    BY <1>2, <1>4
  <2>4. QED
    BY <1>3, <2>2, <2>3, OccursConcat
<1> DEFINE I == {j \in Nat : j <= n => Occurs(b, o, first[n - j])}
<1>5. 0 \in I
  BY <1>1, <1>3
<1>6. ASSUME NEW j \in I PROVE j + 1 \in I
  <2>1. SUFFICES ASSUME j + 1 <= n PROVE Occurs(b, o, first[n - (j + 1)])
    OBVIOUS
  <2>2. n - j \in 1 .. n /\ n - (j + 1) = n - j - 1 /\ Occurs(b, o, first[n - j])
    BY <1>1, <2>1
  <2>3. QED
    BY <1>4, <2>2
<1>7. I = Nat
  <2> HIDE DEF I
  <2>1. I \in SUBSET Nat
    BY DEF I
  <2>2. QED
    BY <1>5, <1>6, <2>1, SetInduction
<1>8. ASSUME NEW k \in 1 .. n PROVE Occurs(b, o + Len(first[k - 1]), EncodeHeader(hs[k]))
  <2>1. n - k \in Nat /\ n - k <= n /\ n - (n - k) = k
    BY <1>1
  <2>2. Occurs(b, o, first[n - (n - k)])
    BY <1>7, <2>1
  <2>3. QED
    BY <1>4, <2>1, <2>2
<1>9. QED
  BY <1>8 DEF n, first

\* A header takes at least a byte.
LEMMA HeadersTakeBytes ==
  ASSUME NEW hs \in Headers
  PROVE  Len(hs) <= Len(FirstHeaders(hs)[Len(hs)])
<1> DEFINE n     == Len(hs)
           first == FirstHeaders(hs)
<1>1. n \in Nat /\ \A k \in 1 .. n : hs[k] \in Texts \X Texts
  BY HeadersAre
<1>2. /\ \A k \in 0 .. n : first[k] \in Bytes /\ Len(first[k]) \in Nat
      /\ \A k \in 1 .. n : first[k] = first[k - 1] \o EncodeHeader(hs[k])
  BY FirstHeadersSteps
<1> HIDE DEF n, first
<1>3. ASSUME NEW k \in 1 .. n PROVE Len(first[k]) >= Len(first[k - 1]) + 1
  <2>1. k - 1 \in 0 .. n /\ k \in 0 .. n
    BY <1>1
  <2>2. /\ first[k - 1] \in Bytes /\ Len(first[k - 1]) \in Nat
        /\ EncodeHeader(hs[k]) \in Bytes /\ hs[k] \in Texts \X Texts
    BY <1>1, <1>2, <2>1, HeaderBytes
  <2>3. Len(first[k]) = Len(first[k - 1]) + Len(EncodeHeader(hs[k]))
    BY <1>2, <2>2, ConcatBytes
  <2>4. Len(EncodeHeader(hs[k])) \in Nat /\ Len(EncodeHeader(hs[k])) >= 1
    BY <2>2, HeaderBytes
  <2>5. QED
    BY <2>2, <2>3, <2>4
<1> DEFINE I == {k \in Nat : k <= n => k <= Len(first[k])}
<1>4. 0 \in I
  BY <1>1, <1>2
<1>5. ASSUME NEW k \in I PROVE k + 1 \in I
  <2>1. SUFFICES ASSUME k + 1 <= n PROVE k + 1 <= Len(first[k + 1])
    OBVIOUS
  <2>2. k + 1 \in 1 .. n /\ k + 1 - 1 = k /\ k \in 0 .. n /\ k + 1 \in 0 .. n
    BY <1>1, <2>1
  <2>3. Len(first[k + 1]) >= Len(first[k]) + 1
    <3>1. Len(first[k + 1]) >= Len(first[k + 1 - 1]) + 1
      BY <1>3, <2>2
    <3>2. QED
      BY <2>2, <3>1, Zenon
  <2>4. Len(first[k]) \in Nat /\ Len(first[k + 1]) \in Nat /\ k <= Len(first[k])
    BY <1>2, <2>2
  <2>5. QED
    BY <2>2, <2>3, <2>4
<1>6. I = Nat
  <2> HIDE DEF I
  <2>1. I \in SUBSET Nat
    BY DEF I
  <2>2. QED
    BY <1>4, <1>5, <2>1, SetInduction
<1>7. n <= Len(first[n])
  BY <1>1, <1>6
<1>8. QED
  BY <1>7 DEF n, first

\* A list that holds something is the tag and its length, then the headers, then a nil.
LEMMA HeadersBytes ==
  ASSUME NEW hs \in Headers
  PROVE  /\ EncodeHeaders(hs) \in Bytes /\ Len(EncodeHeaders(hs)) \in Nat
         /\ hs = <<>> => EncodeHeaders(hs) = <<Nil>>
         /\ hs # <<>> =>
              LET t == <<List>> \o U32(Len(hs))
                  f == FirstHeaders(hs)[Len(hs)]
              IN  /\ t \in Bytes /\ Len(t) = 5 /\ f \in Bytes /\ Len(f) \in Nat
                  /\ t \o f \in Bytes /\ Len(t \o f) = 5 + Len(f)
                  /\ EncodeHeaders(hs) = (t \o f) \o <<Nil>>
                  /\ Len(EncodeHeaders(hs)) = 5 + Len(f) + 1
<1> DEFINE t == <<List>> \o U32(Len(hs))
           f == FirstHeaders(hs)[Len(hs)]
           z == <<Nil>>
<1>1. z \in Bytes /\ Len(z) = 1 /\ <<>> \in Bytes
  BY OneByte, EmptySeq, SMT DEF Nil, Byte, Bytes
<1>2. t \in Bytes /\ Len(t) = 5
  <2>1. List \in Byte /\ Len(hs) \in 0 .. MaxInt
    BY HeadersAre DEF List, Byte
  <2>2. QED
    BY <2>1, TaggedBytes
<1>3. f \in Bytes /\ Len(f) \in Nat
  <2>1. Len(hs) \in 0 .. Len(hs)
    BY HeadersAre
  <2>2. QED
    BY <2>1, FirstHeadersSteps
<1>4. EncodeHeaders(hs) = (IF hs = <<>> THEN <<>> ELSE t \o f) \o z
  BY DEF EncodeHeaders
<1> HIDE DEF t, f, z
<1>5. t \o f \in Bytes /\ Len(t \o f) = 5 + Len(f)
  BY <1>2, <1>3, ConcatBytes
<1>6. (t \o f) \o z \in Bytes /\ Len((t \o f) \o z) = 5 + Len(f) + 1
  BY <1>1, <1>5, ConcatBytes
<1>7. <<>> \o z = z
  BY <1>1, ConcatEmptySeq DEF Bytes
<1>8. Len(f) \in Nat /\ 5 + Len(f) + 1 \in Nat
  BY <1>3
<1>9. QED
  <2>1. CASE hs = <<>>
    BY <1>1, <1>4, <1>7, <2>1 DEF z
  <2>2. CASE hs # <<>>
    BY <1>2, <1>3, <1>4, <1>5, <1>6, <1>8, <2>2, Zenon DEF t, f, z
  <2>3. QED
    BY <2>1, <2>2, Zenon

HeaderTerms(end, hs) == [i \in 1 .. Len(hs) |-> HeaderTerm(end, hs[i])]

LEMMA HeaderTermsAre ==
  ASSUME NEW end, NEW hs \in Headers
  PROVE  /\ Len(HeaderTerms(end, hs)) = Len(hs)
         /\ \E T : HeaderTerms(end, hs) \in Seq(T)
         /\ hs = <<>> => HeaderTerms(end, hs) = <<>>
<1> DEFINE n     == Len(hs)
           T     == {HeaderTerm(end, hs[i]) : i \in 1 .. n}
           terms == [i \in 1 .. n |-> HeaderTerm(end, hs[i])]
<1>1. n \in Nat /\ (hs = <<>> => n = 0)
  BY HeadersAre
<1> HIDE DEF n
<1>2. terms \in [1 .. n -> T]
  OBVIOUS
<1>3. terms \in Seq(T) /\ Len(terms) = n
  <2> HIDE DEF terms, T
  <2>1. QED
    BY <1>1, <1>2
<1> HIDE DEF T
<1>4. n = 0 => terms = <<>>
  <2> HIDE DEF terms
  <2>1. QED
    BY <1>3, EmptySeq
<1>5. HeaderTerms(end, hs) = terms
  BY DEF HeaderTerms, n
<1> HIDE DEF terms
<1>6. QED
  BY <1>1, <1>3, <1>4, <1>5 DEF n

LEMMA Sums ==
  \A o, l, m \in Nat :
    /\ o + 5 + l \in Nat /\ o + 5 + l = o + (5 + l) /\ o + 5 + 0 = o + 5
    /\ o + 5 + (l + m) = o + 5 + l + m
BY SMT

LEMMA HeadersRead ==
  ASSUME NEW end, NEW inner, NEW below, NEW within, NEW b \in Bytes, NEW o \in Nat,
         Recurses(end, b, below, inner), Recurses(end, b, within, below),
         NEW hs \in Headers, Occurs(b, o, EncodeHeaders(hs))
  PROVE  Read(end, b, within, o)
           = Got(Term(ListType(end), HeaderTerms(end, hs)), o + Len(EncodeHeaders(hs)))
<1>1. Len(b) \in Nat
  BY LenProperties DEF Bytes
<1>2. CASE hs = <<>>
  <2>1. ByteAt(b, o) = Nil /\ Len(EncodeHeaders(hs)) = 1 /\ HeaderTerms(end, hs) = <<>>
    <3>1. EncodeHeaders(hs) = <<Nil>> /\ HeaderTerms(end, hs) = <<>>
      BY <1>2, HeadersBytes, HeaderTermsAre
    <3>2. Len(<<Nil>>) = 1
      OBVIOUS
    <3>3. QED
      BY <1>1, <3>1, <3>2, OccursByte, Zenon
  <2>2. ReadTerm(b, within, o) = Got(Term("array", <<>>), o + 1)
    BY <2>1, SMT DEF ReadTerm, SmallInteger, Integer32, SmallTuple, Nil, List, Binary
  <2>3. ErlTerm(b, within, o) = Got(Term("list", <<>>), o + 1)
    BY <2>1, SMT DEF ErlTerm, SmallInteger, Integer32, SmallTuple, SmallAtom, Nil, List, Binary
  <2>4. QED
    BY <2>1, <2>2, <2>3, Zenon DEF Read, ListType
<1>3. CASE hs # <<>>
  <2> DEFINE n     == Len(hs)
             first == FirstHeaders(hs)
             t     == <<List>> \o U32(n)
             f     == first[n]
             z     == <<Nil>>
             terms == HeaderTerms(end, hs)
             at    == [k \in 0 .. n |-> o + 5 + Len(first[k])]
  <2>1. n \in Nat /\ n \in 0 .. MaxInt /\ \A k \in 1 .. n : hs[k] \in Texts \X Texts
    BY HeadersAre
  <2>2. /\ first[0] = <<>>
        /\ \A k \in 0 .. n : first[k] \in Bytes /\ Len(first[k]) \in Nat
        /\ \A k \in 1 .. n : first[k] = first[k - 1] \o EncodeHeader(hs[k])
    BY FirstHeadersSteps
  <2>3. /\ t \in Bytes /\ Len(t) = 5 /\ f \in Bytes /\ Len(f) \in Nat
        /\ t \o f \in Bytes /\ Len(t \o f) = 5 + Len(f)
        /\ EncodeHeaders(hs) = (t \o f) \o z
        /\ Len(EncodeHeaders(hs)) = 5 + Len(f) + 1
    BY <1>3, HeadersBytes, Zenon
  <2>4. z \in Bytes
    BY OneByte, SMT DEF Nil, Byte
  <2>5. Occurs(b, o, t) /\ Occurs(b, o + 5, f) /\ Occurs(b, o + (5 + Len(f)), z)
    <3> HIDE DEF t, f, z
    <3>1. Occurs(b, o, t \o f) /\ Occurs(b, o + Len(t \o f), z)
      BY <1>1, <2>3, <2>4, OccursConcat
    <3>2. Occurs(b, o, t) /\ Occurs(b, o + Len(t), f)
      BY <1>1, <2>3, <3>1, OccursConcat
    <3>3. QED
      BY <2>3, <3>1, <3>2
  <2>6. o + 5 \in Nat /\ o + (5 + Len(f)) \in Nat
    BY <2>3
  <2>7. \A k \in 1 .. n : Occurs(b, o + 5 + Len(first[k - 1]), EncodeHeader(hs[k]))
    BY <2>5, <2>6, FirstHeadersOccur
  <2>8. ByteAt(b, o + (5 + Len(f))) = Nil
    BY <1>1, <2>5, <2>6, OccursByte
  <2>9. n <= Len(f)
    BY HeadersTakeBytes
  <2>10. n <= Len(b)
    <3>1. o + 5 + Len(f) <= Len(b)
      BY <2>5 DEF Occurs
    <3> HIDE DEF n, f
    <3>2. QED
      BY <1>1, <2>1, <2>3, <2>9, <3>1
  <2> HIDE DEF n, first, t, f, z, terms
  <2>11. ASSUME NEW k \in 1 .. n PROVE within[at[k - 1]] = Got(terms[k], at[k])
    <3> DEFINE p == o + 5 + Len(first[k - 1])
    <3>1. k - 1 \in 0 .. n /\ k \in 0 .. n
      BY <2>1
    <3>2. first[k - 1] \in Bytes /\ Len(first[k - 1]) \in Nat /\ EncodeHeader(hs[k]) \in Bytes
          /\ Len(EncodeHeader(hs[k])) \in Nat
      BY <2>1, <2>2, <3>1, HeaderBytes
    <3>3. p \in Nat /\ Occurs(b, p, EncodeHeader(hs[k])) /\ hs[k] \in Texts \X Texts
      <4>1. p \in Nat
        BY <3>2, Sums, Zenon
      <4>2. QED
        BY <2>1, <2>7, <4>1, Zenon
    <3>4. Len(first[k]) = Len(first[k - 1]) + Len(EncodeHeader(hs[k]))
      BY <2>2, <3>2, ConcatBytes
    <3>5. at[k - 1] = p /\ at[k] = p + Len(EncodeHeader(hs[k]))
      <4>1. at[k - 1] = p /\ at[k] = o + 5 + Len(first[k])
        BY <3>1
      <4> HIDE DEF at
      <4>2. o + 5 + Len(first[k]) = p + Len(EncodeHeader(hs[k]))
        <5> DEFINE l == Len(first[k - 1])
                   m == Len(EncodeHeader(hs[k]))
        <5>1. l \in Nat /\ m \in Nat /\ Len(first[k]) = l + m
          BY <3>2, <3>4
        <5>2. o + 5 + (l + m) = o + 5 + l + m
          BY <5>1, Sums, Zenon
        <5>3. QED
          BY <5>1, <5>2, Zenon
      <4>3. QED
        BY <4>1, <4>2, Zenon
    <3>6. terms[k] = HeaderTerm(end, hs[k])
      BY DEF terms, HeaderTerms, n
    <3> HIDE DEF p, at
    <3>7. Read(end, b, below, p) = Got(HeaderTerm(end, hs[k]), p + Len(EncodeHeader(hs[k])))
      BY <3>3, HeaderReads
    <3>8. QED
      BY <3>3, <3>5, <3>6, <3>7, Zenon DEF Recurses
  <2>12. Chain(within, terms, at, n)
    <3>1. Len(terms) = n /\ \E T : terms \in Seq(T)
      BY HeaderTermsAre DEF terms, n
    <3> HIDE DEF at
    <3>2. QED
      BY <2>1, <2>11, <3>1, Zenon DEF Chain
  <2>13. at[0] = o + 5 /\ at[n] = o + (5 + Len(f))
    <3>1. at[0] = o + 5 + Len(first[0]) /\ at[n] = o + 5 + Len(first[n])
      BY <2>1
    <3>2. Len(first[0]) = 0
      BY <2>2
    <3>3. f = first[n]
      BY DEF f, first
    <3> HIDE DEF at
    <3>4. QED
      BY <2>3, <3>1, <3>2, <3>3, Sums, Zenon
  <2> HIDE DEF at
  <2>14. ByteAt(b, at[n]) = Nil
    BY <2>8, <2>13
  <2>15. Read(end, b, within, o) = Got(Term(ListType(end), terms), at[n] + 1)
    BY <2>1, <2>5, <2>10, <2>12, <2>13, <2>14, ListReads DEF t
  <2>16. at[n] + 1 = o + Len(EncodeHeaders(hs))
    BY <2>3, <2>13
  <2>17. QED
    BY <2>15, <2>16 DEF terms
<1>4. QED
  BY <1>2, <1>3

-----------------------------------------------------------------------------
(* What requests and responses begin and end with *)

LEMMA IntegerReads ==
  ASSUME NEW n \in 0 .. MaxInt
  PROVE  /\ EncodeInteger(n) \in Bytes
         /\ \A below : \A b \in Bytes, o \in Nat :
              Occurs(b, o, EncodeInteger(n)) =>
                Read("worker", b, below, o) = Got(Term("integer", n), o + Len(EncodeInteger(n)))
<1>1. CASE n \in Byte
  <2>1. EncodeInteger(n) = <<SmallInteger, n>>
    BY <1>1 DEF EncodeInteger
  <2>2. <<SmallInteger, n>> \in Bytes /\ Len(<<SmallInteger, n>>) = 2
    <3>1. SmallInteger \in Byte
      BY DEF SmallInteger, Byte
    <3>2. QED
      BY <1>1, <3>1, TwoBytes
  <2>3. ASSUME NEW below, NEW b \in Bytes, NEW o \in Nat, Occurs(b, o, <<SmallInteger, n>>)
        PROVE  Read("worker", b, below, o) = Got(Term("integer", n), o + 2)
    <3>1. Len(b) \in Nat
      BY LenProperties DEF Bytes
    <3>2. ByteAt(b, o) = SmallInteger /\ ByteAt(b, o + 1) = n /\ Fits(b, o, 2)
      BY <2>3, <3>1 DEF Occurs, ByteAt, Fits
    <3>3. ReadTerm(b, below, o) = Got(Term("integer", n), o + 2)
      BY <3>2, SMT DEF ReadTerm, SmallInteger, Integer32, SmallTuple, Nil, List, Binary
    <3>4. QED
      BY <3>3, SMT DEF Read
  <2>4. QED
    BY <2>1, <2>2, <2>3, Zenon
<1>2. CASE n \notin Byte
  <2> DEFINE t == <<Integer32>> \o U32(n)
  <2>1. EncodeInteger(n) = t
    BY <1>2 DEF EncodeInteger
  <2>2. Integer32 \in Byte
    BY DEF Integer32, Byte
  <2>3. t \in Bytes /\ Len(t) = 5
    BY <2>2, TaggedBytes
  <2>4. ASSUME NEW below, NEW b \in Bytes, NEW o \in Nat, Occurs(b, o, t)
        PROVE  Read("worker", b, below, o) = Got(Term("integer", n), o + 5)
    <3>1. Len(b) \in Nat
      BY LenProperties DEF Bytes
    <3>2. ByteAt(b, o) = Integer32 /\ Fits(b, o + 1, 4) /\ GetInt32(b, o + 1) = n
      BY <2>2, <2>4, TaggedReads
    <3>3. Fits(b, o, 5)
      BY <3>1, <3>2 DEF Fits
    <3>4. ReadTerm(b, below, o) = Got(Term("integer", n), o + 5)
      BY <3>2, <3>3, SMT DEF ReadTerm, SmallInteger, Integer32, SmallTuple, Nil, List, Binary
    <3>5. QED
      BY <3>4, SMT DEF Read
  <2> HIDE DEF t
  <2>5. QED
    BY <2>1, <2>3, <2>4, Zenon
<1>3. QED
  BY <1>1, <1>2, Zenon

\* A message is deep enough for a text in a header in a list in a tuple.
LEMMA ReadsRecurse ==
  ASSUME NEW end, NEW b \in Bytes, Len(b) >= 4
  PROVE  \E r1, r2, r3, r4 :
           /\ Reads(end, b)[Len(b)][1] = Read(end, b, r1, 1)
           /\ Recurses(end, b, r1, r2) /\ Recurses(end, b, r2, r3) /\ Recurses(end, b, r3, r4)
<1> DEFINE l     == Len(b)
           reads == Reads(end, b)
<1>1. l \in Nat /\ l >= 4
  BY LenProperties DEF Bytes
<1> HIDE DEF l
<1>2. /\ l - 1 \in Nat /\ l - 2 \in Nat /\ l - 3 \in Nat /\ l - 4 \in Nat
      /\ l - 1 + 1 = l /\ l - 2 + 1 = l - 1 /\ l - 3 + 1 = l - 2 /\ l - 4 + 1 = l - 3
  BY <1>1
<1>3. \A d \in Nat : \A o \in Nat : reads[d + 1][o] = Read(end, b, reads[d], o)
  BY ReadsSteps
<1> HIDE DEF reads
<1>4. reads[l][1] = Read(end, b, reads[l - 1], 1)
  <2>1. 1 \in Nat
    OBVIOUS
  <2>2. reads[l - 1 + 1][1] = Read(end, b, reads[l - 1], 1)
    BY <1>2, <1>3, <2>1, Zenon
  <2>3. QED
    BY <1>2, <2>2, Zenon
<1>5. ASSUME NEW d \in Nat, NEW c, c = d + 1 PROVE Recurses(end, b, reads[c], reads[d])
  BY <1>3, <1>5, Zenon DEF Recurses
<1>6. /\ Recurses(end, b, reads[l - 1], reads[l - 2])
      /\ Recurses(end, b, reads[l - 2], reads[l - 3])
      /\ Recurses(end, b, reads[l - 3], reads[l - 4])
  BY <1>2, <1>5, Zenon
<1>7. QED
  BY <1>4, <1>6, Zenon DEF reads, l

\* At offset o of b a decoder reads the headers hs up to p, and there the binary s up to q.
EndRead(b, o, hs, s, p, q) ==
  \A end, r1, r2, r3, r4 :
    /\ Recurses(end, b, r1, r2) /\ Recurses(end, b, r2, r3) /\ Recurses(end, b, r3, r4)
    => /\ r1[o] = Got(Term(ListType(end), HeaderTerms(end, hs)), p)
       /\ r1[p] = Got(Term("binary", s), q)

\* Headers and a body after x are read where x ends.
LEMMA EndReads ==
  ASSUME NEW x \in Bytes, NEW hs \in Headers, NEW s \in Texts, NEW b,
         b = x \o EncodeHeaders(hs) \o EncodeBinary(s)
  PROVE  /\ b \in Bytes /\ Len(b) \in Nat /\ Len(b) >= Len(x) + 5 /\ Occurs(b, 0, x)
         /\ \E p, q \in Nat : EndRead(b, Len(x), hs, s, p, q)
<1> DEFINE h == EncodeHeaders(hs)
           y == EncodeBinary(s)
           p == Len(x) + Len(h)
           q == p + (5 + Len(s))
<1>1. /\ Len(x) \in Nat /\ h \in Bytes /\ Len(h) \in Nat /\ y \in Bytes /\ Len(y) = 5 + Len(s)
      /\ Len(s) \in Nat
  <2>1. Len(x) \in Nat
    BY LenProperties DEF Bytes
  <2>2. h \in Bytes /\ Len(h) \in Nat
    BY HeadersBytes
  <2>3. QED
    BY <2>1, <2>2, BinaryBytes, TextIsBytes
<1> HIDE DEF h, y
<1>2. x \o h \in Bytes /\ Len(x \o h) = p /\ b = (x \o h) \o y
  BY <1>1, ConcatBytes DEF h, y
<1>3. b \in Bytes /\ Len(b) = p + Len(y) /\ Len(b) \in Nat
  BY <1>1, <1>2, ConcatBytes, LenProperties DEF Bytes
<1>4. p \in Nat /\ q \in Nat /\ Len(b) >= Len(x) + 5
  BY <1>1, <1>3
<1>5. Occurs(b, 0, x \o h) /\ Occurs(b, p, y)
  <2>1. Occurs(b, 0, (x \o h) \o y)
    BY <1>2, <1>3, OccursInItself
  <2> HIDE DEF p
  <2>2. Occurs(b, 0, x \o h) /\ Occurs(b, 0 + p, y)
    BY <1>1, <1>2, <1>3, <2>1, OccursConcat
  <2>3. QED
    BY <1>4, <2>2
<1>6. Occurs(b, 0, x) /\ Occurs(b, Len(x), h)
  <2>1. Occurs(b, 0, x) /\ Occurs(b, 0 + Len(x), h)
    BY <1>1, <1>3, <1>5, OccursConcat
  <2>2. QED
    BY <1>1, <2>1
<1>7. ASSUME NEW end, NEW r1, NEW r2, NEW r3, NEW r4,
             Recurses(end, b, r1, r2), Recurses(end, b, r2, r3), Recurses(end, b, r3, r4)
      PROVE  /\ r1[Len(x)] = Got(Term(ListType(end), HeaderTerms(end, hs)), p)
             /\ r1[p] = Got(Term("binary", s), q)
  <2>1. Read(end, b, r2, Len(x)) = Got(Term(ListType(end), HeaderTerms(end, hs)), Len(x) + Len(h))
    BY <1>1, <1>3, <1>6, <1>7, HeadersRead DEF h
  <2>2. Read(end, b, r2, p) = Got(Term("binary", s), p + (5 + Len(s)))
    <3> HIDE DEF p
    <3>1. QED
      BY <1>3, <1>4, <1>5, BinaryReads DEF y
  <2>3. r1[Len(x)] = Read(end, b, r2, Len(x)) /\ r1[p] = Read(end, b, r2, p)
    BY <1>1, <1>4, <1>7, Zenon DEF Recurses
  <2>4. QED
    BY <2>1, <2>2, <2>3, Zenon
<1> HIDE DEF p, q
<1>8. QED
  BY <1>3, <1>4, <1>6, <1>7, Zenon DEF EndRead

\* What both ends make of the terms of the headers.
LEMMA HeadersBack ==
  ASSUME NEW end, NEW hs \in Headers
  PROVE  LET terms == HeaderTerms(end, hs)
         IN  /\ DOMAIN terms = 1 .. Len(hs)
             /\ \A i \in DOMAIN terms :
                  /\ terms[i].type = TupleType(end)
                  /\ terms[i].value = <<Term("binary", hs[i][1]), Term("binary", hs[i][2])>>
             /\ [i \in DOMAIN terms |-> <<hs[i][1], hs[i][2]>>] = hs
<1> DEFINE terms == HeaderTerms(end, hs)
           n     == Len(hs)
<1>1. DOMAIN terms = 1 .. n /\ \A i \in 1 .. n : terms[i] = HeaderTerm(end, hs[i])
  BY DEF HeaderTerms
<1>2. \A i \in 1 .. n : hs[i] = <<hs[i][1], hs[i][2]>>
  BY HeadersAre
<1>3. hs = [i \in 1 .. n |-> hs[i]]
  <2>1. hs \in Seq(Texts \X Texts)
    BY Zenon DEF Headers
  <2>2. QED
    BY <2>1, LenProperties
<1> HIDE DEF n, terms
<1>4. \A i \in 1 .. n :
        /\ terms[i].type = TupleType(end)
        /\ terms[i].value = <<Term("binary", hs[i][1]), Term("binary", hs[i][2])>>
  BY <1>1 DEF HeaderTerm, Term
<1>5. [i \in 1 .. n |-> <<hs[i][1], hs[i][2]>>] = hs
  BY <1>2, <1>3
<1>6. QED
  BY <1>1, <1>4, <1>5, Zenon DEF terms, n

-----------------------------------------------------------------------------
(* Responses *)

LEMMA ResponseDecodes ==
  ASSUME NEW r, r.status \in 0 .. MaxInt, r.headers \in Headers, r.body \in Texts
  PROVE  \E q : DecodeEtf(EncodeResponse(r))
                  = Got(Term("array", <<Term("integer", r.status),
                                        Term("array", HeaderTerms("worker", r.headers)),
                                        Term("binary", r.body)>>), q)
<1> DEFINE b  == EncodeResponse(r)
           v  == <<Version, SmallTuple, 3>>
           i  == EncodeInteger(r.status)
           x  == v \o i
           t1 == Term("integer", r.status)
           t2 == Term("array", HeaderTerms("worker", r.headers))
           t3 == Term("binary", r.body)
           terms == <<t1, t2, t3>>
<1>1. v \in Bytes /\ Len(v) = 3
  BY DEF Bytes, Byte, Version, SmallTuple
<1>2. i \in Bytes /\ Len(i) \in Nat
  <2>1. i \in Bytes
    BY IntegerReads
  <2>2. QED
    BY <2>1, LenProperties DEF Bytes
<1>3. b = x \o EncodeHeaders(r.headers) \o EncodeBinary(r.body)
  BY DEF EncodeResponse
<1> HIDE DEF b, i
<1>4. x \in Bytes /\ Len(x) = 3 + Len(i) /\ Len(x) \in Nat
  <2> HIDE DEF v
  <2>1. x \in Bytes /\ Len(x) = Len(v) + Len(i)
    BY <1>1, <1>2, ConcatBytes
  <2> HIDE DEF x
  <2>2. QED
    BY <1>1, <1>2, <2>1
<1> HIDE DEF x
<1>5. /\ b \in Bytes /\ Len(b) \in Nat /\ Len(b) >= Len(x) + 5 /\ Occurs(b, 0, x)
  BY <1>3, <1>4, EndReads
<1>6. PICK p \in Nat, q \in Nat : EndRead(b, Len(x), r.headers, r.body, p, q)
  BY <1>3, <1>4, EndReads
<1>7. Len(b) >= 4 /\ Len(b) >= 3
  BY <1>2, <1>4, <1>5
<1>8. PICK r1, r2, r3, r4 :
        /\ Reads("worker", b)[Len(b)][1] = Read("worker", b, r1, 1)
        /\ Recurses("worker", b, r1, r2) /\ Recurses("worker", b, r2, r3)
        /\ Recurses("worker", b, r3, r4)
  BY <1>5, <1>7, ReadsRecurse, Zenon
<1>9. Occurs(b, 0, v) /\ Occurs(b, 3, i)
  <2> HIDE DEF v
  <2>1. Occurs(b, 0, v) /\ Occurs(b, 0 + Len(v), i)
    BY <1>1, <1>2, <1>5, OccursConcat DEF x
  <2>2. QED
    BY <1>1, <2>1
<1>10. ByteAt(b, 0) = Version /\ Occurs(b, 1, <<SmallTuple, 3>>)
  BY <1>5, <1>7, <1>9 DEF Occurs, ByteAt
<1>11. r1[3] = Got(t1, Len(x))
  <2>1. Read("worker", b, r2, 3) = Got(t1, 3 + Len(i))
    <3>1. 3 \in Nat
      OBVIOUS
    <3>2. QED
      BY <1>5, <1>9, <3>1, IntegerReads, Zenon DEF i
  <2>2. r1[3] = Read("worker", b, r2, 3)
    BY <1>8 DEF Recurses
  <2>3. QED
    BY <1>4, <2>1, <2>2, Zenon
<1>12. r1[Len(x)] = Got(t2, p) /\ r1[p] = Got(t3, q)
  <2>1. ListType("worker") = "array"
    BY DEF ListType
  <2>2. QED
    BY <1>6, <1>8, <2>1, Zenon DEF EndRead
<1> HIDE DEF t1, t2, t3
<1> DEFINE at == [k \in 0 .. 3 |-> IF k = 0 THEN 3 ELSE IF k = 1 THEN Len(x)
                                    ELSE IF k = 2 THEN p ELSE q]
<1>13. Chain(r1, terms, at, 3)
  <2>1. \A k \in 1 .. 3 : r1[at[k - 1]] = Got(terms[k], at[k])
    BY <1>11, <1>12
  <2>2. terms \in Seq({t1, t2, t3}) /\ Len(terms) = 3
    OBVIOUS
  <2> HIDE DEF terms, at
  <2>3. QED
    BY <2>1, <2>2 DEF Chain
<1>14. at[0] = 1 + 2 /\ 3 \in Byte /\ 1 \in Nat
  BY DEF Byte
<1> HIDE DEF terms, at
<1>15. Read("worker", b, r1, 1) = Got(Term(TupleType("worker"), terms), at[3])
  BY <1>5, <1>7, <1>10, <1>13, <1>14, TupleReads
<1>16. DecodeEtf(b) = Got(Term("array", terms), at[3])
  <2>1. TupleType("worker") = "array"
    BY DEF TupleType
  <2>2. DecodeEtf(b) = Reads("worker", b)[Len(b)][1]
    BY <1>10 DEF DecodeEtf, Decode
  <2>3. QED
    BY <1>8, <1>15, <2>1, <2>2, Zenon
<1>17. QED
  BY <1>16, Zenon DEF b, terms, t1, t2, t3

LEMMA ResponseRoundTrip ==
  ASSUME NEW r, r.status \in 0 .. MaxInt, r.headers \in Headers, r.body \in Texts
  PROVE  ParseResponse(EncodeResponse(r)) =
           [ok |-> TRUE, status |-> Term("integer", r.status),
            body |-> Term("binary", r.body), headers |-> r.headers]
<1> DEFINE b     == EncodeResponse(r)
           d     == DecodeEtf(b)
           hs    == HeaderTerms("worker", r.headers)
           terms == <<Term("integer", r.status), Term("array", hs), Term("binary", r.body)>>
<1>1. PICK q : d = Got(Term("array", terms), q)
  BY ResponseDecodes
<1> HIDE DEF b, d
<1>2. /\ d.ok /\ d.term.type = "array"
      /\ Item(d.term, 1) = Term("integer", r.status) /\ Item(d.term, 2) = Term("array", hs)
      /\ Item(d.term, 3) = Term("binary", r.body)
  <2>1. d.ok /\ d.term = Term("array", terms)
    BY <1>1, Zenon DEF Got
  <2>2. d.term.type = "array" /\ d.term.value = terms
    BY <2>1 DEF Term
  <2>3. QED
    BY <2>1, <2>2 DEF Item
<1>3. Item(d.term, 2).type = "array" /\ Item(d.term, 2).value = hs
  BY <1>2 DEF Term
<1>4. /\ \A i \in DOMAIN hs :
           /\ hs[i].type = "array"
           /\ hs[i].value = <<Term("binary", r.headers[i][1]), Term("binary", r.headers[i][2])>>
      /\ [i \in DOMAIN hs |-> <<r.headers[i][1], r.headers[i][2]>>] = r.headers
  BY HeadersBack, SMTT(30) DEF TupleType
<1> HIDE DEF hs, terms
<1>5. \A i \in DOMAIN hs : /\ Item(hs[i], 1) = Term("binary", r.headers[i][1])
                           /\ Item(hs[i], 2) = Term("binary", r.headers[i][2])
  BY <1>4 DEF Item
<1>6. \A i \in DOMAIN hs : \A k \in {1, 2} : Item(hs[i], k).type \in {"binary", "undefined"}
  BY <1>5 DEF Term
<1>7. \A i \in DOMAIN hs : /\ Text(Item(hs[i], 1)) = r.headers[i][1]
                           /\ Text(Item(hs[i], 2)) = r.headers[i][2]
  BY <1>5 DEF Term, Text
<1>8. [i \in DOMAIN hs |-> <<Text(Item(hs[i], 1)), Text(Item(hs[i], 2))>>] = r.headers
  BY <1>4, <1>7
<1>9. ParseResponse(b) =
        [ok |-> TRUE, status |-> Item(d.term, 1), body |-> Item(d.term, 3),
         headers |-> [i \in DOMAIN hs |-> <<Text(Item(hs[i], 1)), Text(Item(hs[i], 2))>>]]
  BY <1>2, <1>3, <1>4, <1>6, Zenon DEF ParseResponse, d
<1>10. QED
  BY <1>2, <1>8, <1>9, Zenon DEF b

-----------------------------------------------------------------------------
(* Requests *)

LEMMA WarmupBytes == Warmup \in Bytes /\ Len(Warmup) = 6
BY DEF Warmup, Bytes, Byte

\* The bytes of a request before its method: its tag, its arity and, for the warm-up, an atom.
RequestTag(r) ==
  <<Version, SmallTuple>>
  \o (IF r.warmup THEN <<5, SmallAtom, Len(Warmup)>> \o Warmup ELSE <<4>>)

LEMMA RequestTagReads ==
  ASSUME NEW r
  PROVE  /\ RequestTag(r) \in Bytes /\ Len(RequestTag(r)) = IF r.warmup THEN 11 ELSE 3
         /\ \A b \in Bytes : Occurs(b, 0, RequestTag(r)) =>
              /\ ByteAt(b, 0) = Version
              /\ Occurs(b, 1, <<SmallTuple, IF r.warmup THEN 5 ELSE 4>>)
              /\ r.warmup => \A below : Read("guest", b, below, 3) = Got(Term("atom", Warmup), 11)
<1> DEFINE v == <<Version, SmallTuple>>
           a == <<5, SmallAtom, Len(Warmup)>>
           w == Warmup
           f == <<4>>
<1>1. v \in Bytes /\ Len(v) = 2 /\ f \in Bytes /\ Len(f) = 1
  BY DEF Version, SmallTuple, Bytes, Byte
<1>2. a \in Bytes /\ Len(a) = 3 /\ w \in Bytes /\ Len(w) = 6
  BY WarmupBytes DEF SmallAtom, Bytes, Byte
<1>3. RequestTag(r) = v \o (IF r.warmup THEN a \o w ELSE f)
  BY DEF RequestTag
<1>4. ASSUME NEW b \in Bytes, Occurs(b, 0, v)
      PROVE  ByteAt(b, 0) = Version /\ b[2] = SmallTuple /\ Len(b) \in Nat
  BY <1>4, LenProperties DEF Occurs, ByteAt, Bytes
<1>5. CASE r.warmup
  <2> HIDE DEF v, a, w, f
  <2>1. a \o w \in Bytes /\ Len(a \o w) = 9
    <3>1. a \o w \in Bytes /\ Len(a \o w) = 3 + 6
      BY <1>2, ConcatBytes
    <3>2. QED
      BY <3>1
  <2>2. v \o (a \o w) \in Bytes /\ Len(v \o (a \o w)) = 11
    <3>1. v \o (a \o w) \in Bytes /\ Len(v \o (a \o w)) = 2 + 9
      BY <1>1, <2>1, ConcatBytes
    <3>2. QED
      BY <3>1
  <2>3. ASSUME NEW b \in Bytes, Occurs(b, 0, v \o (a \o w))
        PROVE  /\ ByteAt(b, 0) = Version /\ Occurs(b, 1, <<SmallTuple, 5>>)
               /\ \A below : Read("guest", b, below, 3) = Got(Term("atom", Warmup), 11)
    <3>1. Len(b) \in Nat
      BY LenProperties DEF Bytes
    <3>2. Occurs(b, 0, v) /\ Occurs(b, 2, a) /\ Occurs(b, 5, w)
      <4>1. Occurs(b, 0, v) /\ Occurs(b, 0 + 2, a \o w)
        BY <1>1, <2>1, <2>3, <3>1, OccursConcat
      <4>2. Occurs(b, 2, a \o w)
        BY <4>1
      <4>3. Occurs(b, 2, a) /\ Occurs(b, 2 + 3, w)
        BY <1>2, <3>1, <4>2, OccursConcat
      <4>4. QED
        BY <4>1, <4>3
    <3>3. b[3] = 5 /\ b[4] = SmallAtom /\ b[5] = 6 /\ 11 <= Len(b)
      BY <1>2, <3>2 DEF Occurs, a, w
    <3>4. Occurs(b, 1, <<SmallTuple, 5>>)
      BY <1>4, <3>2, <3>3 DEF Occurs
    <3>5. ByteAt(b, 3) = SmallAtom /\ ByteAt(b, 4) = 6 /\ Fits(b, 3, 2) /\ Fits(b, 5, 6)
      BY <3>1, <3>3 DEF ByteAt, Fits
    <3>6. SubSeq(b, 6, 11) = Warmup
      <4>1. SubSeq(b, 5 + 1, 5 + Len(w)) = w
        BY <1>2, <3>2, OccursCut
      <4>2. QED
        BY <1>2, <4>1 DEF w
    <3>7. ASSUME NEW below
          PROVE  Read("guest", b, below, 3) = Got(Term("atom", Warmup), 11)
      <4>1. ErlTerm(b, below, 3) = ErlBytes(b, "atom", 6, 5)
        BY <3>5, SMT DEF ErlTerm, SmallInteger, Integer32, SmallTuple, SmallAtom, Nil, List, Binary
      <4>2. QED
        <5>1. 5 + 1 = 6 /\ 5 + 6 = 11
          BY SMT
        <5>2. ErlBytes(b, "atom", 6, 5) = Got(Term("atom", Warmup), 11)
          BY <3>5, <3>6, <5>1, Zenon DEF ErlBytes
        <5>3. QED
          BY <4>1, <5>2, SMT DEF Read
    <3>8. QED
      BY <1>4, <3>2, <3>4, <3>7
  <2>4. QED
    BY <1>3, <1>5, <2>2, <2>3, Zenon
<1>6. CASE ~r.warmup
  <2> HIDE DEF v, a, w, f
  <2>1. v \o f \in Bytes /\ Len(v \o f) = 3
    <3>1. v \o f \in Bytes /\ Len(v \o f) = 2 + 1
      BY <1>1, ConcatBytes
    <3>2. QED
      BY <3>1
  <2>2. ASSUME NEW b \in Bytes, Occurs(b, 0, v \o f)
        PROVE  ByteAt(b, 0) = Version /\ Occurs(b, 1, <<SmallTuple, 4>>)
    <3>1. Len(b) \in Nat
      BY LenProperties DEF Bytes
    <3>2. Occurs(b, 0, v) /\ Occurs(b, 0 + 2, f)
      BY <1>1, <2>2, <3>1, OccursConcat
    <3>3. b[3] = 4 /\ 3 <= Len(b)
      BY <3>1, <3>2 DEF Occurs, f
    <3>4. QED
      BY <1>4, <3>2, <3>3 DEF Occurs
  <2>3. QED
    BY <1>3, <1>6, <2>1, <2>2, Zenon
<1>7. QED
  BY <1>5, <1>6

\* What is read where in the tuple of request r.
RequestRead(b, r, r1, r2, o1, o2, p, q) ==
  /\ Reads("guest", b)[Len(b)][1] = Read("guest", b, r1, 1)
  /\ Recurses("guest", b, r1, r2)
  /\ r1[Len(RequestTag(r))] = Got(Term("binary", r.method), o1)
  /\ r1[o1] = Got(Term("binary", r.url), o2)
  /\ r1[o2] = Got(Term("list", HeaderTerms("guest", r.headers)), p)
  /\ r1[p] = Got(Term("binary", r.body), q)

LEMMA RequestReads ==
  ASSUME NEW r, r.method \in Texts, r.url \in Texts, r.headers \in Headers, r.body \in Texts,
         NEW b, b = EncodeRequest(r)
  PROVE  /\ b \in Bytes /\ Len(b) \in Nat /\ Len(b) >= 5 /\ Occurs(b, 0, RequestTag(r))
         /\ \E r1, r2, o1, o2, p, q : RequestRead(b, r, r1, r2, o1, o2, p, q)
<1> DEFINE x0 == RequestTag(r)
           y1 == EncodeBinary(r.method)
           y2 == EncodeBinary(r.url)
           x1 == x0 \o y1
           x2 == x1 \o y2
<1>1. x0 \in Bytes /\ Len(x0) \in Nat
  <2>1. x0 \in Bytes
    BY RequestTagReads
  <2>2. QED
    BY <2>1, LenProperties DEF Bytes
<1>2. /\ y1 \in Bytes /\ Len(y1) = 5 + Len(r.method) /\ Len(r.method) \in Nat
      /\ y2 \in Bytes /\ Len(y2) = 5 + Len(r.url) /\ Len(r.url) \in Nat
  BY BinaryBytes, TextIsBytes
<1>3. b = x2 \o EncodeHeaders(r.headers) \o EncodeBinary(r.body)
  BY DEF EncodeRequest, RequestTag
<1> HIDE DEF x0, y1, y2
<1>4. x1 \in Bytes /\ Len(x1) = Len(x0) + (5 + Len(r.method)) /\ Len(x1) \in Nat
  <2>1. x1 \in Bytes /\ Len(x1) = Len(x0) + Len(y1)
    BY <1>1, <1>2, ConcatBytes
  <2> HIDE DEF x1
  <2>2. QED
    BY <1>1, <1>2, <2>1
<1> HIDE DEF x1
<1>5. x2 \in Bytes /\ Len(x2) = Len(x1) + (5 + Len(r.url)) /\ Len(x2) \in Nat
  <2>1. x2 \in Bytes /\ Len(x2) = Len(x1) + Len(y2)
    BY <1>2, <1>4, ConcatBytes
  <2> HIDE DEF x2
  <2>2. Len(x2) = Len(x1) + (5 + Len(r.url))
    BY <1>2, <2>1, Zenon
  <2>3. Len(x1) + (5 + Len(r.url)) \in Nat
    <3>1. Len(x1) \in Nat /\ Len(r.url) \in Nat
      BY <1>2, <1>4, Zenon
    <3>2. QED
      BY <3>1
  <2>4. QED
    BY <2>1, <2>2, <2>3, Zenon
<1> HIDE DEF x2
<1>6. b \in Bytes /\ Len(b) \in Nat /\ Len(b) >= Len(x2) + 5 /\ Occurs(b, 0, x2)
  BY <1>3, <1>5, EndReads
<1>7. PICK p \in Nat, q \in Nat : EndRead(b, Len(x2), r.headers, r.body, p, q)
  BY <1>3, <1>5, EndReads
<1>8. Len(b) >= 5 /\ Len(b) >= 4
  BY <1>5, <1>6
<1>9. PICK r1, r2, r3, r4 :
        /\ Reads("guest", b)[Len(b)][1] = Read("guest", b, r1, 1)
        /\ Recurses("guest", b, r1, r2) /\ Recurses("guest", b, r2, r3)
        /\ Recurses("guest", b, r3, r4)
  BY <1>6, <1>8, ReadsRecurse, Zenon
<1>10. Occurs(b, 0, x0) /\ Occurs(b, Len(x0), y1) /\ Occurs(b, Len(x1), y2)
  <2>1. Occurs(b, 0, x1) /\ Occurs(b, 0 + Len(x1), y2)
    BY <1>2, <1>4, <1>6, OccursConcat DEF x2
  <2>2. Occurs(b, 0, x0) /\ Occurs(b, 0 + Len(x0), y1)
    BY <1>1, <1>2, <1>6, <2>1, OccursConcat DEF x1
  <2>3. QED
    BY <1>1, <1>4, <2>1, <2>2
<1>11. r1[Len(x0)] = Got(Term("binary", r.method), Len(x1))
  <2>1. Read("guest", b, r2, Len(x0)) = Got(Term("binary", r.method), Len(x0) + (5 + Len(r.method)))
    BY <1>1, <1>6, <1>10, BinaryReads DEF y1
  <2>2. r1[Len(x0)] = Read("guest", b, r2, Len(x0))
    BY <1>1, <1>9, Zenon DEF Recurses
  <2>3. QED
    BY <1>4, <2>1, <2>2, Zenon
<1>12. r1[Len(x1)] = Got(Term("binary", r.url), Len(x2))
  <2>1. Read("guest", b, r2, Len(x1)) = Got(Term("binary", r.url), Len(x1) + (5 + Len(r.url)))
    <3>1. Len(x1) \in Nat /\ b \in Bytes /\ Occurs(b, Len(x1), EncodeBinary(r.url))
      BY <1>4, <1>6, <1>10, Zenon DEF y2
    <3>2. QED
      BY <3>1, BinaryReads
  <2>2. r1[Len(x1)] = Read("guest", b, r2, Len(x1))
    BY <1>4, <1>9, Zenon DEF Recurses
  <2>3. QED
    BY <1>5, <2>1, <2>2, Zenon
<1>13. /\ r1[Len(x2)] = Got(Term("list", HeaderTerms("guest", r.headers)), p)
       /\ r1[p] = Got(Term("binary", r.body), q)
  <2>1. ListType("guest") = "list"
    BY DEF ListType
  <2>2. QED
    BY <1>7, <1>9, <2>1, Zenon DEF EndRead
<1>14. QED
  BY <1>6, <1>8, <1>9, <1>10, <1>11, <1>12, <1>13, Zenon DEF x0, RequestRead

\* What AtomVM makes of a request: a tuple of four, or of five that begins with the atom.
LEMMA RequestDecodes ==
  ASSUME NEW r, r.method \in Texts, r.url \in Texts, r.headers \in Headers, r.body \in Texts
  PROVE  LET m  == Term("binary", r.method)
             u  == Term("binary", r.url)
             hs == Term("list", HeaderTerms("guest", r.headers))
             y  == Term("binary", r.body)
             terms == IF r.warmup THEN <<Term("atom", Warmup), m, u, hs, y>>
                                  ELSE <<m, u, hs, y>>
         IN  \E q : BinaryToTerm(EncodeRequest(r)) = Got(Term("tuple", terms), q)
<1> DEFINE b  == EncodeRequest(r)
           l  == Len(RequestTag(r))
           m  == Term("binary", r.method)
           u  == Term("binary", r.url)
           hs == Term("list", HeaderTerms("guest", r.headers))
           y  == Term("binary", r.body)
           a  == Term("atom", Warmup)
<1>1. b \in Bytes /\ Len(b) \in Nat /\ Len(b) >= 5 /\ Occurs(b, 0, RequestTag(r))
  BY RequestReads
<1>2. PICK r1, r2, o1, o2, p, q : RequestRead(b, r, r1, r2, o1, o2, p, q)
  BY RequestReads
<1>3. /\ Reads("guest", b)[Len(b)][1] = Read("guest", b, r1, 1)
      /\ Recurses("guest", b, r1, r2)
      /\ r1[l] = Got(m, o1) /\ r1[o1] = Got(u, o2) /\ r1[o2] = Got(hs, p) /\ r1[p] = Got(y, q)
  BY <1>2 DEF RequestRead
<1>4. /\ l = IF r.warmup THEN 11 ELSE 3
      /\ ByteAt(b, 0) = Version
      /\ Occurs(b, 1, <<SmallTuple, IF r.warmup THEN 5 ELSE 4>>)
      /\ r.warmup => Read("guest", b, r2, 3) = Got(a, 11)
  <2> HIDE DEF b, l
  <2>1. QED
    BY <1>1, RequestTagReads, Zenon DEF l
<1> HIDE DEF b, l, m, u, hs, y, a
<1>5. BinaryToTerm(b) = Reads("guest", b)[Len(b)][1]
  BY <1>4 DEF BinaryToTerm, Decode
<1>6. TupleType("guest") = "tuple"
  BY DEF TupleType
<1>7. CASE r.warmup
  <2> DEFINE terms == <<a, m, u, hs, y>>
             at == [k \in 0 .. 5 |-> IF k = 0 THEN 3 ELSE IF k = 1 THEN 11
                                      ELSE IF k = 2 THEN o1 ELSE IF k = 3 THEN o2
                                      ELSE IF k = 4 THEN p ELSE q]
  <2>1. r1[3] = Got(a, 11) /\ r1[11] = Got(m, o1)
    <3>1. 3 \in Nat
      OBVIOUS
    <3>2. r1[3] = Read("guest", b, r2, 3)
      BY <1>3, <3>1, Zenon DEF Recurses
    <3>3. QED
      BY <1>3, <1>4, <1>7, <3>2, Zenon
  <2>2. \A k \in 1 .. 5 : r1[at[k - 1]] = Got(terms[k], at[k])
    BY <1>3, <2>1
  <2>3. terms \in Seq({a, m, u, hs, y}) /\ Len(terms) = 5
    OBVIOUS
  <2>4. at[0] = 1 + 2 /\ 5 \in Byte /\ 1 \in Nat /\ 5 \in Nat
    BY DEF Byte
  <2> HIDE DEF terms, at
  <2>5. Chain(r1, terms, at, 5)
    BY <2>2, <2>3, <2>4, Zenon DEF Chain
  <2>6. Occurs(b, 1, <<SmallTuple, 5>>)
    BY <1>4, <1>7, Zenon
  <2>7. Read("guest", b, r1, 1) = Got(Term(TupleType("guest"), terms), at[5])
    BY <1>1, <2>4, <2>5, <2>6, TupleReads
  <2>8. BinaryToTerm(b) = Got(Term("tuple", terms), at[5])
    BY <1>3, <1>5, <1>6, <2>7, Zenon
  <2>9. QED
    BY <1>7, <2>8, Zenon DEF b, terms, a, m, u, hs, y
<1>8. CASE ~r.warmup
  <2> DEFINE terms == <<m, u, hs, y>>
             at == [k \in 0 .. 4 |-> IF k = 0 THEN 3 ELSE IF k = 1 THEN o1
                                      ELSE IF k = 2 THEN o2 ELSE IF k = 3 THEN p ELSE q]
  <2>1. r1[3] = Got(m, o1)
    BY <1>3, <1>4, <1>8, Zenon
  <2>2. \A k \in 1 .. 4 : r1[at[k - 1]] = Got(terms[k], at[k])
    BY <1>3, <2>1
  <2>3. terms \in Seq({m, u, hs, y}) /\ Len(terms) = 4
    OBVIOUS
  <2>4. at[0] = 1 + 2 /\ 4 \in Byte /\ 1 \in Nat /\ 4 \in Nat /\ Len(b) >= 4
    BY <1>1 DEF Byte
  <2> HIDE DEF terms, at
  <2>5. Chain(r1, terms, at, 4)
    BY <2>2, <2>3, <2>4, Zenon DEF Chain
  <2>6. Occurs(b, 1, <<SmallTuple, 4>>)
    BY <1>4, <1>8, Zenon
  <2>7. Read("guest", b, r1, 1) = Got(Term(TupleType("guest"), terms), at[4])
    BY <1>1, <2>4, <2>5, <2>6, TupleReads
  <2>8. BinaryToTerm(b) = Got(Term("tuple", terms), at[4])
    BY <1>3, <1>5, <1>6, <2>7, Zenon
  <2>9. QED
    BY <1>8, <2>8, Zenon DEF b, terms, m, u, hs, y
<1>9. QED
  BY <1>7, <1>8, Zenon

\* The bridge takes the tuple apart again.
Validates(purpose, m, u, hs, y) ==
  Validate(purpose, Term("binary", m), Term("binary", u),
           Term("list", HeaderTerms("guest", hs)), Term("binary", y))
    = [ok |-> TRUE, purpose |-> purpose, method |-> m, url |-> u, headers |-> hs, body |-> y]

LEMMA Validated ==
  ASSUME NEW purpose, NEW m, NEW u, NEW hs \in Headers, NEW y
  PROVE  Validates(purpose, m, u, hs, y)
<1> DEFINE terms == HeaderTerms("guest", hs)
           tm == Term("binary", m)
           tu == Term("binary", u)
           th == Term("list", terms)
           ty == Term("binary", y)
<1>1. /\ \A i \in DOMAIN terms :
           /\ terms[i].type = "tuple"
           /\ terms[i].value = <<Term("binary", hs[i][1]), Term("binary", hs[i][2])>>
      /\ [i \in DOMAIN terms |-> <<hs[i][1], hs[i][2]>>] = hs
  BY HeadersBack DEF TupleType
<1> HIDE DEF terms
<1>2. /\ IsBinary(tm) /\ IsBinary(tu) /\ IsBinary(ty) /\ th.type = "list"
      /\ tm.value = m /\ tu.value = u /\ ty.value = y /\ th.value = terms
  BY DEF IsBinary, Term
<1> HIDE DEF tm, tu, th, ty
<1>3. ASSUME NEW i \in DOMAIN terms
      PROVE  /\ IsHeader(terms[i])
             /\ terms[i].value[1].value = hs[i][1] /\ terms[i].value[2].value = hs[i][2]
  <2> DEFINE v == terms[i].value
             k == Term("binary", hs[i][1])
             w == Term("binary", hs[i][2])
  <2>1. terms[i].type = "tuple" /\ v = <<k, w>>
    BY <1>1
  <2>2. k.type = "binary" /\ k.value = hs[i][1] /\ w.type = "binary" /\ w.value = hs[i][2]
    BY DEF Term
  <2> HIDE DEF k, w
  <2>3. Len(<<k, w>>) = 2 /\ <<k, w>>[1] = k /\ <<k, w>>[2] = w
    OBVIOUS
  <2>4. Len(v) = 2 /\ v[1] = k /\ v[2] = w
    BY <2>1, <2>3, Zenon
  <2>5. QED
    BY <2>1, <2>2, <2>4, Zenon DEF IsHeader, IsBinary
<1>4. \A i \in DOMAIN terms : IsHeader(terms[i])
  BY <1>3
<1>5. \A i \in DOMAIN terms : /\ terms[i].value[1].value = hs[i][1]
                              /\ terms[i].value[2].value = hs[i][2]
  BY <1>3
<1>6. [i \in DOMAIN terms |-> <<terms[i].value[1].value, terms[i].value[2].value>>] = hs
  BY <1>1, <1>5
<1>7. Validate(purpose, tm, tu, th, ty) =
        [ok |-> TRUE, purpose |-> purpose, method |-> tm.value, url |-> tu.value,
         headers |-> [i \in DOMAIN th.value |->
                        <<th.value[i].value[1].value, th.value[i].value[2].value>>],
         body |-> ty.value]
  BY <1>2, <1>4, Zenon DEF Validate
<1>8. QED
  BY <1>2, <1>6, <1>7, Zenon DEF terms, tm, tu, th, ty, Validates

LEMMA RequestRoundTrip ==
  ASSUME NEW r, r.method \in Texts, r.url \in Texts, r.headers \in Headers, r.body \in Texts
  PROVE  DecodeRequest(EncodeRequest(r)) =
           [ok |-> TRUE, purpose |-> IF r.warmup THEN "warmup" ELSE "serve",
            method |-> r.method, url |-> r.url, headers |-> r.headers, body |-> r.body]
<1> DEFINE b  == EncodeRequest(r)
           d  == BinaryToTerm(b)
           m  == Term("binary", r.method)
           u  == Term("binary", r.url)
           hs == Term("list", HeaderTerms("guest", r.headers))
           y  == Term("binary", r.body)
           a  == Term("atom", Warmup)
           terms == IF r.warmup THEN <<a, m, u, hs, y>> ELSE <<m, u, hs, y>>
<1>1. PICK q : d = Got(Term("tuple", terms), q)
  BY RequestDecodes, Zenon
<1> HIDE DEF b, d, m, u, hs, y, a
<1>2. d.ok /\ d.term.type = "tuple" /\ d.term.value = terms
  <2> HIDE DEF terms
  <2>1. d.ok /\ d.term = Term("tuple", terms)
    BY <1>1, Zenon DEF Got
  <2>2. QED
    BY <2>1 DEF Term
<1>3. ASSUME NEW purpose
      PROVE  Validate(purpose, m, u, hs, y) =
               [ok |-> TRUE, purpose |-> purpose, method |-> r.method, url |-> r.url,
                headers |-> r.headers, body |-> r.body]
  <2>1. Validates(purpose, r.method, r.url, r.headers, r.body)
    BY Validated
  <2>2. QED
    BY <2>1, Zenon DEF Validates, m, u, hs, y
<1>4. CASE r.warmup
  <2>1. /\ Len(terms) = 5 /\ Len(terms) # 4 /\ terms[1] = a
        /\ terms[2] = m /\ terms[3] = u /\ terms[4] = hs /\ terms[5] = y
    BY <1>4
  <2> HIDE DEF terms
  <2>2. DecodeRequest(b) = Validate("warmup", m, u, hs, y)
    BY <1>2, <2>1, SMT DEF DecodeRequest, d, a
  <2>3. QED
    BY <1>3, <1>4, <2>2, Zenon DEF b
<1>5. CASE ~r.warmup
  <2>1. /\ Len(terms) = 4 /\ Len(terms) # 5
        /\ terms[1] = m /\ terms[2] = u /\ terms[3] = hs /\ terms[4] = y
    BY <1>5
  <2> HIDE DEF terms
  <2>2. DecodeRequest(b) = Validate("serve", m, u, hs, y)
    BY <1>2, <2>1, SMT DEF DecodeRequest, d
  <2>3. QED
    BY <1>3, <1>5, <2>2, Zenon DEF b
<1>6. QED
  BY <1>4, <1>5

-----------------------------------------------------------------------------
(* Any bytes *)

\* The state of reading terms one behind the other.
ItemsStates(T) == {Throw} \union [ok : {TRUE}, term : Seq(T), next : Nat]

\* Where something is read, it ends at an offset.
Sound(below) ==
  \A o \in Nat :
    below[o].ok => below[o] = Got(below[o].term, below[o].next) /\ below[o].next \in Nat

\* FirstItems is what its recursion says.
LEMMA FirstItemsSteps ==
  ASSUME NEW below, Sound(below), NEW n \in Nat, NEW o \in Nat
  PROVE  LET first == FirstItems(below, n, o)
         IN  /\ first[0] = Got(<<>>, o)
             /\ \A k \in 1 .. n :
                  first[k].ok =>
                    /\ first[k - 1].ok /\ below[first[k - 1].next].ok
                    /\ first[k].next = below[first[k - 1].next].next
<1> DEFINE T == {below[p].term : p \in Nat}
           S == ItemsStates(T)
           Added(x) == IF x.ok /\ below[x.next].ok
                       THEN Got(Append(x.term, below[x.next].term), below[x.next].next)
                       ELSE Throw
           step == [k \in Nat |-> [x \in S |-> Added(x)]]
           a == Got(<<>>, o)
<1>1. ASSUME NEW x \in S PROVE Added(x) \in S
  <2>1. CASE x.ok /\ below[x.next].ok
    <3> DEFINE q == x.next
    <3>1. x.term \in Seq(T) /\ q \in Nat
      <4> HIDE DEF T
      <4>1. x.ok /\ x \in {Throw} \union [ok : {TRUE}, term : Seq(T), next : Nat]
        BY <2>1, Zenon DEF ItemsStates
      <4>2. x # Throw
        BY <4>1 DEF Throw
      <4>3. x \in [ok : {TRUE}, term : Seq(T), next : Nat]
        BY <4>1, <4>2
      <4>4. QED
        BY <4>3
    <3> HIDE DEF q
    <3>2. below[q].term \in T /\ below[q].next \in Nat
      BY <2>1, <3>1 DEF Sound, q
    <3>3. Append(x.term, below[q].term) \in Seq(T)
      BY <3>1, <3>2, AppendProperties
    <3> HIDE DEF T
    <3>4. Got(Append(x.term, below[q].term), below[q].next) \in S
      BY <3>2, <3>3 DEF ItemsStates, Got
    <3>5. QED
      BY <2>1, <3>4 DEF q
  <2>2. CASE ~(x.ok /\ below[x.next].ok)
    BY <2>2 DEF ItemsStates
  <2>3. QED
    BY <2>1, <2>2
<1>2. a \in S
  <2>1. <<>> \in Seq(T)
    BY EmptySeq
  <2> HIDE DEF T
  <2>2. QED
    BY <2>1 DEF ItemsStates, Got, a
<1> HIDE DEF T, a
<1>3. Within(S, a, step)
  <2> HIDE DEF S, Added
  <2>1. QED
    BY <1>1, <1>2 DEF Within
<1>4. PICK f : Solves(f, S, a, step)
  <2> HIDE DEF step
  <2>1. QED
    BY <1>3, Recursion
<1>5. f[0] = a /\ \A k \in Nat : f[k + 1] = Added(f[k])
  <2> HIDE DEF S, Added
  <2>1. QED
    BY <1>4 DEF Solves
<1> HIDE DEF S, step
<1> DEFINE Body(g, k) == IF k = 0 THEN Got(<<>>, o) ELSE Added(g[k - 1])
           g == [k \in 0 .. n |-> f[k]]
           first == FirstItems(below, n, o)
<1>6. ASSUME NEW k \in 0 .. n PROVE g[k] = Body(g, k)
  <2> HIDE DEF Added
  <2>1. CASE k = 0
    BY <1>5, <2>1 DEF a
  <2>2. CASE k # 0
    <3>1. k - 1 \in Nat /\ k - 1 \in 0 .. n /\ k - 1 + 1 = k
      BY <2>2
    <3>2. f[k] = Added(f[k - 1])
      BY <1>5, <3>1
    <3>3. QED
      BY <2>2, <3>1, <3>2
  <2>3. QED
    BY <2>1, <2>2
<1>7. g = [k \in 0 .. n |-> Body(g, k)]
  <2> HIDE DEF Body
  <2>1. QED
    BY <1>6
<1> HIDE DEF g
<1>8. first = [k \in 0 .. n |-> Body(first, k)]
  BY <1>7 DEF FirstItems
<1> HIDE DEF first
<1>9. first[0] = Got(<<>>, o)
  BY <1>8
<1>10. ASSUME NEW k \in 1 .. n, first[k].ok
       PROVE  /\ first[k - 1].ok /\ below[first[k - 1].next].ok
              /\ first[k].next = below[first[k - 1].next].next
  <2>1. k \in 0 .. n /\ k # 0
    OBVIOUS
  <2>2. first[k] = Added(first[k - 1])
    <3> HIDE DEF Added
    <3>1. QED
      BY <1>8, <2>1
  <2>3. QED
    BY <1>10, <2>2 DEF Got, Throw
<1>11. QED
  BY <1>9, <1>10, Zenon DEF first

\* n terms that are read from o on are a chain.
Chained(below, n, o, items, terms, at) ==
  /\ Chain(below, terms, at, n) /\ at[0] = o /\ \A k \in 0 .. n : at[k] \in Nat
  /\ items = Got(terms, at[n])

LEMMA ItemsChain ==
  ASSUME NEW b \in Bytes, NEW below, Sound(below), NEW n \in Nat, NEW o \in Nat,
         Items(b, below, n, o).ok
  PROVE  /\ n <= Len(b)
         /\ \E terms, at : Chained(below, n, o, Items(b, below, n, o), terms, at)
<1>1. Len(b) \in Nat /\ n <= Len(b)
  <2>1. Len(b) \in Nat
    BY LenProperties DEF Bytes
  <2>2. CASE n > Len(b)
    BY <2>2 DEF Items, Throw
  <2>3. QED
    BY <2>1, <2>2
<1> DEFINE first == FirstItems(below, n, o)
           at == [k \in 0 .. n |-> first[k].next]
           terms == [k \in 1 .. n |-> below[first[k - 1].next].term]
<1>2. /\ first[0] = Got(<<>>, o)
      /\ \A k \in 1 .. n : first[k].ok => /\ first[k - 1].ok /\ below[first[k - 1].next].ok
                                          /\ first[k].next = below[first[k - 1].next].next
  BY FirstItemsSteps
<1>3. first[n].ok
  <2>1. CASE n = 0
    BY <1>2, <2>1 DEF Got
  <2>2. CASE n # 0
    BY <1>1, <2>2 DEF Items
  <2>3. QED
    BY <2>1, <2>2
<1> HIDE DEF first
<1>4. \A k \in 0 .. n : first[k].ok
  <2> DEFINE I == {i \in Nat : i <= n => first[n - i].ok}
  <2>1. 0 \in I
    BY <1>3
  <2>2. ASSUME NEW i \in I PROVE i + 1 \in I
    <3>1. i + 1 <= n => n - i \in 1 .. n /\ n - i - 1 = n - (i + 1) /\ first[n - i].ok
      OBVIOUS
    <3>2. i + 1 <= n => first[n - (i + 1)].ok
      BY <1>2, <3>1
    <3>3. QED
      BY <3>2
  <2>3. I = Nat
    <3> HIDE DEF I
    <3>1. I \in SUBSET Nat
      BY DEF I
    <3>2. QED
      BY <2>1, <2>2, <3>1, SetInduction
  <2>4. ASSUME NEW k \in 0 .. n PROVE first[k].ok
    <3>1. n - k \in Nat /\ n - k <= n /\ n - (n - k) = k
      OBVIOUS
    <3>2. n - k \in {i \in Nat : i <= n => first[n - i].ok}
      BY <2>3, <3>1
    <3>3. first[n - (n - k)].ok
      BY <3>1, <3>2
    <3>4. QED
      BY <3>1, <3>3
  <2>5. QED
    BY <2>4
<1>5. \A k \in 0 .. n : first[k].next \in Nat
  <2> DEFINE I == {k \in Nat : k <= n => first[k].next \in Nat}
  <2>1. 0 \in I
    BY <1>2 DEF Got
  <2>2. ASSUME NEW k \in I PROVE k + 1 \in I
    <3>1. SUFFICES ASSUME k + 1 <= n PROVE first[k + 1].next \in Nat
      OBVIOUS
    <3>2. k + 1 \in 1 .. n /\ k + 1 \in 0 .. n /\ k + 1 - 1 = k /\ first[k].next \in Nat
      BY <3>1
    <3>3. below[first[k].next].ok /\ first[k + 1].next = below[first[k].next].next
      BY <1>2, <1>4, <3>2
    <3>4. QED
      BY <3>2, <3>3 DEF Sound
  <2>3. I = Nat
    <3> HIDE DEF I
    <3>1. I \in SUBSET Nat
      BY DEF I
    <3>2. QED
      BY <2>1, <2>2, <3>1, SetInduction
  <2>4. QED
    BY <2>3
<1>6. ASSUME NEW k \in 1 .. n PROVE below[at[k - 1]] = Got(terms[k], at[k])
  <2>1. k - 1 \in 0 .. n /\ k \in 0 .. n
    OBVIOUS
  <2>2. /\ first[k - 1].next \in Nat /\ below[first[k - 1].next].ok
        /\ first[k].next = below[first[k - 1].next].next
    BY <1>2, <1>4, <1>5, <2>1
  <2>3. at[k - 1] = first[k - 1].next /\ at[k] = first[k].next
        /\ terms[k] = below[first[k - 1].next].term
    BY <2>1
  <2> HIDE DEF at, terms
  <2>4. QED
    BY <2>2, <2>3 DEF Sound
<1>7. Len(terms) = n /\ \E T : terms \in Seq(T)
  <2>1. terms \in [1 .. n -> {below[p].term : p \in Nat}]
    <3>1. \A k \in 1 .. n : first[k - 1].next \in Nat
      BY <1>5
    <3>2. QED
      BY <3>1
  <2> HIDE DEF terms
  <2>2. terms \in Seq({below[p].term : p \in Nat})
    BY <2>1
  <2>3. DOMAIN terms = 1 .. n
    BY <2>1
  <2>4. QED
    BY <2>2, <2>3, LenProperties
<1>8. at[0] = o /\ \A k \in 0 .. n : at[k] \in Nat
  BY <1>2, <1>5 DEF Got
<1> HIDE DEF at, terms
<1>9. Chain(below, terms, at, n)
  BY <1>6, <1>7, Zenon DEF Chain
<1>10. Items(b, below, n, o) = Got(terms, at[n])
  <2>1. Items(b, below, n, at[0]) = Got(terms, at[n])
    BY <1>1, <1>9, ItemsAre
  <2>2. QED
    BY <1>8, <2>1, Zenon
<1>11. QED
  BY <1>1, <1>8, <1>9, <1>10, Zenon DEF Chained

\* Where the guest's decoder reads e, w is what the worker's reads, provided the bridge
\* exchanges e.
Agrees(e, w, terms, arrays) ==
  e.ok => /\ e = Got(e.term, e.next) /\ e.next \in Nat
          /\ e.term \in terms => w = Got(arrays[e.term], e.next)

Alike(guest, worker, terms, arrays) ==
  \A o \in Nat : Agrees(guest[o], worker[o], terms, arrays)

\* The arrays for terms one level deeper.
MoreArrays(terms, arrays) == [t \in Around(terms) |-> ArrayOf(t, arrays)]

\* Terms one behind the other.
ItemsAgree(e, w, terms, arrays) ==
  e.ok => /\ e = Got(e.term, e.next) /\ e.next \in Nat
          /\ e.term \in Seq(terms) =>
               w = Got([i \in DOMAIN e.term |-> arrays[e.term[i]]], e.next)

LEMMA MakesSequence ==
  ASSUME NEW T, NEW n \in Nat, NEW f, f \in [1 .. n -> T]
  PROVE  f \in Seq(T) /\ Len(f) = n
<1>1. f \in Seq(T)
  OBVIOUS
<1>2. DOMAIN f = 1 .. n
  OBVIOUS
<1>3. QED
  BY <1>1, <1>2, LenProperties

LEMMA ItemsAlike ==
  ASSUME NEW b \in Bytes, NEW guest, NEW worker, NEW terms, NEW arrays,
         Alike(guest, worker, terms, arrays), NEW n \in Nat, NEW o \in Nat
  PROVE  ItemsAgree(Items(b, guest, n, o), Items(b, worker, n, o), terms, arrays)
<1> DEFINE e == Items(b, guest, n, o)
           w == Items(b, worker, n, o)
<1>1. SUFFICES ASSUME e.ok
               PROVE  /\ e = Got(e.term, e.next) /\ e.next \in Nat
                      /\ e.term \in Seq(terms) =>
                           w = Got([i \in DOMAIN e.term |-> arrays[e.term[i]]], e.next)
  BY Zenon DEF ItemsAgree
<1>2. Sound(guest)
  BY Zenon DEF Sound, Alike, Agrees
<1>3. n <= Len(b) /\ \E ts, at : Chained(guest, n, o, e, ts, at)
  BY <1>1, <1>2, ItemsChain
<1> HIDE DEF e
<1>4. PICK ts, at : Chained(guest, n, o, e, ts, at)
  BY <1>3, Zenon
<1>5. /\ Chain(guest, ts, at, n) /\ at[0] = o /\ \A k \in 0 .. n : at[k] \in Nat
      /\ e = Got(ts, at[n])
  BY <1>4, Zenon DEF Chained
<1>6. e.term = ts /\ e.next = at[n] /\ e.next \in Nat
  BY <1>5 DEF Got
<1>7. ASSUME ts \in Seq(terms) PROVE w = Got([i \in DOMAIN ts |-> arrays[ts[i]]], at[n])
  <2> DEFINE images == [i \in DOMAIN ts |-> arrays[ts[i]]]
  <2>1. Len(ts) = n /\ DOMAIN ts = 1 .. n /\ \A k \in 1 .. n : ts[k] \in terms
    <3>1. Len(ts) = n
      BY <1>5, Zenon DEF Chain
    <3>2. QED
      BY <1>7, <3>1, LenProperties
  <2>2. ASSUME NEW k \in 1 .. n PROVE worker[at[k - 1]] = Got(images[k], at[k])
    <3>1. guest[at[k - 1]] = Got(ts[k], at[k])
      BY <1>5, Zenon DEF Chain
    <3>2. at[k - 1] \in Nat
      <4>1. k - 1 \in 0 .. n
        OBVIOUS
      <4>2. QED
        BY <1>5, <4>1
    <3>3. Agrees(guest[at[k - 1]], worker[at[k - 1]], terms, arrays)
      BY <3>2, Zenon DEF Alike
    <3>4. guest[at[k - 1]].ok /\ guest[at[k - 1]].term = ts[k] /\ guest[at[k - 1]].next = at[k]
      BY <3>1 DEF Got
    <3>5. worker[at[k - 1]] = Got(arrays[ts[k]], at[k])
      BY <2>1, <3>3, <3>4, Zenon DEF Agrees
    <3>6. images[k] = arrays[ts[k]]
      BY <2>1
    <3>7. QED
      BY <3>5, <3>6, Zenon
  <2>3. Len(images) = n /\ \E T : images \in Seq(T)
    <3> DEFINE T == {arrays[t] : t \in terms}
    <3>1. images \in [1 .. n -> T]
      BY <2>1
    <3> HIDE DEF images, T
    <3>2. QED
      BY <3>1, MakesSequence
  <2> HIDE DEF images
  <2>4. Chain(worker, images, at, n)
    BY <2>2, <2>3, Zenon DEF Chain
  <2>5. Len(b) \in Nat /\ n <= Len(b)
    BY <1>3, LenProperties DEF Bytes
  <2> HIDE DEF w
  <2>6. Items(b, worker, n, at[0]) = Got(images, at[n])
    BY <2>4, <2>5, ItemsAre, SMTT(60)
  <2>7. QED
    BY <1>5, <2>6, Zenon DEF images, w
<1>8. QED
  BY <1>5, <1>6, <1>7, Zenon

\* Where a decoder reads at all, the elements of a tuple or a list decide.
LEMMA CompoundAgrees ==
  ASSUME NEW terms, NEW arrays, NEW type \in {"tuple", "list"}, NEW ts, NEW q \in Nat, NEW w,
         ts \in Seq(terms) => w = Got(Term("array", [i \in DOMAIN ts |-> arrays[ts[i]]]), q)
  PROVE  Agrees(Got(Term(type, ts), q), w, Around(terms), MoreArrays(terms, arrays))
<1> DEFINE t == Term(type, ts)
<1>1. t.type = type /\ t.value = ts
  BY DEF Term
<1> HIDE DEF t
<1>2. ASSUME t \in Around(terms) PROVE w = Got(MoreArrays(terms, arrays)[t], q)
  <2>1. ts \in Seq(terms)
    BY <1>1, <1>2 DEF Around
  <2>2. MoreArrays(terms, arrays)[t] = ArrayOf(t, arrays)
    BY <1>2 DEF MoreArrays
  <2>3. ArrayOf(t, arrays) = Term("array", [i \in DOMAIN ts |-> arrays[ts[i]]])
    BY <1>1, Zenon DEF ArrayOf
  <2>4. QED
    BY <2>1, <2>2, <2>3, Zenon
<1> DEFINE e == Got(t, q)
<1>3. e.ok /\ e.term = t /\ e.next = q
  BY DEF Got
<1> HIDE DEF e
<1>4. e = Got(t, q)
  BY DEF e
<1>5. QED
  BY <1>2, <1>3, <1>4, Zenon DEF Agrees, t

LEMMA PlainAgrees ==
  ASSUME NEW terms, NEW arrays, NEW type, type \notin {"tuple", "list"}, NEW v, NEW q \in Nat
  PROVE  Agrees(Got(Term(type, v), q), Got(Term(type, v), q), Around(terms),
                MoreArrays(terms, arrays))
<1> DEFINE t == Term(type, v)
<1>1. t.type = type
  BY DEF Term
<1> HIDE DEF t
<1>2. ASSUME t \in Around(terms) PROVE MoreArrays(terms, arrays)[t] = t
  <2>1. MoreArrays(terms, arrays)[t] = ArrayOf(t, arrays)
    BY <1>2 DEF MoreArrays
  <2>2. QED
    BY <1>1, <2>1, Zenon DEF ArrayOf
<1> DEFINE e == Got(t, q)
<1>3. e.ok /\ e.term = t /\ e.next = q
  BY DEF Got
<1> HIDE DEF e
<1>4. e = Got(t, q)
  BY DEF e
<1>5. QED
  BY <1>2, <1>3, <1>4, Zenon DEF Agrees, t

LEMMA ThrowAgrees ==
  ASSUME NEW w, NEW terms, NEW arrays
  PROVE  Agrees(Throw, w, terms, arrays)
BY DEF Agrees, Throw

LEMMA BytesAreNumbers ==
  ASSUME NEW b \in Bytes, NEW o \in Nat
  PROVE  /\ Len(b) \in Nat
         /\ Fits(b, o, 1) => ByteAt(b, o) \in Nat
         /\ Fits(b, o, 4) => GetUint32(b, o) \in Nat
<1>1. Len(b) \in Nat
  BY LenProperties DEF Bytes
<1>2. \A i \in 1 .. Len(b) : b[i] \in Nat
  <2>1. \A i \in 1 .. Len(b) : b[i] \in Byte
    BY ElementOfSeq, <1>1 DEF Bytes
  <2>2. \A x \in Byte : x \in Nat
    BY DEF Byte
  <2>3. QED
    BY <2>1, <2>2, Zenon
<1>3. ASSUME Fits(b, o, 1) PROVE ByteAt(b, o) \in Nat
  <2>1. o + 1 \in 1 .. Len(b) /\ o < Len(b)
    BY <1>1, <1>3 DEF Fits
  <2>2. QED
    BY <1>2, <2>1 DEF ByteAt
<1>4. ASSUME Fits(b, o, 4) PROVE GetUint32(b, o) \in Nat
  <2>1. /\ o + 1 \in 1 .. Len(b) /\ o + 2 \in 1 .. Len(b)
        /\ o + 3 \in 1 .. Len(b) /\ o + 4 \in 1 .. Len(b)
    BY <1>1, <1>4 DEF Fits
  <2>2. b[o + 1] \in Nat /\ b[o + 2] \in Nat /\ b[o + 3] \in Nat /\ b[o + 4] \in Nat
    BY <1>2, <2>1
  <2> DEFINE x == b[o + 1] * 256 + b[o + 2]
             y == x * 256 + b[o + 3]
  <2>3. x \in Nat
    BY <2>2
  <2> HIDE DEF x
  <2>4. y \in Nat
    BY <2>2, <2>3
  <2> HIDE DEF y
  <2>5. y * 256 + b[o + 4] \in Nat
    BY <2>2, <2>4
  <2>6. QED
    BY <2>5 DEF GetUint32, x, y
<1>5. QED
  BY <1>1, <1>3, <1>4, Zenon

LEMMA TuplesAgree ==
  ASSUME NEW b \in Bytes, NEW guest, NEW worker, NEW terms, NEW arrays,
         Alike(guest, worker, terms, arrays), NEW o \in Nat
  PROVE  Agrees(ErlTuple(b, guest, o), Typed("array", Items(b, worker, ByteAt(b, o), o + 1)),
                Around(terms), MoreArrays(terms, arrays))
<1> DEFINE n == ByteAt(b, o)
           p == o + 1
           e == Items(b, guest, n, p)
           w == Items(b, worker, n, p)
<1>1. CASE ~Fits(b, o, 1)
  <2>1. ErlTuple(b, guest, o) = Throw
    BY <1>1, Zenon DEF ErlTuple
  <2>2. QED
    BY <2>1, ThrowAgrees, Zenon
<1>2. CASE Fits(b, o, 1) /\ ~e.ok
  <2>1. ErlTuple(b, guest, o) = Throw
    BY <1>2, Zenon DEF ErlTuple, Typed
  <2>2. QED
    BY <2>1, ThrowAgrees, Zenon
<1>3. CASE Fits(b, o, 1) /\ e.ok
  <2>1. ErlTuple(b, guest, o) = Got(Term("tuple", e.term), e.next)
    BY <1>3, Zenon DEF ErlTuple, Typed
  <2>2. n \in Nat /\ p \in Nat
    BY <1>3, BytesAreNumbers
  <2> HIDE DEF n, p
  <2>3. ItemsAgree(e, w, terms, arrays)
    BY <2>2, ItemsAlike
  <2> DEFINE ts == e.term
             q == e.next
             a == Typed("array", w)
  <2> HIDE DEF e, w
  <2>4. q \in Nat /\ (ts \in Seq(terms) => w = Got([i \in DOMAIN ts |-> arrays[ts[i]]], q))
    BY <1>3, <2>3, Zenon DEF ItemsAgree
  <2>5. ts \in Seq(terms) => a = Got(Term("array", [i \in DOMAIN ts |-> arrays[ts[i]]]), q)
    <3> DEFINE images == [i \in DOMAIN ts |-> arrays[ts[i]]]
    <3> HIDE DEF images
    <3>1. w = Got(images, q) => w.ok /\ w.term = images /\ w.next = q
      BY DEF Got
    <3>2. w = Got(images, q) => a = Got(Term("array", images), q)
      BY <3>1, Zenon DEF Typed
    <3>3. QED
      BY <2>4, <3>2, Zenon DEF images
  <2> HIDE DEF ts, q, a
  <2>6. Agrees(Got(Term("tuple", ts), q), a, Around(terms), MoreArrays(terms, arrays))
    BY <2>4, <2>5, CompoundAgrees
  <2>7. QED
    BY <2>1, <2>6, Zenon DEF ts, q, a, e, w, n, p
<1>4. QED
  BY <1>1, <1>2, <1>3, Zenon

LEMMA ListsAgree ==
  ASSUME NEW b \in Bytes, NEW guest, NEW worker, NEW terms, NEW arrays,
         Alike(guest, worker, terms, arrays), NEW o \in Nat
  PROVE  Agrees(ErlList(b, guest, o), ReadList(b, worker, o),
                Around(terms), MoreArrays(terms, arrays))
<1> DEFINE n == GetUint32(b, o)
           p == o + 4
           e == Items(b, guest, n, p)
           w == Items(b, worker, n, p)
<1>1. CASE ~Fits(b, o, 4)
  <2>1. ErlList(b, guest, o) = Throw
    BY <1>1, Zenon DEF ErlList
  <2>2. QED
    BY <2>1, ThrowAgrees, Zenon
<1>2. CASE Fits(b, o, 4) /\ ~(e.ok /\ ByteAt(b, e.next) = Nil)
  <2>1. ErlList(b, guest, o) = Throw
    BY <1>2, Zenon DEF ErlList
  <2>2. QED
    BY <2>1, ThrowAgrees, Zenon
<1>3. CASE Fits(b, o, 4) /\ e.ok /\ ByteAt(b, e.next) = Nil
  <2>1. ErlList(b, guest, o) = Got(Term("list", e.term), e.next + 1)
    BY <1>3, Zenon DEF ErlList
  <2>2. n \in Nat /\ p \in Nat
    BY <1>3, BytesAreNumbers
  <2> DEFINE a == ReadList(b, worker, o)
  <2>3. a = IF w.ok /\ ByteAt(b, w.next) = Nil
            THEN Got(Term("array", w.term), w.next + 1) ELSE Throw
    BY <1>3, Zenon DEF ReadList
  <2> HIDE DEF n, p, a
  <2>4. ItemsAgree(e, w, terms, arrays)
    BY <2>2, ItemsAlike
  <2> DEFINE ts == e.term
             q == e.next + 1
  <2> HIDE DEF e, w
  <2>5. /\ e.next \in Nat
        /\ ts \in Seq(terms) => w = Got([i \in DOMAIN ts |-> arrays[ts[i]]], e.next)
    BY <1>3, <2>4, Zenon DEF ItemsAgree
  <2>6. ts \in Seq(terms) => a = Got(Term("array", [i \in DOMAIN ts |-> arrays[ts[i]]]), q)
    <3> DEFINE images == [i \in DOMAIN ts |-> arrays[ts[i]]]
    <3> HIDE DEF images
    <3>1. w = Got(images, e.next) => w.ok /\ w.term = images /\ w.next = e.next
      BY DEF Got
    <3>2. w = Got(images, e.next) => a = Got(Term("array", images), q)
      BY <1>3, <2>3, <3>1, Zenon
    <3>3. QED
      BY <2>5, <3>2, Zenon DEF images
  <2>7. q \in Nat
    BY <2>5
  <2> HIDE DEF ts, q
  <2>8. Agrees(Got(Term("list", ts), q), a, Around(terms), MoreArrays(terms, arrays))
    BY <2>6, <2>7, CompoundAgrees
  <2>9. QED
    BY <2>1, <2>8, Zenon DEF ts, q, a, e, w, n, p
<1>4. QED
  BY <1>1, <1>2, <1>3, Zenon

\* A binary that the guest accepts lies within the bytes, so nothing is cut from it.
LEMMA BinariesAgree ==
  ASSUME NEW b \in Bytes, NEW terms, NEW arrays, NEW o \in Nat, Fits(b, o, 4)
  PROVE  Agrees(ErlBytes(b, "binary", GetUint32(b, o), o + 4), ReadBinary(b, o),
                Around(terms), MoreArrays(terms, arrays))
<1> DEFINE n == GetUint32(b, o)
           p == o + 4
           v == SubSeq(b, p + 1, p + n)
<1>1. n \in Nat /\ p \in Nat /\ p + n \in Nat /\ p + 1 = o + 5
  BY BytesAreNumbers
<1>2. CASE ~Fits(b, p, n)
  <2>1. ErlBytes(b, "binary", n, p) = Throw
    BY <1>2, Zenon DEF ErlBytes
  <2>2. QED
    BY <2>1, ThrowAgrees, Zenon
<1>3. CASE Fits(b, p, n)
  <2>1. ErlBytes(b, "binary", n, p) = Got(Term("binary", v), p + n)
    BY <1>3, Zenon DEF ErlBytes
  <2>2. ReadBinary(b, o) = Got(Term("binary", v), p + n)
    BY <1>1, <1>3, Zenon DEF ReadBinary
  <2>3. "binary" \notin {"tuple", "list"}
    OBVIOUS
  <2> HIDE DEF n, p, v
  <2>4. Agrees(Got(Term("binary", v), p + n), Got(Term("binary", v), p + n), Around(terms),
               MoreArrays(terms, arrays))
    BY <1>1, <2>3, PlainAgrees
  <2>5. QED
    BY <2>1, <2>2, <2>4, Zenon DEF n, p
<1>4. QED
  BY <1>2, <1>3, Zenon

LEMMA TermsAgree ==
  ASSUME NEW b \in Bytes, NEW guest, NEW worker, NEW terms, NEW arrays,
         Alike(guest, worker, terms, arrays), NEW o \in Nat
  PROVE  Agrees(ErlTerm(b, guest, o), ReadTerm(b, worker, o),
                Around(terms), MoreArrays(terms, arrays))
<1> DEFINE tag == ByteAt(b, o)
           e   == ErlTerm(b, guest, o)
           w   == ReadTerm(b, worker, o)
           all == Around(terms)
           f   == MoreArrays(terms, arrays)
<1> USE DEF SmallInteger, Integer32, SmallTuple, Nil, List, Binary, SmallAtom
<1>1. /\ Len(b) \in Nat /\ o + 1 \in Nat /\ o + 2 \in Nat /\ o + 5 \in Nat
      /\ o + 1 + 1 = o + 2 /\ o + 1 + 4 = o + 5
      /\ Fits(b, o, 5) => Fits(b, o + 1, 4)
  <2>1. Len(b) \in Nat
    BY BytesAreNumbers
  <2>2. QED
    BY <2>1 DEF Fits
<1> HIDE DEF all, f
<1>2. CASE tag = SmallInteger /\ Fits(b, o, 2)
  <2> DEFINE v == ByteAt(b, o + 1)
  <2>1. e = Got(Term("integer", v), o + 2)
    BY <1>2 DEF ErlTerm
  <2>2. w = Got(Term("integer", v), o + 2)
    BY <1>2 DEF ReadTerm
  <2> HIDE DEF v, e, w
  <2>3. Agrees(Got(Term("integer", v), o + 2), Got(Term("integer", v), o + 2), all, f)
    BY <1>1, PlainAgrees DEF all, f
  <2>4. QED
    BY <2>1, <2>2, <2>3, Zenon DEF e, w, all, f
<1>3. CASE tag = Integer32 /\ Fits(b, o, 5)
  <2> DEFINE v == GetInt32(b, o + 1)
  <2>1. e = Got(Term("integer", v), o + 5)
    BY <1>3 DEF ErlTerm
  <2>2. w = Got(Term("integer", v), o + 5)
    BY <1>3 DEF ReadTerm
  <2> HIDE DEF v, e, w
  <2>3. Agrees(Got(Term("integer", v), o + 5), Got(Term("integer", v), o + 5), all, f)
    BY <1>1, PlainAgrees DEF all, f
  <2>4. QED
    BY <2>1, <2>2, <2>3, Zenon DEF e, w, all, f
<1>4. CASE tag = SmallTuple
  <2> DEFINE a == Typed("array", Items(b, worker, ByteAt(b, o + 1), o + 1 + 1))
  <2>1. e = ErlTuple(b, guest, o + 1)
    BY <1>4 DEF ErlTerm
  <2>2. w = Typed("array", Items(b, worker, ByteAt(b, o + 1), o + 2))
    BY <1>4 DEF ReadTerm
  <2>3. w = a
    BY <1>1, <2>2
  <2> HIDE DEF e, w
  <2>4. Agrees(ErlTuple(b, guest, o + 1), a, all, f)
    BY <1>1, TuplesAgree DEF all, f
  <2>5. QED
    BY <2>1, <2>3, <2>4, Zenon DEF e, w, all, f
<1>5. CASE tag = Nil
  <2> DEFINE ts == <<>>
             a  == Got(Term("array", <<>>), o + 1)
  <2>1. e = Got(Term("list", ts), o + 1)
    BY <1>5 DEF ErlTerm
  <2>2. w = a
    BY <1>5 DEF ReadTerm
  <2>3. [i \in DOMAIN ts |-> arrays[ts[i]]] = <<>>
    OBVIOUS
  <2> HIDE DEF ts, e, w
  <2>4. a = Got(Term("array", [i \in DOMAIN ts |-> arrays[ts[i]]]), o + 1)
    BY <2>3, Zenon
  <2> HIDE DEF a
  <2>5. Agrees(Got(Term("list", ts), o + 1), a, all, f)
    BY <1>1, <2>4, CompoundAgrees DEF all, f
  <2>6. QED
    BY <2>1, <2>2, <2>5, Zenon DEF e, w, all, f
<1>6. CASE tag = List
  <2>1. e = ErlList(b, guest, o + 1)
    BY <1>6 DEF ErlTerm
  <2>2. w = ReadList(b, worker, o + 1)
    BY <1>6 DEF ReadTerm
  <2> HIDE DEF e, w
  <2>3. Agrees(ErlList(b, guest, o + 1), ReadList(b, worker, o + 1), all, f)
    BY <1>1, ListsAgree DEF all, f
  <2>4. QED
    BY <2>1, <2>2, <2>3, Zenon DEF e, w, all, f
<1>7. CASE tag = Binary /\ Fits(b, o, 5)
  <2>1. e = ErlBytes(b, "binary", GetUint32(b, o + 1), o + 5)
    BY <1>7 DEF ErlTerm
  <2>2. e = ErlBytes(b, "binary", GetUint32(b, o + 1), o + 1 + 4)
    BY <1>1, <2>1
  <2>3. w = ReadBinary(b, o + 1)
    BY <1>7 DEF ReadTerm
  <2> HIDE DEF e, w
  <2>4. Agrees(ErlBytes(b, "binary", GetUint32(b, o + 1), o + 1 + 4), ReadBinary(b, o + 1), all, f)
    BY <1>1, <1>7, BinariesAgree DEF all, f
  <2>5. QED
    BY <2>2, <2>3, <2>4, Zenon DEF e, w, all, f
<1>8. CASE tag = SmallAtom /\ Fits(b, o, 2)
  <2> DEFINE n == ByteAt(b, o + 1)
             t == Term("atom", SubSeq(b, o + 2 + 1, o + 2 + n))
  <2>1. e = IF Fits(b, o + 2, n) THEN Got(t, o + 2 + n) ELSE Throw
    BY <1>8 DEF ErlTerm, ErlBytes
  <2>2. n \in Nat
    <3>1. Fits(b, o + 1, 1)
      BY <1>1, <1>8 DEF Fits
    <3>2. QED
      BY <1>1, <3>1, BytesAreNumbers
  <2>3. o + 2 + n \in Nat
    BY <2>2
  <2>4. t \notin all
    <3>1. t.type = "atom"
      BY DEF Term
    <3> HIDE DEF t
    <3>2. QED
      BY <3>1 DEF all, Around
  <2> HIDE DEF n, t, e, w
  <2>5. Agrees(Throw, w, all, f)
    BY ThrowAgrees, Zenon
  <2>6. Agrees(Got(t, o + 2 + n), w, all, f)
    <3>1. Got(t, o + 2 + n).term = t /\ Got(t, o + 2 + n).next = o + 2 + n
      BY DEF Got
    <3>2. QED
      BY <2>3, <2>4, <3>1, Zenon DEF Agrees
  <2>7. QED
    BY <2>1, <2>5, <2>6, Zenon DEF e, w, all, f
<1>9. CASE /\ ~(tag = SmallInteger /\ Fits(b, o, 2)) /\ ~(tag = Integer32 /\ Fits(b, o, 5))
           /\ tag # SmallTuple /\ tag # Nil /\ tag # List
           /\ ~(tag = Binary /\ Fits(b, o, 5)) /\ ~(tag = SmallAtom /\ Fits(b, o, 2))
  <2>1. e = Throw
    BY <1>9, Zenon DEF ErlTerm
  <2>2. QED
    BY <2>1, ThrowAgrees, Zenon DEF all, f
<1> HIDE DEF tag, e, w
<1>10. Agrees(e, w, all, f)
  BY <1>2, <1>3, <1>4, <1>5, <1>6, <1>7, <1>8, <1>9, Zenon DEF e, w, all, f
<1>11. QED
  BY <1>10, Zenon DEF e, w, all, f

\* However deep terms lie in one another, the two decoders read them alike.
LEMMA DecodersAlike ==
  ASSUME NEW b \in Bytes
  PROVE  \A d \in Nat : Alike(Reads("guest", b)[d], Reads("worker", b)[d],
                              Exchanged[d], AsArrays[d])
<1> DEFINE guest(d)  == Reads("guest", b)[d]
           worker(d) == Reads("worker", b)[d]
           I == {d \in Nat : Alike(guest(d), worker(d), Exchanged[d], AsArrays[d])}
<1>1. /\ \A o \in Nat : guest(0)[o] = Throw
      /\ \A d \in Nat : \A o \in Nat : guest(d + 1)[o] = Read("guest", b, guest(d), o)
      /\ \A d \in Nat : \A o \in Nat : worker(d + 1)[o] = Read("worker", b, worker(d), o)
  <2>1. \A end : /\ \A o \in Nat : Reads(end, b)[0][o] = Throw
                 /\ \A d \in Nat : \A o \in Nat :
                      Reads(end, b)[d + 1][o] = Read(end, b, Reads(end, b)[d], o)
    BY ReadsSteps
  <2>2. QED
    BY <2>1, Zenon
<1> HIDE DEF guest, worker
<1>2. 0 \in I
  <2>1. Alike(guest(0), worker(0), Exchanged[0], AsArrays[0])
    BY <1>1, ThrowAgrees, Zenon DEF Alike
  <2>2. QED
    BY <2>1
<1>3. ASSUME NEW d \in I PROVE d + 1 \in I
  <2>1. d \in Nat /\ d + 1 \in Nat /\ Alike(guest(d), worker(d), Exchanged[d], AsArrays[d])
    BY <1>3
  <2>2. /\ Exchanged[d + 1] = Around(Exchanged[d])
        /\ AsArrays[d + 1] = MoreArrays(Exchanged[d], AsArrays[d])
    BY <2>1, ExchangedSteps, ArraysSteps, Zenon DEF MoreArrays
  <2>3. ASSUME NEW o \in Nat
        PROVE  Agrees(guest(d + 1)[o], worker(d + 1)[o], Exchanged[d + 1], AsArrays[d + 1])
    <3>1. /\ guest(d + 1)[o] = ErlTerm(b, guest(d), o)
          /\ worker(d + 1)[o] = ReadTerm(b, worker(d), o)
      BY <1>1, <2>1 DEF Read
    <3>2. Agrees(ErlTerm(b, guest(d), o), ReadTerm(b, worker(d), o), Around(Exchanged[d]),
                 MoreArrays(Exchanged[d], AsArrays[d]))
      BY <2>1, TermsAgree, Zenon
    <3>3. QED
      BY <2>2, <3>1, <3>2, Zenon
  <2>4. Alike(guest(d + 1), worker(d + 1), Exchanged[d + 1], AsArrays[d + 1])
    BY <2>3, Zenon DEF Alike
  <2>5. QED
    BY <2>1, <2>4
<1>4. I = Nat
  <2> HIDE DEF I
  <2>1. I \in SUBSET Nat
    BY DEF I
  <2>2. QED
    BY <1>2, <1>3, <2>1, SetInduction
<1>5. QED
  BY <1>4 DEF guest, worker

\* Of all bytes that the guest's decoder takes for something the bridge exchanges, the
\* worker's makes the same thing: "the subset the bridge exchanges" (index.js:338-339) is
\* read alike at both ends of the wire.
THEOREM BytesDecodeAlike ==
  ASSUME NEW b \in Bytes
  PROVE  LET erl == BinaryToTerm(b)
             d   == Len(b)
         IN  erl.ok /\ erl.term \in Exchanged[d] =>
               DecodeEtf(b) = Got(AsArrays[d][erl.term], erl.next)
<1> DEFINE erl == BinaryToTerm(b)
           d   == Len(b)
<1>1. SUFFICES ASSUME erl.ok, erl.term \in Exchanged[d]
               PROVE  DecodeEtf(b) = Got(AsArrays[d][erl.term], erl.next)
  OBVIOUS
<1>2. d \in Nat /\ 1 \in Nat
  BY LenProperties DEF Bytes
<1>3. ByteAt(b, 0) = Version
  BY <1>1 DEF BinaryToTerm, Decode, Throw
<1>4. erl = Reads("guest", b)[d][1] /\ DecodeEtf(b) = Reads("worker", b)[d][1]
  BY <1>3, Zenon DEF BinaryToTerm, DecodeEtf, Decode
<1> HIDE DEF erl, d
<1>5. Agrees(erl, DecodeEtf(b), Exchanged[d], AsArrays[d])
  BY <1>2, <1>4, DecodersAlike, Zenon DEF Alike
<1>6. QED
  BY <1>1, <1>5, Zenon DEF Agrees

LEMMA ResponseBytes ==
  ASSUME NEW r, r.status \in 0 .. MaxInt, r.headers \in Headers, r.body \in Texts
  PROVE  EncodeResponse(r) \in Bytes
<1> DEFINE v == <<Version, SmallTuple, 3>>
           i == EncodeInteger(r.status)
<1>1. v \in Bytes /\ i \in Bytes
  <2>1. v \in Bytes
    BY DEF Bytes, Byte, Version, SmallTuple
  <2>2. QED
    BY <2>1, IntegerReads
<1> HIDE DEF v, i
<1>2. v \o i \in Bytes
  BY <1>1, ConcatBytes
<1>3. EncodeResponse(r) = (v \o i) \o EncodeHeaders(r.headers) \o EncodeBinary(r.body)
  BY Zenon DEF EncodeResponse, v, i
<1> DEFINE x == v \o i
           b == EncodeResponse(r)
<1> HIDE DEF x, b
<1>4. x \in Bytes /\ b = x \o EncodeHeaders(r.headers) \o EncodeBinary(r.body)
  BY <1>2, <1>3, Zenon DEF x, b
<1>5. b \in Bytes
  BY <1>4, EndReads
<1>6. QED
  BY <1>5, Zenon DEF b

LEMMA DamagedBytes ==
  ASSUME NEW e \in Bytes, NEW b \in Damaged(e)
  PROVE  b \in Bytes
<1>1. CASE \E n \in 0 .. Len(e) : b = SubSeq(e, 1, n)
  <2>1. PICK n \in 0 .. Len(e) : b = SubSeq(e, 1, n)
    BY <1>1
  <2>2. Len(e) \in Nat /\ DOMAIN e = 1 .. Len(e)
    BY LenProperties DEF Bytes
  <2>3. \A i \in 1 .. n : i \in DOMAIN e
    BY <2>1, <2>2
  <2>4. QED
    BY <2>1, <2>2, <2>3, SubSeqProperties DEF Bytes
<1>2. CASE \E i \in DOMAIN e, x \in Damage : b = [e EXCEPT ![i] = x]
  <2>1. PICK i \in DOMAIN e, x \in Damage : b = [e EXCEPT ![i] = x]
    BY <1>2
  <2>2. x \in Byte /\ i \in 1 .. Len(e)
    BY <2>1, WireAssumption, LenProperties DEF Bytes
  <2>3. QED
    BY <2>1, <2>2, ExceptSeq DEF Bytes
<1>3. QED
  BY <1>1, <1>2 DEF Damaged

-----------------------------------------------------------------------------
\* The inputs do not change.
Chosen ==
  /\ kind = "request"  => input \in RequestInputs
  /\ kind = "response" => input \in ResponseInputs
  /\ kind = "wire"     => input \in Bytes

LEMMA InputsAreChosen == Spec => []Chosen
<1>1. Init => Chosen
  <2>1. ASSUME NEW r \in WireInputs, input \in Damaged(EncodeResponse(r)) PROVE input \in Bytes
    BY <2>1, WireAssumption, ResponseBytes, DamagedBytes
  <2>2. QED
    BY <2>1 DEF Init, Chosen
<1>2. Chosen /\ [Next]_vars => Chosen'
  BY DEF Next, vars, Chosen
<1>3. QED
  BY <1>1, <1>2, PTL DEF Spec

\* The bridge gets what the worker was given, for every method, URL, headers and body there
\* are, and takes nothing but the warm-up for the warm-up.
THEOREM RequestsArrive == Spec => []RequestArrives
<1>1. Chosen => RequestArrives
  <2>1. SUFFICES ASSUME kind = "request", input \in RequestInputs PROVE RequestArrives
    BY DEF Chosen, RequestArrives
  <2>2. /\ input.method \in Texts /\ input.url \in Texts
        /\ input.headers \in Headers /\ input.body \in Texts
    BY <2>1, RequestsAssumption
  <2>3. QED
    BY <2>2, RequestRoundTrip DEF RequestArrives
<1>2. QED
  BY <1>1, InputsAreChosen, PTL

\* The worker gets what the bridge was given, for every status, headers and body there are.
THEOREM ResponsesArrive == Spec => []ResponseArrives
<1>1. Chosen => ResponseArrives
  <2>1. SUFFICES ASSUME kind = "response", input \in ResponseInputs PROVE ResponseArrives
    BY DEF Chosen, ResponseArrives
  <2>2. input.status \in 0 .. MaxInt /\ input.headers \in Headers /\ input.body \in Texts
    BY <2>1, ResponsesAssumption
  <2>3. QED
    BY <2>2, ResponseRoundTrip DEF ResponseArrives
<1>2. QED
  BY <1>1, InputsAreChosen, PTL

\* The worker's decoder takes any bytes, cut or changed in whatever way, for what the guest's
\* takes them for, wherever that is something the bridge exchanges, and ends up at the same
\* byte.
THEOREM DecodersStayAlike == Spec => []DecodersAgree
<1>1. Chosen => DecodersAgree
  <2>1. SUFFICES ASSUME kind = "wire", input \in Bytes PROVE DecodersAgree
    BY Zenon DEF Chosen, DecodersAgree
  <2>2. QED
    BY <2>1, BytesDecodeAlike, Zenon DEF DecodersAgree
<1>2. QED
  BY <1>1, InputsAreChosen, PTL
=============================================================================
