----------------------------- MODULE JsonProofs -----------------------------
(***************************************************************************)
(* The json shim, for every document.                                      *)
(*                                                                         *)
(* A text "stands" at a place in bytes that may end before it does, so     *)
(* that one lemma says what the decoder makes of a text that is whole and  *)
(* of one that is cut short.  Strings, arrays and objects are sequences of *)
(* pieces, one for each call of the loop that reads them: WalkIs says what *)
(* such a loop comes to, given what it makes of each piece.                *)
(* Numbers end where something stands that may follow a value.  Documents  *)
(* are then followed by induction on how deep they are (DocumentsRead).    *)
(***************************************************************************)
EXTENDS Json, ShimProofs

-----------------------------------------------------------------------------
(* Json: where a text stands in bytes *)

\* t stands in b at o, as far as b goes.
Stands(t, b, o) == \A i \in 1 .. Len(t) : o + i <= Len(b) => b[o + i] = t[i]

LEMMA AtIs ==
  ASSUME NEW b \in Seq(Byte), NEW p \in Nat
  PROVE  /\ p < Len(b) => At(b, p) = b[p + 1] /\ At(b, p) \in Byte
         /\ p >= Len(b) => At(b, p) = -1
<1>1. Len(b) \in Nat /\ \A i \in 1 .. Len(b) : b[i] \in Byte
  BY Bytes
<1>2. p < Len(b) => p + 1 \in 1 .. Len(b)
  BY <1>1
<1>3. QED
  BY <1>1, <1>2 DEF At

LEMMA StandsAt ==
  ASSUME NEW t \in Seq(Byte), NEW b \in Seq(Byte), NEW o \in Nat, Stands(t, b, o),
         NEW i \in Nat, i < Len(t)
  PROVE  At(b, o + i) = IF o + i < Len(b) THEN t[i + 1] ELSE -1
<1>1. Len(b) \in Nat /\ Len(t) \in Nat
  BY Bytes
<1>2. CASE o + i < Len(b)
  <2>1. i + 1 \in 1 .. Len(t) /\ o + (i + 1) <= Len(b) /\ o + (i + 1) = (o + i) + 1
    BY <1>1, <1>2
  <2>2. b[o + (i + 1)] = t[i + 1]
    BY <2>1 DEF Stands
  <2>3. QED
    BY <1>2, <2>1, <2>2 DEF At
<1>3. CASE ~(o + i < Len(b))
  BY <1>3 DEF At
<1>4. QED
  BY <1>2, <1>3

LEMMA StandsJoined ==
  ASSUME NEW u \in Seq(Byte), NEW v \in Seq(Byte), NEW b \in Seq(Byte), NEW o \in Nat,
         Stands(u \o v, b, o)
  PROVE  Stands(u, b, o) /\ Stands(v, b, o + Len(u)) /\ o + Len(u) \in Nat
<1> DEFINE t == u \o v
<1>1. /\ Len(t) = Len(u) + Len(v) /\ Len(u) \in Nat /\ Len(v) \in Nat /\ Len(b) \in Nat
      /\ \A i \in 1 .. Len(u) : t[i] = u[i]
      /\ \A i \in 1 .. Len(v) : t[Len(u) + i] = v[i]
  BY Joined, Bytes
<1>2. \A i \in 1 .. Len(t) : o + i <= Len(b) => b[o + i] = t[i]
  BY DEF Stands
<1> HIDE DEF t
<1>3. \A i \in 1 .. Len(u) : i \in 1 .. Len(t)
  BY <1>1
<1>4. Stands(u, b, o)
  BY <1>1, <1>2, <1>3 DEF Stands
<1>5. ASSUME NEW i \in 1 .. Len(v), (o + Len(u)) + i <= Len(b) PROVE b[(o + Len(u)) + i] = v[i]
  <2> DEFINE j == Len(u) + i
  <2>1. j \in 1 .. Len(t) /\ o + j = (o + Len(u)) + i
    BY <1>1
  <2> HIDE DEF j
  <2>2. b[o + j] = t[j]
    BY <1>2, <1>5, <2>1
  <2>3. t[j] = v[i]
    BY <1>1 DEF j
  <2>4. QED
    BY <2>1, <2>2, <2>3
<1>6. QED
  BY <1>1, <1>4, <1>5 DEF Stands

\* What stands in a sequence of bytes from its beginning.
LEMMA StandsInItself ==
  ASSUME NEW t \in Seq(Byte), NEW n \in 0 .. Len(t)
  PROVE  /\ Stands(t, SubSeq(t, 1, n), 0) /\ SubSeq(t, 1, n) \in Seq(Byte)
         /\ Len(SubSeq(t, 1, n)) = n
<1>1. /\ SubSeq(t, 1, n) \in Seq(Byte) /\ Len(SubSeq(t, 1, n)) = n
      /\ \A i \in 1 .. n : SubSeq(t, 1, n)[i] = t[i] /\ Len(t) \in Nat
  BY CutInTwo, Bytes
<1>2. QED
  BY <1>1 DEF Stands

-----------------------------------------------------------------------------
(* Json: blanks and digits are skipped *)

LEMMA PastIs ==
  ASSUME NEW b \in Seq(Byte), NEW S, -1 \notin S, NEW p \in Nat, NEW q \in Nat, p <= q,
         At(b, q) \notin S, \A r \in p .. q - 1 : At(b, r) \in S
  PROVE  Past(b, p, S) = q
<1>1. Len(b) \in Nat
  BY Bytes
<1>2. q \in p .. p + Len(b)
  <2>1. CASE q = p
    BY <1>1, <2>1
  <2>2. CASE q # p
    <3>1. q - 1 \in p .. q - 1 /\ q - 1 \in Nat
      BY <2>2
    <3>2. At(b, q - 1) # -1
      BY <3>1
    <3>3. q - 1 < Len(b)
      BY <1>1, <3>1, <3>2, AtIs
    <3>4. QED
      BY <1>1, <3>3
  <2>3. QED
    BY <2>1, <2>2
<1>3. ASSUME NEW r \in p .. p + Len(b), At(b, r) \notin S, \A i \in p .. r - 1 : At(b, i) \in S
      PROVE  r = q
  <2>1. CASE r < q
    <3>1. r \in p .. q - 1
      BY <1>1, <2>1
    <3>2. QED
      BY <1>3, <3>1
  <2>2. CASE q < r
    <3>1. q \in p .. r - 1
      BY <1>1, <2>2
    <3>2. QED
      BY <1>3, <3>1
  <2>3. QED
    BY <1>1, <2>1, <2>2
<1>4. QED
  BY <1>2, <1>3 DEF Past

\* Bytes of S that stand at p are skipped, as many as there are, if no more of them follow.
LEMMA StandsPast ==
  ASSUME NEW b \in Seq(Byte), NEW p \in Nat, NEW S \in SUBSET Byte, NEW t \in Seq(S),
         Stands(t, b, p), At(b, p + Len(t)) \notin S
  PROVE  /\ p + Len(t) <= Len(b) => Past(b, p, S) = p + Len(t)
         /\ p + Len(t) > Len(b) /\ p <= Len(b) => Past(b, p, S) = Len(b)
         /\ p > Len(b) => Past(b, p, S) = p
<1>1. Len(b) \in Nat /\ Len(t) \in Nat /\ -1 \notin S /\ t \in Seq(Byte)
  <2>1. t \in Seq(Byte)
    BY SeqMonotonic
  <2>2. -1 \notin S
    BY DEF Byte
  <2>3. QED
    BY <2>1, <2>2, Bytes
<1>2. ASSUME NEW r \in p .. p + Len(t) - 1, r < Len(b) PROVE At(b, r) \in S
  <2>1. r - p \in Nat /\ r - p < Len(t) /\ p + (r - p) = r /\ (r - p) + 1 \in 1 .. Len(t)
    BY <1>1
  <2>2. At(b, p + (r - p)) = t[(r - p) + 1]
    BY <1>1, <1>2, <2>1, StandsAt
  <2>3. QED
    BY <2>1, <2>2, ElementOfSeq
<1>3. CASE p + Len(t) <= Len(b)
  <2> DEFINE q == p + Len(t)
  <2>1. q \in Nat /\ p <= q /\ At(b, q) \notin S /\ \A r \in p .. q - 1 : r < Len(b)
    BY <1>1, <1>3
  <2>2. \A r \in p .. q - 1 : At(b, r) \in S
    BY <1>2, <2>1
  <2> HIDE DEF q
  <2>3. Past(b, p, S) = q
    BY <1>1, <2>1, <2>2, PastIs
  <2>4. QED
    BY <1>1, <1>3, <2>3 DEF q
<1>4. CASE p + Len(t) > Len(b) /\ p <= Len(b)
  <2> DEFINE q == Len(b)
  <2>1. q \in Nat /\ p <= q /\ \A r \in p .. q - 1 : r < Len(b) /\ r \in p .. p + Len(t) - 1
    BY <1>1, <1>4
  <2>2. \A r \in p .. q - 1 : At(b, r) \in S
    BY <1>2, <2>1
  <2>3. At(b, q) = -1
    BY <1>1, AtIs
  <2> HIDE DEF q
  <2>4. Past(b, p, S) = q
    BY <1>1, <2>1, <2>2, <2>3, PastIs
  <2>5. QED
    BY <1>1, <1>4, <2>4 DEF q
<1>5. CASE p > Len(b)
  <2>1. At(b, p) = -1 /\ \A r \in p .. p - 1 : At(b, r) \in S
    BY <1>1, <1>5, AtIs
  <2>2. Past(b, p, S) = p
    BY <1>1, <2>1, PastIs
  <2>3. QED
    BY <1>1, <1>5, <2>2
<1>6. QED
  BY <1>1, <1>3, <1>4, <1>5

LEMMA BlankBytes == Blanks \in SUBSET Byte /\ -1 \notin Blanks /\ -1 \notin Digits /\ Digits \in SUBSET Byte
BY DEF Blanks, Byte, Digits

LEMMA BlankSkipped ==
  ASSUME NEW b \in Seq(Byte), NEW p \in Nat, NEW t \in Seq(Blanks),
         Stands(t, b, p), At(b, p + Len(t)) \notin Blanks
  PROVE  /\ p + Len(t) <= Len(b) => SkipWs(b, p) = p + Len(t)
         /\ p + Len(t) > Len(b) => SkipWs(b, p) \in Nat /\ SkipWs(b, p) >= Len(b)
<1>1. Len(b) \in Nat
  BY Bytes
<1>2. QED
  BY <1>1, BlankBytes, StandsPast DEF SkipWs

LEMMA NothingSkipped ==
  ASSUME NEW b \in Seq(Byte), NEW p \in Nat, At(b, p) \notin Blanks
  PROVE  SkipWs(b, p) = p
<1>1. \A r \in p .. p - 1 : At(b, r) \in Blanks
  OBVIOUS
<1>2. QED
  BY <1>1, BlankBytes, PastIs DEF SkipWs

-----------------------------------------------------------------------------
(* Json: pieces that stand one behind another *)

\* How far the first k pieces reach.
Reach(ps, k) == Len(FlattenSeq(SubSeq(ps, 1, k)))

LEMMA PieceStands ==
  ASSUME NEW ps \in Seq(Seq(Byte)), NEW k \in Nat, k < Len(ps)
  PROVE  /\ Reach(ps, k) \in Nat /\ ps[k + 1] \in Seq(Byte)
         /\ Reach(ps, k + 1) = Reach(ps, k) + Len(ps[k + 1])
         /\ \A b \in Seq(Byte) : \A o \in Nat :
              Stands(FlattenSeq(ps), b, o) => Stands(ps[k + 1], b, o + Reach(ps, k))
<1> DEFINE B == Seq(Byte)
           n == Len(ps)
           u == SubSeq(ps, 1, k)
           x == ps[k + 1]
           w == SubSeq(ps, k + 2, n)
<1>1. n \in Nat /\ x \in B /\ \A i \in 1 .. n : ps[i] \in B
  <2> HIDE DEF B
  <2>1. ps \in Seq(B) /\ n \in Nat
    BY LenProperties DEF B
  <2>2. \A i \in 1 .. n : ps[i] \in B
    BY <2>1, ElementOfSeq
  <2>3. k + 1 \in 1 .. n
    BY <2>1
  <2>4. QED
    BY <2>1, <2>2, <2>3
<1>2. u \in Seq(B) /\ w \in Seq(B)
  <2>1. \A i \in 1 .. k : ps[i] \in B
    BY <1>1
  <2>2. \A i \in k + 2 .. n : ps[i] \in B
    BY <1>1
  <2> HIDE DEF B, n
  <2>3. u \in Seq(B)
    BY <1>1, <2>1, SubSeqProperties
  <2>4. w \in Seq(B)
    BY <1>1, <2>2, SubSeqProperties
  <2>5. QED
    BY <2>3, <2>4
<1>3. SubSeq(ps, 1, k + 1) = Append(u, x) /\ ps = Append(u, x) \o w
  <2> DEFINE m == k + 1
  <2>1. m \in Nat /\ m \in 1 .. n /\ m - 1 = k /\ m + 1 = k + 2
    BY <1>1
  <2>2. ps \in Seq(B)
    OBVIOUS
  <2> HIDE DEF B, m
  <2>3. SubSeq(ps, 1, m) = Append(SubSeq(ps, 1, m - 1), ps[m])
    BY <1>1, <2>1, <2>2, SubSeqRecursiveSecond
  <2>4. SubSeq(ps, 1, m) \o SubSeq(ps, m + 1, n) = SubSeq(ps, 1, n)
    <3>1. 1 \in 1 .. Len(ps) + 1 /\ m \in 1 - 1 .. Len(ps) /\ n \in m .. Len(ps)
      BY <1>1, <2>1
    <3>2. QED
      BY <2>2, <3>1, ConcatAdjacentSubSeq
  <2>5. SubSeq(ps, 1, n) = ps
    BY <2>2, SubSeqFull
  <2>6. QED
    BY <2>1, <2>3, <2>4, <2>5 DEF m
<1> HIDE DEF u, w, x, n
<1>4. /\ FlattenSeq(u) \in B /\ FlattenSeq(w) \in B
      /\ FlattenSeq(Append(u, x)) = FlattenSeq(u) \o x
  BY <1>1, <1>2, FlattenAppend DEF B
<1>5. FlattenSeq(ps) = (FlattenSeq(u) \o x) \o FlattenSeq(w)
  <2>1. Append(u, x) \in Seq(B)
    <3> HIDE DEF B
    <3>1. QED
      BY <1>1, <1>2, AppendProperties
  <2>2. FlattenSeq(Append(u, x) \o w) = FlattenSeq(Append(u, x)) \o FlattenSeq(w)
    BY <1>2, <2>1, FlattenConcat DEF B
  <2>3. QED
    BY <1>3, <1>4, <2>2
<1> DEFINE f == FlattenSeq(u)
           g == FlattenSeq(w)
<1>6. f \in Seq(Byte) /\ g \in Seq(Byte) /\ x \in Seq(Byte)
  BY <1>1, <1>4 DEF B
<1>7. Reach(ps, k) = Len(f) /\ Reach(ps, k + 1) = Len(f \o x)
  BY <1>3, <1>4 DEF Reach, u
<1>8. FlattenSeq(ps) = (f \o x) \o g
  BY <1>5
<1> HIDE DEF f, g
<1>9. f \o x \in Seq(Byte) /\ Len(f \o x) = Len(f) + Len(x) /\ Len(f) \in Nat
  BY <1>6, Joined, Bytes
<1>10. ASSUME NEW b \in Seq(Byte), NEW o \in Nat, Stands(FlattenSeq(ps), b, o)
       PROVE  Stands(x, b, o + Len(f))
  <2>1. Stands((f \o x) \o g, b, o)
    BY <1>8, <1>10
  <2>2. Stands(f \o x, b, o)
    BY <1>6, <1>9, <1>10, <2>1, StandsJoined, ZenonT(30)
  <2>3. QED
    BY <1>6, <2>2, StandsJoined
<1>11. QED
  BY <1>6, <1>7, <1>9, <1>10 DEF x

LEMMA ReachIs ==
  ASSUME NEW ps \in Seq(Seq(Byte)), \A i \in 1 .. Len(ps) : Len(ps[i]) > 0
  PROVE  /\ Reach(ps, 0) = 0 /\ Reach(ps, Len(ps)) = Len(FlattenSeq(ps))
         /\ \A k \in 0 .. Len(ps) : Reach(ps, k) \in Nat /\ k <= Reach(ps, k)
<1> DEFINE n == Len(ps)
           T == {k \in Nat : k <= n => Reach(ps, k) \in Nat /\ k <= Reach(ps, k)}
<1>1. n \in Nat
  BY LenProperties
<1>2. Reach(ps, 0) = 0
  <2>1. SubSeq(ps, 1, 0) = <<>>
    BY SubSeqEmpty
  <2>2. QED
    BY <2>1, FlattenEmpty, EmptySeq DEF Reach
<1>3. Reach(ps, n) = Len(FlattenSeq(ps))
  BY SubSeqFull DEF Reach
<1>4. ASSUME NEW k \in T PROVE k + 1 \in T
  <2>1. SUFFICES ASSUME k + 1 <= n
                 PROVE  Reach(ps, k + 1) \in Nat /\ k + 1 <= Reach(ps, k + 1)
    OBVIOUS
  <2>2. k \in Nat /\ k < Len(ps) /\ k <= Reach(ps, k) /\ k + 1 \in 1 .. Len(ps)
    BY <1>1, <2>1
  <2>3. /\ Reach(ps, k) \in Nat /\ ps[k + 1] \in Seq(Byte)
        /\ Reach(ps, k + 1) = Reach(ps, k) + Len(ps[k + 1])
    BY <2>2, PieceStands
  <2>4. Len(ps[k + 1]) \in Nat /\ Len(ps[k + 1]) > 0
    BY <2>2, <2>3, Bytes
  <2>5. QED
    BY <2>2, <2>3, <2>4
<1>5. T = Nat
  <2>1. 0 \in T
    BY <1>2
  <2> HIDE DEF T
  <2>2. T \in SUBSET Nat
    BY DEF T
  <2>3. QED
    BY <1>4, <2>1, <2>2, SetInduction
<1>6. QED
  BY <1>1, <1>2, <1>3, <1>5

-----------------------------------------------------------------------------
(* Json: the loops *)

\* What call number k of n comes to, if those in good are calls that go well: the arguments
\* of the next one, or last.
Onward(n, acc, at, good, last, k) ==
  IF k \in good THEN IF k < n THEN Open(acc[k], at[k]) ELSE last ELSE NoJson

\* g goes through all calls, of which there are at least one and at most n.
Walks(g, n, acc, at, good, last) ==
  /\ g = [k \in Nat |-> g[k]] /\ g[0] = Open(acc[0], at[0])
  /\ \A k \in Nat : g[k + 1] = IF g[k].open THEN Onward(n, acc, at, good, last, k + 1) ELSE g[k]
  /\ \A k \in Nat : g[k].open => k < n /\ (k = 0 \/ k \in good) /\ g[k] = Open(acc[k], at[k])

WalksTo(n, acc, at, good, last, m) ==
  \E g : /\ Walks(g, n, acc, at, good, last)
         /\ g[m] = IF good = 1 .. n THEN last ELSE NoJson

LEMMA WalkExists ==
  ASSUME NEW n \in Nat \ {0}, NEW acc, NEW at, NEW good \in SUBSET (1 .. n), NEW last,
         last.open = FALSE,
         NEW m \in Nat \ {0}, \A k \in good : k < n => k < m
  PROVE  WalksTo(n, acc, at, good, last, m)
<1>1. PICK e \in 1 .. n :
        /\ \A k \in 1 .. e - 1 : k \in good
        /\ good = 1 .. n => e = n
        /\ good # 1 .. n => e \notin good
  <2>1. CASE good = 1 .. n
    BY <2>1
  <2>2. CASE good # 1 .. n
    <3>1. PICK e \in (1 .. n) \ good : \A k \in (1 .. n) \ good : e <= k
      <4> DEFINE T == (1 .. n) \ good
      <4>1. T \in SUBSET Nat
        OBVIOUS
      <4>2. T # {}
        BY <2>2, Zenon
      <4> HIDE DEF T
      <4>3. \E e \in T : \A k \in T : e <= k
        BY <4>1, <4>2, LeastNatural
      <4>4. QED
        BY <4>3 DEF T
    <3>2. \A k \in 1 .. e - 1 : k \in good
      BY <3>1
    <3>3. QED
      BY <2>2, <3>1, <3>2
  <2>3. QED
    BY <2>1, <2>2
<1> DEFINE end == IF good = 1 .. n THEN last ELSE NoJson
           g   == [k \in Nat |-> IF k < e THEN Open(acc[k], at[k]) ELSE end]
<1>2. ~end.open
  BY DEF NoJson
<1>3. \A k \in Nat : (k < e => g[k] = Open(acc[k], at[k])) /\ (k >= e => g[k] = end)
  <2> HIDE DEF end
  <2>1. QED
    OBVIOUS
<1>4. g = [k \in Nat |-> g[k]] /\ 0 < e
  OBVIOUS
<1> HIDE DEF g
<1>5. ASSUME NEW k \in Nat
      PROVE  /\ g[k + 1] = IF g[k].open THEN Onward(n, acc, at, good, last, k + 1) ELSE g[k]
             /\ g[k].open => k < n /\ (k = 0 \/ k \in good) /\ g[k] = Open(acc[k], at[k])
  <2>1. Open(acc[k], at[k]).open
    BY DEF Open
  <2>2. CASE k + 1 < e
    <3>1. k + 1 \in good /\ k + 1 < n /\ (k = 0 \/ k \in good)
      BY <1>1, <2>2
    <3>2. g[k] = Open(acc[k], at[k]) /\ g[k + 1] = Open(acc[k + 1], at[k + 1])
      BY <1>3, <2>2
    <3>3. QED
      BY <2>1, <3>1, <3>2 DEF Onward
  <2>3. CASE k + 1 = e
    <3>1. k < n /\ (k = 0 \/ k \in good) /\ k < e /\ k + 1 >= e
      BY <1>1, <2>3
    <3>2. g[k] = Open(acc[k], at[k]) /\ g[k + 1] = end
      BY <1>3, <3>1
    <3>3. Onward(n, acc, at, good, last, k + 1) = end
      <4>1. CASE good = 1 .. n
        BY <1>1, <2>3, <4>1 DEF Onward
      <4>2. CASE good # 1 .. n
        BY <1>1, <2>3, <4>2 DEF Onward
      <4>3. QED
        BY <4>1, <4>2
    <3> HIDE DEF end
    <3>4. QED
      BY <2>1, <3>1, <3>2, <3>3
  <2>4. CASE k + 1 > e
    <3>1. k >= e /\ k + 1 >= e
      BY <2>4
    <3>2. g[k] = end /\ g[k + 1] = end
      BY <1>3, <3>1
    <3> HIDE DEF end
    <3>3. QED
      BY <1>2, <3>2
  <2>5. QED
    BY <2>2, <2>3, <2>4
<1>6. Walks(g, n, acc, at, good, last)
  BY <1>3, <1>4, <1>5 DEF Walks
<1>7. m >= e
  <2>1. CASE e = 1
    BY <2>1
  <2>2. CASE e # 1
    <3>1. e - 1 \in 1 .. e - 1 /\ e - 1 < n
      BY <2>2
    <3>2. e - 1 \in good
      BY <1>1, <3>1
    <3>3. e - 1 < m
      BY <3>1, <3>2
    <3>4. QED
      BY <3>3
  <2>3. QED
    BY <2>1, <2>2
<1>8. g[m] = end
  BY <1>3, <1>7
<1>9. QED
  BY <1>6, <1>8 DEF WalksTo

\* Two functions that go through the same calls are the same.
LEMMA WalkIs ==
  ASSUME NEW f, NEW g, f[0] = g[0],
         \A k \in Nat : f[k] = g[k] => f[k + 1] = g[k + 1]
  PROVE  \A k \in Nat : f[k] = g[k]
<1> DEFINE T == {k \in Nat : f[k] = g[k]}
<1>1. 0 \in T /\ \A k \in T : k + 1 \in T
  OBVIOUS
<1>2. T = Nat
  <2> HIDE DEF T
  <2>1. T \in SUBSET Nat
    BY DEF T
  <2>2. QED
    BY <1>1, <2>1, SetInduction
<1>3. QED
  BY <1>2

LEMMA StringCallsWalk ==
  ASSUME NEW b \in Seq(Byte), NEW n \in Nat \ {0}, NEW acc, NEW at,
         NEW good \in SUBSET (1 .. n), NEW last, last.open = FALSE, acc[0] = <<>>,
         \A k \in good : k < n => k <= Len(b),
         \A k \in 0 .. n - 1 : k = 0 \/ k \in good =>
           NextChar(b, Open(acc[k], at[k])) = Onward(n, acc, at, good, last, k + 1)
  PROVE  DecStr(b, at[0]) = IF good = 1 .. n THEN last ELSE NoJson
<1> DEFINE m == Len(b) + 1
           Step(f, k) == IF k = 0 THEN Open(<<>>, at[0])
                         ELSE IF f[k - 1].open THEN NextChar(b, f[k - 1]) ELSE f[k - 1]
           Is(f) == f = [k \in Nat |-> Step(f, k)]
           call == StringCalls(b, at[0])
<1>1. m \in Nat \ {0} /\ \A k \in good : k < n => k < m
  <2>1. Len(b) \in Nat
    BY Bytes
  <2>2. QED
    BY <2>1
<1>2. PICK g : /\ Walks(g, n, acc, at, good, last)
               /\ g[m] = IF good = 1 .. n THEN last ELSE NoJson
  <2> HIDE DEF m
  <2>1. WalksTo(n, acc, at, good, last, m)
    BY <1>1, WalkExists
  <2>2. QED
    BY <2>1 DEF WalksTo
<1>3. ASSUME NEW k \in Nat
      PROVE  g[k + 1] = IF g[k].open THEN NextChar(b, g[k]) ELSE g[k]
  <2>1. CASE g[k].open
    <3>1. /\ k < n /\ (k = 0 \/ k \in good) /\ g[k] = Open(acc[k], at[k])
          /\ g[k + 1] = Onward(n, acc, at, good, last, k + 1)
      BY <1>2, <2>1 DEF Walks
    <3>2. k \in 0 .. n - 1
      BY <3>1
    <3>3. QED
      BY <2>1, <3>1, <3>2
  <2>2. CASE ~g[k].open
    BY <1>2, <2>2 DEF Walks
  <2>3. QED
    BY <2>1, <2>2
<1>4. g = [k \in Nat |-> g[k]] /\ g[0] = Open(<<>>, at[0])
  BY <1>2 DEF Walks
<1>5. ASSUME NEW k \in Nat PROVE g[k] = Step(g, k)
  <2>1. CASE k = 0
    BY <1>4, <2>1
  <2>2. CASE k # 0
    <3>1. PICK j \in Nat : k - 1 = j /\ k = j + 1
      <4>1. k - 1 \in Nat /\ k = (k - 1) + 1
        BY <2>2
      <4>2. QED
        BY <4>1
    <3>2. g[j + 1] = IF g[j].open THEN NextChar(b, g[j]) ELSE g[j]
      BY <1>3
    <3>3. QED
      BY <2>2, <3>1, <3>2
  <2>3. QED
    BY <2>1, <2>2
<1>6. Is(g)
  <2> HIDE DEF Step
  <2>1. QED
    BY <1>4, <1>5
<1>7. Is(call)
  <2>1. call = CHOOSE f : Is(f)
    BY DEF StringCalls
  <2> HIDE DEF Is, call
  <2>2. QED
    BY <1>6, <2>1, Zenon
<1>8. DecStr(b, at[0]) = call[m]
  BY DEF DecStr
<1> HIDE DEF call
<1>9. call[0] = g[0]
  BY <1>4, <1>7
<1>10. ASSUME NEW k \in Nat, call[k] = g[k] PROVE call[k + 1] = g[k + 1]
  <2>1. PICK i \in Nat : i = k + 1 /\ i # 0 /\ i - 1 = k
    OBVIOUS
  <2>2. call[i] = Step(call, i)
    <3> HIDE DEF Step
    <3>1. QED
      BY <1>7
  <2>3. Step(call, i) = IF call[k].open THEN NextChar(b, call[k]) ELSE call[k]
    BY <2>1, Zenon
  <2>4. g[i] = IF g[k].open THEN NextChar(b, g[k]) ELSE g[k]
    BY <1>3, <2>1
  <2> HIDE DEF Step
  <2>5. call[i] = g[i]
    BY <1>10, <2>2, <2>3, <2>4, Zenon
  <2>6. QED
    BY <2>1, <2>5
<1>11. call[m] = g[m]
  <2> HIDE DEF m, Is
  <2>1. QED
    BY <1>1, <1>9, <1>10, WalkIs
<1>12. QED
  BY <1>2, <1>8, <1>11

EntrySteps(type, b, below, n, acc, at, good, last) ==
  /\ acc[0] = <<>> /\ last.open = FALSE
  /\ \A k \in good : k < n => k <= Len(b)
  /\ \A k \in 0 .. n - 1 : k = 0 \/ k \in good =>
       NextEntry(type, b, below, Open(acc[k], at[k])) = Onward(n, acc, at, good, last, k + 1)

\* What the loop over the entries comes to.
EntryLoop(type, b, below, p) == EntryCalls(type, b, below, p)[Len(b) + 1]

LEMMA EntryCallsWalk ==
  ASSUME NEW type, NEW b \in Seq(Byte), NEW below, NEW n \in Nat \ {0}, NEW acc, NEW at,
         NEW good \in SUBSET (1 .. n), NEW last,
         EntrySteps(type, b, below, n, acc, at, good, last)
  PROVE  EntryLoop(type, b, below, at[0]) = IF good = 1 .. n THEN last ELSE NoJson
<1> DEFINE m == Len(b) + 1
           Step(f, k) == IF k = 0 THEN Open(<<>>, at[0])
                         ELSE IF f[k - 1].open THEN NextEntry(type, b, below, f[k - 1]) ELSE f[k - 1]
           Is(f) == f = [k \in Nat |-> Step(f, k)]
           call == EntryCalls(type, b, below, at[0])
<1>1. m \in Nat \ {0} /\ \A k \in good : k < n => k < m
  <2>1. Len(b) \in Nat
    BY Bytes
  <2>2. QED
    BY <2>1 DEF EntrySteps
<1>2. PICK g : /\ Walks(g, n, acc, at, good, last)
               /\ g[m] = IF good = 1 .. n THEN last ELSE NoJson
  <2> HIDE DEF m
  <2>1. WalksTo(n, acc, at, good, last, m)
    BY <1>1, WalkExists DEF EntrySteps
  <2>2. QED
    BY <2>1 DEF WalksTo
<1>3. ASSUME NEW k \in Nat
      PROVE  g[k + 1] = IF g[k].open THEN NextEntry(type, b, below, g[k]) ELSE g[k]
  <2>1. CASE g[k].open
    <3>1. /\ k < n /\ (k = 0 \/ k \in good) /\ g[k] = Open(acc[k], at[k])
          /\ g[k + 1] = Onward(n, acc, at, good, last, k + 1)
      BY <1>2, <2>1 DEF Walks
    <3>2. k \in 0 .. n - 1
      BY <3>1
    <3>3. QED
      BY <2>1, <3>1, <3>2 DEF EntrySteps
  <2>2. CASE ~g[k].open
    BY <1>2, <2>2 DEF Walks
  <2>3. QED
    BY <2>1, <2>2
<1>4. g = [k \in Nat |-> g[k]] /\ g[0] = Open(<<>>, at[0])
  BY <1>2 DEF Walks, EntrySteps
<1>5. ASSUME NEW k \in Nat PROVE g[k] = Step(g, k)
  <2>1. CASE k = 0
    BY <1>4, <2>1
  <2>2. CASE k # 0
    <3>1. PICK j \in Nat : k - 1 = j /\ k = j + 1
      <4>1. k - 1 \in Nat /\ k = (k - 1) + 1
        BY <2>2
      <4>2. QED
        BY <4>1
    <3>2. g[j + 1] = IF g[j].open THEN NextEntry(type, b, below, g[j]) ELSE g[j]
      BY <1>3
    <3>3. QED
      BY <2>2, <3>1, <3>2
  <2>3. QED
    BY <2>1, <2>2
<1>6. Is(g)
  <2> HIDE DEF Step
  <2>1. QED
    BY <1>4, <1>5
<1>7. Is(call)
  <2>1. call = CHOOSE f : Is(f)
    BY DEF EntryCalls
  <2> HIDE DEF m, Is, call
  <2>2. QED
    BY <1>6, <2>1, Zenon
<1> HIDE DEF call
<1>8. call[0] = g[0]
  BY <1>4, <1>7
<1>9. ASSUME NEW k \in Nat, call[k] = g[k] PROVE call[k + 1] = g[k + 1]
  <2>1. PICK i \in Nat : i = k + 1 /\ i # 0 /\ i - 1 = k
    OBVIOUS
  <2>2. call[i] = Step(call, i)
    <3> HIDE DEF Step
    <3>1. QED
      BY <1>7
  <2>3. Step(call, i) = IF call[k].open THEN NextEntry(type, b, below, call[k]) ELSE call[k]
    BY <2>1, Zenon
  <2>4. g[i] = IF g[k].open THEN NextEntry(type, b, below, g[k]) ELSE g[k]
    BY <1>3, <2>1
  <2> HIDE DEF Step
  <2>5. call[i] = g[i]
    BY <1>9, <2>2, <2>3, <2>4, Zenon
  <2>6. QED
    BY <2>1, <2>5
<1>10. call[m] = g[m]
  <2> HIDE DEF Is
  <2>1. QED
    BY <1>1, <1>8, <1>9, WalkIs
<1>11. QED
  BY <1>2, <1>10 DEF call, EntryLoop

\* The pieces from the first to a later one reach as far, or farther.
LEMMA ReachGrows ==
  ASSUME NEW ps \in Seq(Seq(Byte)), \A i \in 1 .. Len(ps) : Len(ps[i]) > 0
  PROVE  \A k \in 0 .. Len(ps) : Reach(ps, k) <= Reach(ps, Len(ps))
<1> DEFINE n == Len(ps)
           T == {d \in Nat : \A k \in 0 .. n : k + d <= n => Reach(ps, k) <= Reach(ps, k + d)}
<1>1. n \in Nat /\ \A k \in 0 .. n : Reach(ps, k) \in Nat
  BY LenProperties, ReachIs
<1>2. 0 \in T
  BY <1>1
<1>3. ASSUME NEW d \in T PROVE d + 1 \in T
  <2>1. SUFFICES ASSUME NEW k \in 0 .. n, k + (d + 1) <= n
                 PROVE  Reach(ps, k) <= Reach(ps, k + (d + 1))
    OBVIOUS
  <2>2. PICK i \in Nat : i = k + d /\ i + 1 = k + (d + 1) /\ i < n
    BY <1>1, <2>1
  <2>3. Reach(ps, k) <= Reach(ps, i)
    BY <1>1, <2>2
  <2>4. Reach(ps, i + 1) = Reach(ps, i) + Len(ps[i + 1]) /\ ps[i + 1] \in Seq(Byte)
    BY <2>2, PieceStands
  <2>5. Len(ps[i + 1]) \in Nat /\ Reach(ps, i) \in Nat /\ Reach(ps, k) \in Nat
    BY <1>1, <2>2, <2>4, Bytes
  <2>6. QED
    BY <2>2, <2>3, <2>4, <2>5
<1>4. T = Nat
  <2> HIDE DEF T
  <2>1. T \in SUBSET Nat
    BY DEF T
  <2>2. QED
    BY <1>2, <1>3, <2>1, SetInduction
<1>5. ASSUME NEW k \in 0 .. n PROVE Reach(ps, k) <= Reach(ps, n)
  <2>1. PICK d \in Nat : k + d = n
    <3>1. n - k \in Nat /\ k + (n - k) = n
      BY <1>1
    <3>2. QED
      BY <3>1
  <2>2. d \in T
    BY <1>4
  <2>3. k + d <= n => Reach(ps, k) <= Reach(ps, k + d)
    BY <2>2
  <2>4. k + d <= n
    BY <1>1, <2>1
  <2>5. QED
    BY <2>1, <2>3, <2>4
<1>6. QED
  BY <1>5

-----------------------------------------------------------------------------
(* Json: strings *)

LEMMA TwoBytes ==
  ASSUME NEW c \in Byte, NEW d \in Byte
  PROVE  <<c, d>> \in Seq(Byte) /\ Len(<<c, d>>) = 2 /\ <<c, d>>[1] = c /\ <<c, d>>[2] = d
OBVIOUS

LEMMA SixBytes ==
  ASSUME NEW c \in Byte, NEW d \in Byte
  PROVE  LET t == <<Backslash, LetterU, 48, 48, c, d>>
         IN  /\ t \in Seq(Byte) /\ Len(t) = 6
             /\ t[1] = Backslash /\ t[2] = LetterU /\ t[3] = 48 /\ t[4] = 48 /\ t[5] = c /\ t[6] = d
<1>1. Backslash \in Byte /\ LetterU \in Byte /\ 48 \in Byte
  BY DEF Byte, Backslash, LetterU
<1>2. QED
  BY <1>1

LEMMA EscapesAre ==
  ASSUME NEW c \in Byte
  PROVE  \/ \E d \in Byte : /\ EscapeByte(c) = <<Backslash, d>>
                            /\ d \in DOMAIN ShortEscapes /\ ShortEscapes[d] = c
         \/ \E i \in 0 .. 15, j \in 0 .. 15 :
              /\ EscapeByte(c) = <<Backslash, LetterU, 48, 48, HexDigit(i), HexDigit(j)>>
              /\ c = i * 16 + j
         \/ EscapeByte(c) = <<c>> /\ c \notin {Quote, Backslash}
<1>1. CASE c \in {Quote, Backslash}
  <2>1. EscapeByte(c) = <<Backslash, c>>
    BY <1>1 DEF EscapeByte, Quote, Backslash
  <2>2. c \in DOMAIN ShortEscapes /\ ShortEscapes[c] = c
    BY <1>1 DEF ShortEscapes, Quote, Backslash
  <2>3. QED
    BY <2>1, <2>2
<1>2. CASE c = 10
  <2>1. EscapeByte(c) = <<Backslash, 110>>
    BY <1>2 DEF EscapeByte, Quote, Backslash
  <2>2. 110 \in DOMAIN ShortEscapes /\ ShortEscapes[110] = c /\ 110 \in Byte
    BY <1>2 DEF ShortEscapes, Quote, Backslash, Byte
  <2>3. QED
    BY <2>1, <2>2
<1>3. CASE c = 13
  <2>1. EscapeByte(c) = <<Backslash, 114>>
    BY <1>3 DEF EscapeByte, Quote, Backslash
  <2>2. 114 \in DOMAIN ShortEscapes /\ ShortEscapes[114] = c /\ 114 \in Byte
    BY <1>3 DEF ShortEscapes, Quote, Backslash, Byte
  <2>3. QED
    BY <2>1, <2>2
<1>4. CASE c = 9
  <2>1. EscapeByte(c) = <<Backslash, 116>>
    BY <1>4 DEF EscapeByte, Quote, Backslash
  <2>2. 116 \in DOMAIN ShortEscapes /\ ShortEscapes[116] = c /\ 116 \in Byte
    BY <1>4 DEF ShortEscapes, Quote, Backslash, Byte
  <2>3. QED
    BY <2>1, <2>2
<1>5. CASE c < 32 /\ c \notin {9, 10, 13}
  <2>1. EscapeByte(c) = <<Backslash, LetterU, 48, 48, HexDigit(c \div 16), HexDigit(c % 16)>>
    BY <1>5 DEF EscapeByte, Quote, Backslash
  <2> DEFINE i == c \div 16
             j == c % 16
  <2>2. c \in 0 .. 31
    BY <1>5 DEF Byte
  <2>3. i \in 0 .. 15 /\ j \in 0 .. 15 /\ c = i * 16 + j
    BY <2>2
  <2>4. EscapeByte(c) = <<Backslash, LetterU, 48, 48, HexDigit(i), HexDigit(j)>>
    BY <2>1
  <2> HIDE DEF i, j
  <2>5. QED
    BY <2>3, <2>4
<1>6. CASE ~(c < 32) /\ c \notin {Quote, Backslash}
  <2>1. EscapeByte(c) = <<c>>
    BY <1>6 DEF EscapeByte, Quote, Backslash, Byte
  <2>2. QED
    BY <1>6, <2>1
<1>7. QED
  BY <1>1, <1>2, <1>3, <1>4, <1>5, <1>6

LEMMA EscapeByteType ==
  ASSUME NEW c \in Byte
  PROVE  EscapeByte(c) \in Seq(Byte) /\ Len(EscapeByte(c)) > 0
<1>1. Backslash \in Byte
  BY DEF Byte, Backslash
<1>2. ASSUME NEW d \in Byte, EscapeByte(c) = <<Backslash, d>>
      PROVE  EscapeByte(c) \in Seq(Byte) /\ Len(EscapeByte(c)) > 0
  BY <1>1, <1>2, TwoBytes
<1>3. ASSUME NEW i \in 0 .. 15, NEW j \in 0 .. 15,
             EscapeByte(c) = <<Backslash, LetterU, 48, 48, HexDigit(i), HexDigit(j)>>
      PROVE  EscapeByte(c) \in Seq(Byte) /\ Len(EscapeByte(c)) > 0
  <2>1. HexDigit(i) \in Byte /\ HexDigit(j) \in Byte
    BY HexDigitIs DEF Safe
  <2>2. QED
    BY <1>3, <2>1, SixBytes
<1>4. CASE EscapeByte(c) = <<c>>
  BY <1>4, OneByte
<1>5. QED
  BY <1>2, <1>3, <1>4, EscapesAre

\* What decode_str makes of a character that was escaped, whole or cut short.
ReadsOn(t, b, p, acc, c) ==
  NextChar(b, Open(acc, p)) =
    IF p + Len(t) <= Len(b) THEN Open(Append(acc, c), p + Len(t)) ELSE NoJson

LEMMA NothingRead ==
  ASSUME NEW b \in Seq(Byte), NEW p \in Nat, p >= Len(b), NEW acc
  PROVE  NextChar(b, Open(acc, p)) = NoJson
<1>1. Open(acc, p).pos = p /\ At(b, p) = -1
  BY AtIs DEF Open
<1>2. -1 # Quote /\ -1 # Backslash
  BY DEF Quote, Backslash
<1>3. QED
  BY <1>1, <1>2 DEF NextChar

LEMMA PlainRead ==
  ASSUME NEW b \in Seq(Byte), NEW p \in Nat, NEW acc, NEW c \in Byte \ {Quote, Backslash},
         Stands(<<c>>, b, p)
  PROVE  ReadsOn(<<c>>, b, p, acc, c)
<1> DEFINE t == <<c>>
<1>1. Open(acc, p).pos = p /\ Open(acc, p).value = acc /\ Len(b) \in Nat
  BY Bytes DEF Open
<1>2. t \in Seq(Byte) /\ Len(t) = 1 /\ t[1] = c
  BY OneByte
<1> HIDE DEF t
<1>3. CASE p + 1 <= Len(b)
  <2>1. 0 \in Nat /\ 0 < Len(t) /\ p + 0 = p /\ 0 + 1 = 1
    BY <1>2
  <2>2. At(b, p + 0) = IF p + 0 < Len(b) THEN t[0 + 1] ELSE -1
    BY <1>2, <2>1, StandsAt DEF t
  <2>3. At(b, p) = c
    BY <1>1, <1>2, <1>3, <2>1, <2>2
  <2>4. c # -1 /\ c # Quote /\ c # Backslash
    BY DEF Byte
  <2>5. NextChar(b, Open(acc, p)) = Open(Append(acc, c), p + 1)
    BY <1>1, <2>3, <2>4 DEF NextChar
  <2>6. QED
    BY <1>2, <1>3, <2>5 DEF ReadsOn, t
<1>4. CASE ~(p + 1 <= Len(b))
  <2>1. p >= Len(b)
    BY <1>1, <1>4
  <2>2. QED
    BY <1>2, <1>4, <2>1, NothingRead DEF ReadsOn, t
<1>5. QED
  BY <1>3, <1>4

LEMMA ShortRead ==
  ASSUME NEW b \in Seq(Byte), NEW p \in Nat, NEW acc, NEW d \in DOMAIN ShortEscapes, d \in Byte,
         Stands(<<Backslash, d>>, b, p)
  PROVE  ReadsOn(<<Backslash, d>>, b, p, acc, ShortEscapes[d])
<1> DEFINE t == <<Backslash, d>>
<1>1. Open(acc, p).pos = p /\ Open(acc, p).value = acc /\ Len(b) \in Nat
  BY Bytes DEF Open
<1>2. t \in Seq(Byte) /\ Len(t) = 2 /\ t[1] = Backslash /\ t[2] = d /\ Backslash \in Byte
  <2>1. Backslash \in Byte
    BY DEF Backslash, Byte
  <2>2. QED
    BY <2>1, TwoBytes
<1>3. Stands(t, b, p)
  OBVIOUS
<1> HIDE DEF t
<1>4. /\ At(b, p) = IF p < Len(b) THEN Backslash ELSE -1
      /\ At(b, p + 1) = IF p + 1 < Len(b) THEN d ELSE -1
  <2>1. At(b, p + 0) = IF p + 0 < Len(b) THEN t[0 + 1] ELSE -1
    <3>1. 0 \in Nat /\ 0 < Len(t)
      BY <1>2
    <3>2. QED
      BY <1>2, <1>3, <3>1, StandsAt
  <2>2. At(b, p + 1) = IF p + 1 < Len(b) THEN t[1 + 1] ELSE -1
    BY <1>2, <1>3, StandsAt
  <2>3. p + 0 = p /\ 0 + 1 = 1 /\ 1 + 1 = 2
    OBVIOUS
  <2>4. QED
    BY <1>2, <2>1, <2>2, <2>3
<1>5. -1 \notin DOMAIN ShortEscapes /\ LetterU # -1 /\ Backslash # Quote /\ Backslash # -1 /\ LetterU \notin DOMAIN ShortEscapes
  BY DEF ShortEscapes, LetterU, Quote, Backslash
<1>6. CASE p + 2 <= Len(b)
  <2>1. p < Len(b) /\ p + 1 < Len(b)
    BY <1>1, <1>6
  <2>2. DecEsc(b, p + 1) = Json(ShortEscapes[d], p + 1 + 1)
    <3> DEFINE r == p + 1
    <3>1. At(b, r) = d
      BY <1>4, <2>1
    <3> HIDE DEF r
    <3>2. DecEsc(b, r) = Json(ShortEscapes[d], r + 1)
      BY <1>5, <3>1 DEF DecEsc
    <3>3. QED
      BY <3>2 DEF r
  <2>3. p + 1 + 1 = p + 2
    OBVIOUS
  <2>4. NextChar(b, Open(acc, p)) = Open(Append(acc, ShortEscapes[d]), p + 2)
    BY <1>1, <1>4, <1>5, <2>1, <2>2, <2>3 DEF NextChar, Json
  <2>5. QED
    BY <1>2, <1>6, <2>4 DEF ReadsOn, t
<1>7. CASE p < Len(b) /\ ~(p + 2 <= Len(b))
  <2>1. ~(p + 1 < Len(b))
    BY <1>1, <1>7
  <2>2. DecEsc(b, p + 1) = NoJson
    BY <1>4, <1>5, <2>1 DEF DecEsc
  <2>3. NextChar(b, Open(acc, p)) = NoJson
    BY <1>1, <1>4, <1>5, <1>7, <2>2 DEF NextChar, NoJson
  <2>4. QED
    BY <1>2, <1>7, <2>3 DEF ReadsOn, t
<1>8. CASE ~(p < Len(b))
  <2>1. p >= Len(b) /\ ~(p + 2 <= Len(b))
    BY <1>1, <1>8
  <2>2. QED
    BY <1>2, <2>1, NothingRead DEF ReadsOn, t
<1>9. QED
  BY <1>1, <1>6, <1>7, <1>8

\* The hexadecimal digit at p is that of i.
HexAt(b, p, i) == At(b, p) = HexDigit(i)

HexIs(n, u, v, w, x) == n = ((u * 16 + v) * 16 + w) * 16 + x

LEMMA HexRead ==
  ASSUME NEW b \in Seq(Byte), NEW q \in Nat,
         NEW u \in 0 .. 15, NEW v \in 0 .. 15, NEW w \in 0 .. 15, NEW x \in 0 .. 15,
         HexAt(b, q, u), HexAt(b, q + 1, v), HexAt(b, q + 2, w), HexAt(b, q + 3, x)
  PROVE  HexIs(HexToInt(b, q), u, v, w, x)
<1> DEFINE digit(k) == Hex(At(b, q + k))
<1>1. HexToInt(b, q) = IF \E k \in 0 .. 3 : digit(k) < 0 THEN -1
                       ELSE ((digit(0) * 16 + digit(1)) * 16 + digit(2)) * 16 + digit(3)
  BY DEF HexToInt
<1>2. q + 0 = q
  OBVIOUS
<1>3. digit(0) = u /\ digit(1) = v /\ digit(2) = w /\ digit(3) = x
  BY <1>2, HexDigitIs DEF HexAt
<1> HIDE DEF digit
<1>4. \A k \in 0 .. 3 : k = 0 \/ k = 1 \/ k = 2 \/ k = 3
  OBVIOUS
<1>5. \A k \in 0 .. 3 : ~(digit(k) < 0)
  BY <1>3, <1>4
<1>6. QED
  BY <1>1, <1>3, <1>5 DEF HexIs

LEMMA HexCut ==
  ASSUME NEW b \in Seq(Byte), NEW q \in Nat, q + 4 > Len(b)
  PROVE  HexToInt(b, q) = -1
<1> DEFINE digit(k) == Hex(At(b, q + k))
<1>1. HexToInt(b, q) = IF \E k \in 0 .. 3 : digit(k) < 0 THEN -1
                       ELSE ((digit(0) * 16 + digit(1)) * 16 + digit(2)) * 16 + digit(3)
  BY DEF HexToInt
<1>2. At(b, q + 3) = -1
  <2>1. q + 3 \in Nat /\ q + 3 >= Len(b)
    BY Bytes
  <2>2. QED
    BY <2>1, AtIs
<1>3. Hex(-1) = -1
  BY DEF Hex, Digits
<1>4. digit(3) = -1
  BY <1>2, <1>3
<1> HIDE DEF digit
<1>5. QED
  BY <1>1, <1>4

LEMMA LongRead ==
  ASSUME NEW b \in Seq(Byte), NEW p \in Nat, NEW acc, NEW i \in 0 .. 15, NEW j \in 0 .. 15,
         NEW c \in Byte, c = i * 16 + j,
         Stands(<<Backslash, LetterU, 48, 48, HexDigit(i), HexDigit(j)>>, b, p)
  PROVE  ReadsOn(<<Backslash, LetterU, 48, 48, HexDigit(i), HexDigit(j)>>, b, p, acc, c)
<1> DEFINE t == <<Backslash, LetterU, 48, 48, HexDigit(i), HexDigit(j)>>
<1>1. Open(acc, p).pos = p /\ Open(acc, p).value = acc /\ Len(b) \in Nat
  BY Bytes DEF Open
<1>2. /\ t \in Seq(Byte) /\ Len(t) = 6 /\ t[1] = Backslash /\ t[2] = LetterU
      /\ t[3] = HexDigit(0) /\ t[4] = HexDigit(0) /\ t[5] = HexDigit(i) /\ t[6] = HexDigit(j)
  <2>1. HexDigit(i) \in Byte /\ HexDigit(j) \in Byte
    BY HexDigitIs DEF Safe
  <2>2. HexDigit(0) = 48
    BY DEF HexDigit
  <2>3. QED
    BY <2>1, <2>2, SixBytes
<1>3. Stands(t, b, p)
  OBVIOUS
<1> HIDE DEF t
<1>4. ASSUME NEW k \in 0 .. 5 PROVE At(b, p + k) = IF p + k < Len(b) THEN t[k + 1] ELSE -1
  <2>1. k \in Nat /\ k < Len(t)
    BY <1>2
  <2>2. QED
    BY <1>2, <1>3, <2>1, StandsAt
<1>5. p + 0 = p /\ 0 + 1 = 1 /\ 1 + 1 = 2 /\ 2 + 1 = 3 /\ 3 + 1 = 4 /\ 4 + 1 = 5 /\ 5 + 1 = 6
  OBVIOUS
<1>6. /\ -1 \notin DOMAIN ShortEscapes /\ LetterU # -1 /\ Backslash # Quote /\ Backslash # -1
      /\ LetterU \notin DOMAIN ShortEscapes
  BY DEF ShortEscapes, LetterU, Quote, Backslash
<1> DEFINE e == p + 1
           q == p + 2
<1>7. e \in Nat /\ q \in Nat /\ e + 1 = q /\ Open(acc, p).pos + 1 = e
  BY <1>1
<1>8. /\ At(b, p) = IF p < Len(b) THEN Backslash ELSE -1
      /\ At(b, e) = IF e < Len(b) THEN LetterU ELSE -1
  <2>1. /\ At(b, p + 0) = IF p + 0 < Len(b) THEN t[0 + 1] ELSE -1
        /\ At(b, p + 1) = IF p + 1 < Len(b) THEN t[1 + 1] ELSE -1
    BY <1>4
  <2>2. QED
    BY <1>2, <1>5, <2>1
<1>9. DecEsc(b, e) = IF e < Len(b) THEN DecUnicode(b, q) ELSE NoJson
  <2> HIDE DEF e, q
  <2>1. QED
    BY <1>6, <1>7, <1>8 DEF DecEsc
<1>10. CASE p + 6 <= Len(b)
  <2>1. p < Len(b) /\ p + 1 < Len(b) /\ p + 2 < Len(b) /\ p + 3 < Len(b) /\ p + 4 < Len(b) /\ p + 5 < Len(b)
    BY <1>1, <1>10
  <2>2. /\ At(b, p + 2) = t[2 + 1] /\ At(b, p + 3) = t[3 + 1]
        /\ At(b, p + 4) = t[4 + 1] /\ At(b, p + 5) = t[5 + 1]
    BY <1>4, <2>1
  <2>3. q + 1 = p + 3 /\ q + 2 = p + 4 /\ q + 3 = p + 5 /\ q + 4 = p + 6
    OBVIOUS
  <2>4. /\ At(b, q) = HexDigit(0) /\ At(b, q + 1) = HexDigit(0)
        /\ At(b, q + 2) = HexDigit(i) /\ At(b, q + 3) = HexDigit(j)
    BY <1>2, <1>5, <2>2, <2>3
  <2> HIDE DEF q
  <2>5. HexToInt(b, q) = ((0 * 16 + 0) * 16 + i) * 16 + j
    <3>1. ASSUME NEW z \in 0 .. 15, z = 0
          PROVE  HexIs(HexToInt(b, q), z, z, i, j)
      <4>1. HexAt(b, q, z) /\ HexAt(b, q + 1, z) /\ HexAt(b, q + 2, i) /\ HexAt(b, q + 3, j)
        BY <2>4, <3>1 DEF HexAt
      <4>2. QED
        BY <1>7, <4>1, HexRead
    <3>2. 0 \in 0 .. 15
      OBVIOUS
    <3>3. QED
      BY <3>1, <3>2 DEF HexIs
  <2>6. HexToInt(b, q) = c /\ ~(c < 0) /\ c >= 0 /\ c \notin HighSurrogates
    <3>1. ((0 * 16 + 0) * 16 + i) * 16 + j = i * 16 + j
      OBVIOUS
    <3>2. HexToInt(b, q) = c /\ c \in 0 .. 255
      BY <2>5, <3>1 DEF Byte
    <3>3. \A x \in HighSurrogates : x > 255
      BY DEF HighSurrogates
    <3>4. c \notin HighSurrogates
      BY <3>2, <3>3
    <3>5. QED
      BY <3>2, <3>4
  <2>7. DecUnicode(b, q) = Json(c, q + 4)
    BY <2>6 DEF DecUnicode
  <2>8. DecEsc(b, e).ok /\ DecEsc(b, e).value = c /\ DecEsc(b, e).pos = p + 6
    BY <1>9, <2>1, <2>3, <2>7 DEF Json, e
  <2> HIDE DEF e
  <2>9. NextChar(b, Open(acc, p)) = Open(Append(acc, c), p + 6)
    BY <1>1, <1>6, <1>7, <1>8, <2>1, <2>8 DEF NextChar
  <2>10. QED
    BY <1>2, <1>10, <2>9 DEF ReadsOn, t
<1>11. CASE p < Len(b) /\ ~(p + 6 <= Len(b))
  <2>1. DecEsc(b, e) = NoJson
    <3>1. q + 4 > Len(b)
      BY <1>1, <1>11
    <3> HIDE DEF q
    <3>2. HexToInt(b, q) = -1
      BY <1>7, <3>1, HexCut
    <3>3. DecUnicode(b, q) = NoJson
      <4>1. \A x \in HighSurrogates : x > 255
        BY DEF HighSurrogates
      <4>2. -1 \notin HighSurrogates
        BY <4>1
      <4>3. QED
        BY <3>2, <4>2 DEF DecUnicode
    <3>4. QED
      BY <1>9, <3>3
  <2> HIDE DEF e, q
  <2>2. NextChar(b, Open(acc, p)) = NoJson
    BY <1>1, <1>6, <1>7, <1>8, <1>11, <2>1 DEF NextChar, NoJson
  <2>3. QED
    BY <1>2, <1>11, <2>2 DEF ReadsOn, t
<1>12. CASE ~(p < Len(b))
  <2>1. p >= Len(b) /\ ~(p + 6 <= Len(b))
    BY <1>1, <1>12
  <2>2. QED
    BY <1>2, <2>1, NothingRead DEF ReadsOn, t
<1>13. QED
  BY <1>1, <1>10, <1>11, <1>12 DEF t

LEMMA EscapeRead ==
  ASSUME NEW b \in Seq(Byte), NEW p \in Nat, NEW acc, NEW c \in Byte, Stands(EscapeByte(c), b, p)
  PROVE  ReadsOn(EscapeByte(c), b, p, acc, c)
<1>1. ASSUME NEW d \in Byte, EscapeByte(c) = <<Backslash, d>>,
             d \in DOMAIN ShortEscapes, ShortEscapes[d] = c
      PROVE  ReadsOn(EscapeByte(c), b, p, acc, c)
  BY <1>1, ShortRead
<1>2. ASSUME NEW i \in 0 .. 15, NEW j \in 0 .. 15, c = i * 16 + j,
             EscapeByte(c) = <<Backslash, LetterU, 48, 48, HexDigit(i), HexDigit(j)>>
      PROVE  ReadsOn(EscapeByte(c), b, p, acc, c)
  BY <1>2, LongRead
<1>3. CASE EscapeByte(c) = <<c>> /\ c \notin {Quote, Backslash}
  BY <1>3, PlainRead
<1>4. QED
  BY <1>1, <1>2, <1>3, EscapesAre

\* The pieces that end within the first l bytes.
Fitting(ps, o, l) == {k \in 1 .. Len(ps) : o + Reach(ps, k) <= l}

LEMMA PiecesFit ==
  ASSUME NEW ps \in Seq(Seq(Byte)), Len(ps) > 0, \A i \in 1 .. Len(ps) : Len(ps[i]) > 0,
         NEW o \in Nat, NEW l \in Nat
  PROVE  /\ Fitting(ps, o, l) = 1 .. Len(ps) <=> o + Len(FlattenSeq(ps)) <= l
         /\ \A k \in Fitting(ps, o, l) : k <= l
<1> DEFINE n == Len(ps)
           F == Fitting(ps, o, l)
<1>1. /\ n \in Nat \ {0} /\ Reach(ps, n) = Len(FlattenSeq(ps))
      /\ \A k \in 0 .. n : Reach(ps, k) \in Nat /\ k <= Reach(ps, k) /\ Reach(ps, k) <= Reach(ps, n)
  BY LenProperties, ReachIs, ReachGrows
<1>2. F \in SUBSET (1 .. n) /\ \A k \in 1 .. n : k \in F <=> o + Reach(ps, k) <= l
  BY DEF Fitting
<1> HIDE DEF F, n
<1>3. ASSUME F = 1 .. n PROVE o + Reach(ps, n) <= l
  <2>1. n \in F
    BY <1>1, <1>3
  <2>2. QED
    BY <1>1, <1>2, <2>1
<1>4. ASSUME o + Reach(ps, n) <= l PROVE F = 1 .. n
  <2>1. ASSUME NEW k \in 1 .. n PROVE k \in F
    <3>1. Reach(ps, k) \in Nat /\ Reach(ps, n) \in Nat /\ Reach(ps, k) <= Reach(ps, n)
      BY <1>1
    <3>2. QED
      BY <1>2, <1>4, <3>1
  <2>2. QED
    BY <1>2, <2>1
<1>5. ASSUME NEW k \in F PROVE k <= l
  <2>1. k \in 1 .. n /\ o + Reach(ps, k) <= l
    BY <1>2
  <2>2. Reach(ps, k) \in Nat /\ k <= Reach(ps, k)
    BY <1>1, <2>1
  <2>3. QED
    BY <2>1, <2>2
<1>6. QED
  BY <1>1, <1>3, <1>4, <1>5 DEF F, n

\* A string between its quotes: each character escaped, and the quote after them.
StringPieces(s) == Append([i \in DOMAIN s |-> EscapeByte(s[i])], <<Quote>>)

LEMMA StringPiecesAre ==
  ASSUME NEW s \in Seq(Byte)
  PROVE  LET ps == StringPieces(s)
         IN  /\ ps \in Seq(Seq(Byte)) /\ Len(ps) = Len(s) + 1 /\ ps[Len(s) + 1] = <<Quote>>
             /\ \A i \in 1 .. Len(s) : ps[i] = EscapeByte(s[i])
             /\ \A i \in 1 .. Len(ps) : Len(ps[i]) > 0
             /\ FlattenSeq(ps) \in Seq(Byte)
             /\ EncodeBinary(s) = <<Quote>> \o FlattenSeq(ps)
<1> DEFINE es == [i \in DOMAIN s |-> EscapeByte(s[i])]
           ps == Append(es, <<Quote>>)
           q  == <<Quote>>
           B  == Seq(Byte)
<1>1. Len(s) \in Nat /\ \A i \in 1 .. Len(s) : s[i] \in Byte
  BY Bytes
<1>2. es \in Seq(B) /\ Len(es) = Len(s) /\ \A i \in 1 .. Len(s) : es[i] = EscapeByte(s[i]) /\ es[i] \in B
  <2>1. \A i \in 1 .. Len(s) : EscapeByte(s[i]) \in B
    BY <1>1, EscapeByteType
  <2>2. DOMAIN s = 1 .. Len(s)
    BY LenProperties
  <2> HIDE DEF B
  <2>3. QED
    BY <1>1, <2>1, <2>2
<1>3. q \in Seq(Byte) /\ Len(q) = 1
  BY OneByte DEF Quote, Byte
<1> HIDE DEF es, q
<1>4. /\ ps \in Seq(B) /\ Len(ps) = Len(s) + 1 /\ ps[Len(s) + 1] = q
      /\ \A i \in 1 .. Len(s) : ps[i] = es[i]
  <2>1. q \in B
    BY <1>3
  <2> HIDE DEF B
  <2>2. QED
    BY <1>1, <1>2, <2>1, AppendProperties DEF q
<1>5. FlattenSeq(es) \in B /\ FlattenSeq(ps) = FlattenSeq(es) \o q
  BY <1>2, <1>3, FlattenAppend DEF q
<1>6. FlattenSeq(ps) \in B
  BY <1>3, <1>5, Joined
<1>7. EncodeBinary(s) = q \o FlattenSeq(ps)
  <2>1. EncodeBinary(s) = (q \o FlattenSeq(es)) \o q
    BY DEF EncodeBinary, es, q
  <2> DEFINE f == FlattenSeq(es)
  <2>2. f \in Seq(Byte)
    BY <1>5
  <2> HIDE DEF f
  <2>3. (q \o f) \o q = q \o (f \o q)
    BY <1>3, <2>2, ThreeJoined
  <2>4. QED
    BY <1>5, <2>1, <2>3 DEF f
<1>8. ASSUME NEW i \in 1 .. Len(ps) PROVE Len(ps[i]) > 0
  <2>1. CASE i <= Len(s)
    <3>1. i \in 1 .. Len(s)
      BY <1>1, <1>4, <2>1
    <3>2. ps[i] = EscapeByte(s[i]) /\ s[i] \in Byte
      BY <1>1, <1>2, <1>4, <3>1
    <3>3. QED
      BY <3>2, EscapeByteType
  <2>2. CASE ~(i <= Len(s))
    <3>1. i = Len(s) + 1
      BY <1>1, <1>4, <2>2
    <3>2. QED
      BY <1>3, <1>4, <3>1
  <2>3. QED
    BY <2>1, <2>2
<1>9. QED
  BY <1>2, <1>4, <1>6, <1>7, <1>8 DEF StringPieces, es, q

LEMMA EncodeBinaryType ==
  ASSUME NEW s \in Seq(Byte)
  PROVE  /\ EncodeBinary(s) \in Seq(Byte) /\ Len(EncodeBinary(s)) >= 2
         /\ EncodeBinary(s)[1] = Quote
<1> DEFINE ps == StringPieces(s)
           f  == FlattenSeq(ps)
           q  == <<Quote>>
<1>1. q \in Seq(Byte) /\ Len(q) = 1 /\ q[1] = Quote
  BY OneByte DEF Quote, Byte
<1>2. /\ f \in Seq(Byte) /\ EncodeBinary(s) = q \o f /\ Len(s) \in Nat
      /\ ps \in Seq(Seq(Byte)) /\ Len(ps) = Len(s) + 1 /\ \A i \in 1 .. Len(ps) : Len(ps[i]) > 0
  BY StringPiecesAre, Bytes
<1>3. Len(f) >= 1
  <2>1. Reach(ps, Len(ps)) = Len(f) /\ Len(ps) <= Reach(ps, Len(ps)) /\ Reach(ps, Len(ps)) \in Nat
    BY <1>2, ReachIs
  <2>2. QED
    BY <1>2, <2>1
<1> HIDE DEF f, q
<1>4. q \o f \in Seq(Byte) /\ Len(q \o f) = Len(q) + Len(f) /\ Len(f) \in Nat /\ (q \o f)[1] = q[1]
  <2>1. 1 \in 1 .. Len(q)
    BY <1>1
  <2>2. QED
    BY <1>1, <1>2, <2>1, Joined, Bytes
<1>5. QED
  BY <1>1, <1>2, <1>3, <1>4

LEMMA PrefixGrows ==
  ASSUME NEW S, NEW s \in Seq(S), NEW k \in Nat, k < Len(s)
  PROVE  SubSeq(s, 1, k + 1) = Append(SubSeq(s, 1, k), s[k + 1])
<1>1. PICK m \in Nat : m = k + 1 /\ m - 1 = k
  OBVIOUS
<1>2. 1 \in 1 .. Len(s) /\ m \in 1 .. Len(s)
  BY <1>1, LenProperties
<1>3. SubSeq(s, 1, m) = SubSeq(s, 1, m - 1) \o <<s[m]>>
  BY <1>2, SubSeqRecursiveSecond
<1>4. SubSeq(s, 1, k) \in Seq(S)
  <2>1. \A i \in 1 .. k : s[i] \in S
    BY ElementOfSeq, LenProperties
  <2>2. QED
    BY <2>1, SubSeqProperties
<1>5. SubSeq(s, 1, k) \o <<s[m]>> = Append(SubSeq(s, 1, k), s[m])
  BY <1>1, <1>2, <1>4
<1>6. QED
  BY <1>1, <1>3, <1>5

\* What decode_str makes of a string that was encoded, whole or cut short.
LEMMA StringRead ==
  ASSUME NEW s \in Seq(Byte), NEW b \in Seq(Byte), NEW o \in Nat, Stands(EncodeBinary(s), b, o)
  PROVE  DecStr(b, o + 1) =
           IF o + Len(EncodeBinary(s)) <= Len(b)
           THEN Json(Typed("string", s), o + Len(EncodeBinary(s))) ELSE NoJson
<1> DEFINE ps   == StringPieces(s)
           n    == Len(s) + 1
           p    == o + 1
           f    == FlattenSeq(ps)
           at   == [k \in 0 .. n |-> p + Reach(ps, k)]
           acc  == [k \in 0 .. n |-> SubSeq(s, 1, k)]
           good == Fitting(ps, p, Len(b))
           last == Json(Typed("string", s), at[n])
           q    == <<Quote>>
<1>1. /\ ps \in Seq(Seq(Byte)) /\ Len(ps) = n /\ ps[n] = q /\ f \in Seq(Byte)
      /\ \A i \in 1 .. Len(s) : ps[i] = EscapeByte(s[i])
      /\ \A i \in 1 .. n : Len(ps[i]) > 0
      /\ EncodeBinary(s) = q \o f
  BY StringPiecesAre
<1>2. /\ Len(s) \in Nat /\ n \in Nat \ {0} /\ Len(b) \in Nat /\ p \in Nat
      /\ \A i \in 1 .. Len(s) : s[i] \in Byte
  BY Bytes
<1>3. q \in Seq(Byte) /\ Len(q) = 1 /\ q[1] = Quote
  BY OneByte DEF Quote, Byte
<1>4. Stands(f, b, p) /\ Len(EncodeBinary(s)) = 1 + Len(f) /\ Len(f) \in Nat
  <2> HIDE DEF f, q
  <2>1. Stands(q \o f, b, o)
    BY <1>1
  <2>2. Stands(f, b, o + Len(q))
    BY <1>1, <1>3, <2>1, StandsJoined
  <2>3. QED
    <3>1. f \in Seq(Byte) /\ o + Len(q) = p
      BY <1>1, <1>3
    <3>2. Len(q \o f) = Len(q) + Len(f) /\ Len(f) \in Nat
      BY <1>3, <3>1, Joined, Bytes
    <3> HIDE DEF p
    <3>3. QED
      BY <1>1, <1>3, <2>2, <3>1, <3>2
<1>5. /\ Reach(ps, 0) = 0 /\ Reach(ps, n) = Len(f)
      /\ \A k \in 0 .. n : Reach(ps, k) \in Nat
  BY <1>1, ReachIs
<1>6. /\ good = 1 .. n <=> p + Len(f) <= Len(b)
      /\ \A k \in good : k <= Len(b)
      /\ good \in SUBSET (1 .. n)
      /\ \A k \in 1 .. n : k \in good <=> p + Reach(ps, k) <= Len(b)
  <2>1. good \in SUBSET (1 .. n) /\ \A k \in 1 .. n : k \in good <=> p + Reach(ps, k) <= Len(b)
    BY <1>1 DEF Fitting
  <2> HIDE DEF ps, n
  <2>2. Len(ps) > 0 /\ p \in Nat
    BY <1>1, <1>2
  <2>3. (good = 1 .. n <=> p + Len(f) <= Len(b)) /\ \A k \in good : k <= Len(b)
    BY <1>1, <1>2, <2>2, PiecesFit
  <2>4. QED
    BY <2>1, <2>3
<1> HIDE DEF ps, good, f, q, p
<1>7. at[0] = p /\ acc[0] = <<>> /\ at[n] = p + Len(f)
      /\ \A k \in 0 .. n : at[k] = p + Reach(ps, k) /\ at[k] \in Nat /\ acc[k] = SubSeq(s, 1, k)
  <2>1. SubSeq(s, 1, 0) = <<>>
    BY SubSeqEmpty
  <2>2. QED
    BY <1>2, <1>5, <2>1
<1> HIDE DEF at, acc
<1>8. last.open = FALSE
  BY DEF Json
<1>9. ASSUME NEW k \in 0 .. n - 1, k = 0 \/ k \in good
      PROVE  NextChar(b, Open(acc[k], at[k])) = Onward(n, acc, at, good, last, k + 1)
  <2>1. k \in Nat /\ k < Len(ps) /\ k \in 0 .. n /\ k + 1 \in 1 .. n
    BY <1>1, <1>2
  <2>2. /\ Reach(ps, k + 1) = Reach(ps, k) + Len(ps[k + 1])
        /\ Stands(ps[k + 1], b, p + Reach(ps, k))
    BY <1>1, <1>2, <1>4, <2>1, PieceStands DEF f
  <2>3. Stands(ps[k + 1], b, at[k]) /\ at[k] \in Nat /\ at[k + 1] = at[k] + Len(ps[k + 1])
    <3>1. at[k] = p + Reach(ps, k) /\ at[k + 1] = p + Reach(ps, k + 1)
      BY <1>7, <2>1
    <3>2. Reach(ps, k) \in Nat /\ Len(ps[k + 1]) \in Nat /\ at[k] \in Nat
      BY <1>1, <1>5, <1>7, <2>1, PieceStands, Bytes
    <3>3. QED
      BY <1>2, <2>2, <3>1, <3>2
  <2>4. k + 1 \in good <=> at[k] + Len(ps[k + 1]) <= Len(b)
    BY <1>6, <1>7, <2>1, <2>3
  <2>5. CASE k + 1 < n
    <3>1. k + 1 \in 1 .. Len(s) /\ k < Len(s)
      BY <1>2, <2>1, <2>5
    <3>2. ps[k + 1] = EscapeByte(s[k + 1]) /\ s[k + 1] \in Byte
      BY <1>1, <1>2, <3>1
    <3>3. ReadsOn(ps[k + 1], b, at[k], acc[k], s[k + 1])
      BY <2>3, <3>2, EscapeRead
    <3>4. acc[k + 1] = Append(acc[k], s[k + 1])
      BY <1>7, <2>1, <3>1, PrefixGrows, SMTT(30)
    <3>5. QED
      BY <2>3, <2>4, <2>5, <3>3, <3>4 DEF ReadsOn, Onward
  <2>6. CASE ~(k + 1 < n)
    <3>1. k + 1 = n /\ k = Len(s)
      BY <1>2, <2>1, <2>6
    <3>2. acc[k] = s /\ ps[k + 1] = q /\ at[k + 1] = at[k] + 1
      BY <1>1, <1>3, <1>7, <2>1, <2>3, <3>1, SubSeqFull
    <3>3. k + 1 \in good <=> at[k] < Len(b)
      BY <1>2, <1>3, <2>3, <2>4, <3>2
    <3>4. CASE at[k] < Len(b)
      <4>1. At(b, at[k] + 0) = IF at[k] + 0 < Len(b) THEN q[0 + 1] ELSE -1
        <5>1. 0 \in Nat /\ 0 < Len(q) /\ Stands(q, b, at[k])
          BY <1>3, <2>3, <3>2
        <5>2. QED
          BY <1>3, <2>3, <5>1, StandsAt
      <4>2. At(b, at[k]) = Quote
        BY <1>3, <2>3, <3>4, <4>1
      <4>3. \A i \in DOMAIN s : s[i] < 256
        <5>1. DOMAIN s = 1 .. Len(s)
          BY LenProperties
        <5>2. \A c \in Byte : c < 256
          BY DEF Byte
        <5>3. QED
          BY <1>2, <5>1, <5>2
      <4>4. Quote # Backslash /\ Quote # -1
        BY DEF Quote, Backslash
      <4>5. NextChar(b, Open(s, at[k])) = Json(Typed("string", s), at[k] + 1)
        BY <4>2, <4>3, <4>4 DEF NextChar, Open
      <4>6. QED
        BY <3>1, <3>2, <3>3, <3>4, <4>5 DEF Onward
    <3>5. CASE ~(at[k] < Len(b))
      <4>1. NextChar(b, Open(acc[k], at[k])) = NoJson
        BY <1>2, <2>3, <3>5, NothingRead
      <4>2. QED
        BY <3>3, <3>5, <4>1 DEF Onward
    <3>6. QED
      BY <3>4, <3>5
  <2>7. QED
    BY <2>5, <2>6
<1> HIDE DEF n, last
<1>10. DecStr(b, at[0]) = IF good = 1 .. n THEN last ELSE NoJson
  BY <1>2, <1>6, <1>7, <1>8, <1>9, StringCallsWalk
<1>11. at[n] = o + Len(EncodeBinary(s)) /\ p + Len(f) = o + Len(EncodeBinary(s))
  BY <1>2, <1>4, <1>7 DEF p
<1>12. QED
  BY <1>6, <1>7, <1>10, <1>11 DEF last, p

-----------------------------------------------------------------------------
(* Json: numbers *)

\* What may come after a value.
Ends == {-1, Comma, CloseArray, CloseObject} \union Blanks

LEMMA EndsAre ==
  ASSUME NEW c \in Ends
  PROVE  c \notin Digits /\ c # 46 /\ c \notin {69, 101} /\ c \notin {43, 45}
BY DEF Ends, Comma, CloseArray, CloseObject, Blanks, Digits

\* Digits of a text that stands in b, up to one that is none, or to the end of the text.
LEMMA DigitsRead ==
  ASSUME NEW t \in Seq(Byte), NEW b \in Seq(Byte), NEW o \in Nat, Stands(t, b, o),
         At(b, o + Len(t)) \in Ends,
         NEW i \in 0 .. Len(t), NEW j \in i .. Len(t), o + i <= Len(b),
         \A k \in i + 1 .. j : t[k] \in Digits, j < Len(t) => t[j + 1] \notin Digits
  PROVE  DigitsEnd(b, o + i) = IF o + j <= Len(b) THEN o + j ELSE Len(b)
<1>1. Len(b) \in Nat /\ Len(t) \in Nat /\ -1 \notin Digits /\ i \in Nat /\ j \in Nat
  <2>1. Len(b) \in Nat /\ Len(t) \in Nat
    BY Bytes
  <2>2. QED
    BY <2>1, BlankBytes
<1>2. ASSUME NEW r \in o + i .. o + j - 1, r < Len(b) PROVE At(b, r) \in Digits
  <2>1. PICK k \in Nat : r = o + k /\ k < Len(t) /\ k + 1 \in i + 1 .. j
    <3>1. r - o \in Nat /\ r = o + (r - o) /\ r - o < Len(t) /\ (r - o) + 1 \in i + 1 .. j
      BY <1>1
    <3>2. QED
      BY <3>1
  <2>2. At(b, o + k) = t[k + 1]
    BY <1>2, <2>1, StandsAt
  <2>3. QED
    BY <2>1, <2>2
<1>3. CASE o + j <= Len(b)
  <2> DEFINE p == o + i
             q == o + j
  <2>1. p \in Nat /\ q \in Nat /\ p <= q /\ \A r \in p .. q - 1 : r < Len(b)
    BY <1>1, <1>3
  <2>2. \A r \in p .. q - 1 : At(b, r) \in Digits
    BY <1>2, <2>1
  <2>3. At(b, q) \notin Digits
    <3>1. CASE j < Len(t)
      <4>1. At(b, o + j) = IF o + j < Len(b) THEN t[j + 1] ELSE -1
        BY <1>1, <3>1, StandsAt
      <4>2. QED
        BY <1>1, <3>1, <4>1
    <3>2. CASE ~(j < Len(t))
      <4>1. j = Len(t)
        BY <1>1, <3>2
      <4>2. QED
        BY <4>1, EndsAre
    <3>3. QED
      BY <3>1, <3>2
  <2> HIDE DEF p, q
  <2>4. DigitsEnd(b, p) = q
    BY <1>1, <2>1, <2>2, <2>3, PastIs DEF DigitsEnd
  <2>5. QED
    BY <1>3, <2>4 DEF p, q
<1>4. CASE ~(o + j <= Len(b))
  <2> DEFINE p == o + i
             q == Len(b)
  <2>1. /\ p \in Nat /\ q \in Nat /\ p <= q
        /\ \A r \in p .. q - 1 : r < Len(b) /\ r \in o + i .. o + j - 1
    BY <1>1, <1>4
  <2>2. \A r \in p .. q - 1 : At(b, r) \in Digits
    BY <1>2, <2>1
  <2>3. At(b, q) \notin Digits
    BY <1>1, AtIs
  <2> HIDE DEF p, q
  <2>4. DigitsEnd(b, p) = q
    BY <1>1, <2>1, <2>2, <2>3, PastIs DEF DigitsEnd
  <2>5. QED
    BY <1>4, <2>4 DEF p, q
<1>5. QED
  BY <1>3, <1>4

\* The bytes of t, where they stand, or the end of b.
LEMMA LiteralAt ==
  ASSUME NEW t \in Seq(Byte), NEW b \in Seq(Byte), NEW o \in Nat, Stands(t, b, o),
         At(b, o + Len(t)) \in Ends, NEW i \in 0 .. Len(t)
  PROVE  /\ o + i >= Len(b) => At(b, o + i) = -1
         /\ o + i < Len(b) /\ i < Len(t) => At(b, o + i) = t[i + 1]
         /\ i = Len(t) => At(b, o + i) \in Ends
<1>1. Len(b) \in Nat /\ Len(t) \in Nat /\ i \in Nat /\ o + i \in Nat
  <2>1. Len(b) \in Nat /\ Len(t) \in Nat
    BY Bytes
  <2>2. QED
    BY <2>1
<1>2. i < Len(t) => At(b, o + i) = IF o + i < Len(b) THEN t[i + 1] ELSE -1
  BY <1>1, StandsAt
<1>3. o + i >= Len(b) => At(b, o + i) = -1
  BY <1>1, AtIs
<1>4. QED
  BY <1>1, <1>2, <1>3

\* A literal of s signs and then digits, from place i to place j of t.
Numeral(t, i, s, j) ==
  /\ s \in {0, 1} /\ i + s < j /\ (s = 1 => t[i + 1] \in {43, 45})
  /\ \A k \in i + s + 1 .. j : t[k] \in Digits

NumeralEnd(b, o, i) == IF o + i <= Len(b) THEN o + i ELSE Len(b)

LEMMA IntegerEnds ==
  ASSUME NEW t \in Seq(Byte), NEW b \in Seq(Byte), NEW o \in Nat, o < Len(b), Stands(t, b, o),
         At(b, o + Len(t)) \in Ends, NEW s, Numeral(t, 0, s, Len(t)), s = 1 => t[1] = 45
  PROVE  CollectNum(b, o) = [end |-> NumeralEnd(b, o, Len(t)), isFloat |-> FALSE]
<1> DEFINE n == Len(t)
           point == DigitsEnd(b, IF At(b, o) = 45 THEN o + 1 ELSE o)
<1>1. Len(b) \in Nat /\ n \in Nat /\ s \in {0, 1} /\ s < n /\ \A k \in s + 1 .. n : t[k] \in Digits
  <2>1. Len(b) \in Nat /\ n \in Nat
    BY Bytes
  <2>2. QED
    BY <2>1 DEF Numeral
<1>2. At(b, o) = t[1]
  <2>1. At(b, o + 0) = t[0 + 1]
    BY <1>1, LiteralAt, SMTT(30)
  <2>2. QED
    BY <2>1
<1>3. (IF At(b, o) = 45 THEN o + 1 ELSE o) = o + s
  <2>1. CASE s = 1
    BY <1>2, <2>1
  <2>2. CASE s = 0
    <3>1. t[1] \in Digits
      BY <1>1, <2>2
    <3>2. t[1] # 45
      BY <3>1 DEF Digits
    <3>3. QED
      BY <1>2, <2>2, <3>2
  <2>3. QED
    BY <1>1, <2>1, <2>2
<1>4. point = NumeralEnd(b, o, n)
  <2>1. s \in 0 .. n /\ n \in s .. n /\ o + s <= Len(b)
    BY <1>1
  <2>2. DigitsEnd(b, o + s) = IF o + n <= Len(b) THEN o + n ELSE Len(b)
    BY <1>1, <2>1, DigitsRead
  <2>3. QED
    BY <1>3, <2>2 DEF NumeralEnd
<1>5. At(b, point) \in Ends
  <2>1. CASE o + n <= Len(b)
    BY <1>4, <2>1 DEF NumeralEnd
  <2>2. CASE ~(o + n <= Len(b))
    <3>1. point = Len(b)
      BY <1>4, <2>2 DEF NumeralEnd
    <3>2. At(b, Len(b)) = -1
      BY <1>1, AtIs
    <3>3. QED
      BY <3>1, <3>2 DEF Ends
  <2>3. QED
    BY <2>1, <2>2
<1> HIDE DEF n, point
<1>6. At(b, point) # 46 /\ At(b, point) \notin {69, 101}
  BY <1>5, EndsAre
<1>7. CollectNum(b, o) = [end |-> point, isFloat |-> FALSE]
  BY <1>6 DEF CollectNum, point
<1>8. QED
  BY <1>4, <1>7 DEF n

\* Where the part of a literal up to place i ends: at its end, or where b does.
LEMMA NumeralEndIs ==
  ASSUME NEW t \in Seq(Byte), NEW b \in Seq(Byte), NEW o \in Nat, Stands(t, b, o),
         At(b, o + Len(t)) \in Ends, NEW i \in 0 .. Len(t)
  PROVE  LET e == NumeralEnd(b, o, i)
         IN  /\ o + i >= Len(b) => e = Len(b) /\ At(b, e) = -1
             /\ o + i < Len(b) => e = o + i /\ (i < Len(t) => At(b, e) = t[i + 1])
             /\ i = Len(t) => At(b, e) \in Ends
<1>1. Len(b) \in Nat /\ i \in Nat /\ o + i \in Nat /\ At(b, Len(b)) = -1 /\ -1 \in Ends
  <2>1. Len(b) \in Nat /\ Len(t) \in Nat
    BY Bytes
  <2>2. QED
    BY <2>1, AtIs DEF Ends
<1>2. CASE o + i >= Len(b)
  <2>1. NumeralEnd(b, o, i) = Len(b)
    BY <1>1, <1>2 DEF NumeralEnd
  <2>2. QED
    BY <1>1, <1>2, <2>1
<1>3. CASE o + i < Len(b)
  <2>1. NumeralEnd(b, o, i) = o + i
    BY <1>1, <1>3 DEF NumeralEnd
  <2>2. QED
    BY <1>1, <1>3, <2>1, LiteralAt
<1>4. QED
  BY <1>1, <1>2, <1>3

\* Place i of t is the point, and place j the last of the fraction.
Fraction(t, s, i, j) ==
  /\ i \in 1 .. Len(t) /\ t[i] = 46 /\ Numeral(t, 0, s, i - 1) /\ (s = 1 => t[1] = 45)
  /\ j \in i + 1 .. Len(t) /\ \A k \in i + 1 .. j : t[k] \in Digits
  /\ j < Len(t) => t[j + 1] \in {69, 101} /\ \E u \in {0, 1} : Numeral(t, j + 1, u, Len(t))

LEMMA ExponentEnds ==
  ASSUME NEW t \in Seq(Byte), NEW b \in Seq(Byte), NEW o \in Nat, Stands(t, b, o),
         At(b, o + Len(t)) \in Ends, NEW i \in 0 .. Len(t), o + i <= Len(b),
         NEW u \in {0, 1}, Numeral(t, i, u, Len(t))
  PROVE  CollectExp(b, o + i) = NumeralEnd(b, o, Len(t))
<1> DEFINE n == Len(t)
           p == o + i
<1>1. /\ Len(b) \in Nat /\ n \in Nat /\ i \in Nat /\ p \in Nat /\ i + u < n
      /\ (u = 1 => t[i + 1] \in {43, 45})
      /\ \A k \in i + u + 1 .. n : t[k] \in Digits
  <2>1. Len(b) \in Nat /\ n \in Nat
    BY Bytes
  <2>2. QED
    BY <2>1 DEF Numeral
<1>2. CASE p >= Len(b)
  <2>1. p = Len(b) /\ At(b, p) = -1
    BY <1>1, <1>2, LiteralAt
  <2>2. -1 \notin {43, 45} \union Digits
    BY DEF Digits
  <2>3. CollectExp(b, p) = p
    BY <2>1, <2>2 DEF CollectExp
  <2>4. NumeralEnd(b, o, n) = Len(b)
    BY <1>1, <1>2, <2>1 DEF NumeralEnd
  <2>5. QED
    BY <2>1, <2>3, <2>4
<1>3. CASE p < Len(b)
  <2>1. At(b, p) = t[i + 1]
    BY <1>1, <1>3, LiteralAt
  <2>2. t[i + 1] \in {43, 45} \union Digits
    <3>1. CASE u = 1
      BY <1>1, <3>1
    <3>2. CASE u = 0
      <4>1. i + 1 \in i + u + 1 .. n
        BY <1>1, <3>2
      <4>2. QED
        BY <1>1, <4>1
    <3>3. QED
      BY <3>1, <3>2
  <2>3. CollectExp(b, p) = DigitsEnd(b, p + 1)
    BY <2>1, <2>2 DEF CollectExp
  <2>4. DigitsEnd(b, o + (i + 1)) = NumeralEnd(b, o, n)
    <3> DEFINE m == i + 1
    <3>1. m \in 0 .. Len(t) /\ n \in m .. Len(t) /\ o + m <= Len(b)
      BY <1>1, <1>3
    <3>2. \A k \in m + 1 .. n : k \in i + u + 1 .. n
      BY <1>1
    <3>3. \A k \in m + 1 .. n : t[k] \in Digits
      BY <1>1, <3>2
    <3>4. ~(n < Len(t))
      BY <1>1
    <3> HIDE DEF m
    <3>5. DigitsEnd(b, o + m) = IF o + n <= Len(b) THEN o + n ELSE Len(b)
      <4> HIDE DEF n
      <4>1. QED
        BY <3>1, <3>3, <3>4, DigitsRead
    <3>6. QED
      BY <3>5 DEF NumeralEnd, m
  <2>5. p + 1 = o + (i + 1)
    BY <1>1
  <2>6. QED
    BY <2>3, <2>4, <2>5
<1>4. QED
  BY <1>1, <1>2, <1>3

LEMMA FloatEnds ==
  ASSUME NEW t \in Seq(Byte), NEW b \in Seq(Byte), NEW o \in Nat, o < Len(b), Stands(t, b, o),
         At(b, o + Len(t)) \in Ends, NEW s, NEW i, NEW j, Fraction(t, s, i, j)
  PROVE  /\ CollectNum(b, o).end = NumeralEnd(b, o, Len(t))
         /\ o + Len(t) <= Len(b) => CollectNum(b, o).isFloat
<1> DEFINE n == Len(t)
           h == i - 1
           point == DigitsEnd(b, IF At(b, o) = 45 THEN o + 1 ELSE o)
           fraction == At(b, point) = 46
           exp == IF fraction THEN DigitsEnd(b, point + 1) ELSE point
           got == CollectNum(b, o)
<1>1. Len(b) \in Nat /\ n \in Nat
  BY Bytes
<1>2. /\ i \in 1 .. n /\ t[i] = 46 /\ j \in i + 1 .. n /\ s \in {0, 1} /\ s < i - 1
      /\ \A k \in s + 1 .. i - 1 : t[k] \in Digits
      /\ \A k \in i + 1 .. j : t[k] \in Digits
      /\ (s = 1 => t[1] = 45)
      /\ j < n => t[j + 1] \in {69, 101} /\ \E u \in {0, 1} : Numeral(t, j + 1, u, n)
  BY <1>1 DEF Fraction, Numeral
<1>3. h \in Nat /\ h + 1 = i /\ h < n /\ s \in 0 .. n /\ h \in s .. n /\ h \in 0 .. n
  BY <1>1, <1>2
<1>4. got = IF At(b, exp) \in {69, 101} THEN [end |-> CollectExp(b, exp + 1), isFloat |-> TRUE]
            ELSE [end |-> exp, isFloat |-> fraction]
  BY DEF CollectNum
<1>5. (IF At(b, o) = 45 THEN o + 1 ELSE o) = o + s
  <2>1. At(b, o + 0) = t[0 + 1]
    BY <1>1, <1>3, LiteralAt
  <2>2. At(b, o) = t[1]
    BY <2>1
  <2>3. CASE s = 1
    BY <1>2, <2>2, <2>3
  <2>4. CASE s = 0
    <3>1. 1 \in s + 1 .. i - 1
      BY <1>2, <2>4
    <3>2. t[1] # 45
      BY <1>2, <3>1, SMTT(30) DEF Digits
    <3>3. QED
      BY <2>2, <2>4, <3>2
  <2>5. QED
    BY <1>2, <2>3, <2>4
<1>6. 46 \notin Digits /\ 69 \notin Digits /\ 101 \notin Digits
  BY DEF Digits
<1>7. point = NumeralEnd(b, o, h)
  <2>1. o + s <= Len(b) /\ \A k \in s + 1 .. h : t[k] \in Digits
    BY <1>1, <1>2, <1>3
  <2>2. h < Len(t) => t[h + 1] \notin Digits
    BY <1>2, <1>3, <1>6
  <2> HIDE DEF h
  <2>3. DigitsEnd(b, o + s) = IF o + h <= Len(b) THEN o + h ELSE Len(b)
    BY <1>3, <2>1, <2>2, DigitsRead
  <2>4. QED
    BY <1>5, <2>3 DEF NumeralEnd
<1> HIDE DEF h, point, got
<1>8. CASE o + h >= Len(b)
  <2>1. point = Len(b) /\ At(b, point) = -1
    BY <1>3, <1>7, <1>8, NumeralEndIs
  <2>2. ~fraction /\ exp = Len(b) /\ At(b, exp) = -1
    BY <2>1
  <2>3. got.end = Len(b)
    BY <1>4, <2>2
  <2>4. ~(o + n <= Len(b))
    BY <1>1, <1>3, <1>8
  <2>5. QED
    BY <2>3, <2>4 DEF got, NumeralEnd
<1>9. CASE o + h < Len(b)
  <2>1. point = o + h /\ At(b, point) = 46
    BY <1>2, <1>3, <1>7, <1>9, NumeralEndIs
  <2>2. fraction /\ point + 1 = o + i /\ o + i <= Len(b)
    BY <1>1, <1>2, <1>3, <1>9, <2>1
  <2>3. exp = NumeralEnd(b, o, j)
    <3>1. i \in 0 .. Len(t) /\ j \in i .. Len(t) /\ (j < Len(t) => t[j + 1] \notin Digits)
      BY <1>1, <1>2, <1>6
    <3>2. DigitsEnd(b, o + i) = IF o + j <= Len(b) THEN o + j ELSE Len(b)
      BY <1>2, <2>2, <3>1, DigitsRead
    <3>3. QED
      BY <2>2, <3>2 DEF NumeralEnd
  <2>4. j \in 0 .. Len(t) /\ j \in Nat /\ i \in Nat
    BY <1>1, <1>2
  <2> HIDE DEF exp, fraction
  <2>5. CASE j = n
    <3>1. At(b, exp) \notin {69, 101}
      BY <2>3, <2>4, <2>5, NumeralEndIs, EndsAre
    <3>2. got.end = exp /\ got.isFloat
      BY <1>4, <2>2, <3>1
    <3>3. QED
      BY <2>3, <2>5, <3>2 DEF got
  <2>6. CASE j < n /\ o + j >= Len(b)
    <3>1. exp = Len(b) /\ At(b, exp) = -1
      BY <2>3, <2>4, <2>6, NumeralEndIs
    <3>2. got.end = Len(b)
      BY <1>4, <3>1
    <3>3. ~(o + n <= Len(b))
      BY <1>1, <2>4, <2>6
    <3>4. QED
      BY <3>2, <3>3 DEF got, NumeralEnd
  <2>7. CASE j < n /\ o + j < Len(b)
    <3>1. exp = o + j /\ At(b, exp) \in {69, 101}
      BY <1>2, <2>3, <2>4, <2>7, NumeralEndIs
    <3>2. got.end = CollectExp(b, exp + 1) /\ got.isFloat
      BY <1>4, <3>1
    <3>3. PICK m \in Nat : m = j + 1
      BY <2>4
    <3>4. PICK u \in {0, 1} : Numeral(t, m, u, n)
      BY <1>2, <2>7, <3>3
    <3>5. m \in 0 .. Len(t) /\ o + m <= Len(b) /\ exp + 1 = o + m
      BY <1>1, <2>4, <2>7, <3>1, <3>3
    <3>6. CollectExp(b, o + m) = NumeralEnd(b, o, Len(t))
      BY <3>4, <3>5, ExponentEnds
    <3>7. QED
      BY <3>2, <3>5, <3>6 DEF got
  <2>8. QED
    BY <1>1, <1>2, <2>4, <2>5, <2>6, <2>7
<1>10. QED
  BY <1>1, <1>3, <1>8, <1>9

LEMMA PartIndexed ==
  ASSUME NEW t \in Seq(Byte), NEW i \in 0 .. Len(t), NEW j \in i .. Len(t)
  PROVE  LET x == SubSeq(t, i + 1, j)
         IN  /\ x \in Seq(Byte) /\ Len(x) = j - i /\ j - i \in Nat
             /\ \A k \in 1 .. j - i : x[k] = t[i + k]
<1>1. Len(t) \in Nat /\ \A k \in 1 .. Len(t) : t[k] \in Byte
  BY Bytes
<1>2. i + 1 \in Int /\ j \in Int /\ j - i \in Nat /\ \A k \in i + 1 .. j : t[k] \in Byte
  BY <1>1
<1>3. PICK m \in Int : m = i + 1
  BY <1>2
<1>4. /\ SubSeq(t, m, j) \in Seq(Byte)
      /\ Len(SubSeq(t, m, j)) = IF m <= j THEN j - m + 1 ELSE 0
      /\ \A k \in 1 .. j - m + 1 : SubSeq(t, m, j)[k] = t[m + k - 1]
  BY <1>2, <1>3, SubSeqProperties
<1>5. Len(SubSeq(t, m, j)) = j - i
  BY <1>1, <1>3, <1>4
<1>6. ASSUME NEW k \in 1 .. j - i PROVE SubSeq(t, m, j)[k] = t[i + k]
  <2>1. k \in 1 .. j - m + 1 /\ m + k - 1 = i + k
    BY <1>1, <1>3
  <2>2. QED
    BY <1>4, <2>1
<1>7. QED
  BY <1>2, <1>3, <1>4, <1>5, <1>6

LEMMA AllDigitsAre ==
  ASSUME NEW t \in Seq(Byte), NEW i \in 0 .. Len(t), NEW j \in i .. Len(t)
  PROVE  AllDigits(SubSeq(t, i + 1, j)) <=> i < j /\ \A k \in i + 1 .. j : t[k] \in Digits
<1> DEFINE x == SubSeq(t, i + 1, j)
<1>1. /\ x \in Seq(Byte) /\ Len(x) = j - i /\ Len(t) \in Nat
      /\ \A k \in 1 .. j - i : x[k] = t[i + k]
  BY PartIndexed, Bytes
<1>2. AllDigits(x) <=> x # <<>> /\ \A k \in DOMAIN x : x[k] \in Digits
  BY DEF AllDigits
<1> HIDE DEF x
<1>3. DOMAIN x = 1 .. j - i /\ (x # <<>> <=> i < j)
  <2>1. x # <<>> <=> Len(x) # 0
    BY <1>1, EmptySeq
  <2>2. QED
    BY <1>1, <2>1, LenProperties
<1>4. ASSUME \A k \in 1 .. j - i : x[k] \in Digits, NEW k \in i + 1 .. j PROVE t[k] \in Digits
  <2>1. k - i \in 1 .. j - i /\ i + (k - i) = k
    BY <1>1
  <2>2. QED
    BY <1>1, <1>4, <2>1
<1>5. ASSUME \A k \in i + 1 .. j : t[k] \in Digits, NEW k \in 1 .. j - i PROVE x[k] \in Digits
  <2>1. i + k \in i + 1 .. j
    BY <1>1
  <2>2. QED
    BY <1>1, <1>5, <2>1
<1>6. QED
  BY <1>2, <1>3, <1>4, <1>5 DEF x

LEMMA PartOfPart ==
  ASSUME NEW x \in Seq(Byte), Len(x) > 0
  PROVE  From(x, 1) = SubSeq(x, 1 + 1, Len(x)) /\ x = SubSeq(x, 0 + 1, Len(x))
<1>1. x = SubSeq(x, 1, Len(x))
  BY SubSeqFull
<1>2. QED
  BY <1>1 DEF From

\* What is accepted as an integer: a sign at most, and digits, one at least.
LEMMA IntegersAre ==
  ASSUME NEW x \in Seq(Byte)
  PROVE  IsInteger(x) <=> \E s \in {0, 1} : Numeral(x, 0, s, Len(x))
<1> DEFINE n == Len(x)
<1>1. n \in Nat
  BY Bytes
<1>2. CASE n = 0
  <2>1. x = <<>> /\ At(x, 0) = -1
    <3>1. x = <<>>
      BY <1>2, EmptySeq
    <3>2. 0 \in Nat /\ 0 >= Len(x)
      BY <1>2
    <3>3. QED
      BY <3>1, <3>2, AtIs
  <2>2. ~IsInteger(x)
    BY <2>1 DEF IsInteger, Unsigned, AllDigits
  <2>3. \A s \in {0, 1} : ~Numeral(x, 0, s, n)
    BY <1>2 DEF Numeral
  <2>4. QED
    BY <2>2, <2>3
<1>3. CASE n > 0
  <2>1. At(x, 0) = x[1]
    BY <1>3, AtIs
  <2>2. From(x, 1) = SubSeq(x, 1 + 1, n) /\ x = SubSeq(x, 0 + 1, n)
    BY <1>3, PartOfPart
  <2>3. AllDigits(SubSeq(x, 1 + 1, n)) <=> 1 < n /\ \A k \in 1 + 1 .. n : x[k] \in Digits
    <3>1. 1 \in 0 .. n /\ n \in 1 .. n
      BY <1>1, <1>3
    <3>2. QED
      BY <3>1, AllDigitsAre
  <2>4. AllDigits(SubSeq(x, 0 + 1, n)) <=> 0 < n /\ \A k \in 0 + 1 .. n : x[k] \in Digits
    <3>1. 0 \in 0 .. n /\ n \in 0 .. n
      BY <1>1, <1>3
    <3>2. QED
      BY <3>1, AllDigitsAre
  <2> HIDE DEF n
  <2>5. CASE x[1] \in {43, 45}
    <3>1. IsInteger(x) <=> 1 < n /\ \A k \in 2 .. n : x[k] \in Digits
      <4>1. Unsigned(x) = From(x, 1)
        BY <2>1, <2>5 DEF Unsigned
      <4>2. IsInteger(x) <=> AllDigits(SubSeq(x, 1 + 1, n))
        BY <2>2, <4>1, Zenon DEF IsInteger
      <4>3. QED
        BY <2>3, <4>2
    <3>2. x[1] \notin Digits
      BY <2>5 DEF Digits
    <3>3. ~Numeral(x, 0, 0, n)
      BY <1>1, <1>3, <3>2 DEF Numeral
    <3>4. Numeral(x, 0, 1, n) <=> 1 < n /\ \A k \in 2 .. n : x[k] \in Digits
      BY <2>5 DEF Numeral
    <3>5. QED
      BY <3>1, <3>3, <3>4 DEF n
  <2>6. CASE x[1] \notin {43, 45}
    <3>1. IsInteger(x) <=> \A k \in 1 .. n : x[k] \in Digits
      <4>1. Unsigned(x) = x
        BY <2>1, <2>6 DEF Unsigned
      <4>2. IsInteger(x) <=> AllDigits(SubSeq(x, 0 + 1, n))
        BY <2>2, <4>1, Zenon DEF IsInteger
      <4>3. QED
        BY <1>3, <2>4, <4>2
    <3>2. ~Numeral(x, 0, 1, n)
      BY <2>6 DEF Numeral
    <3>3. Numeral(x, 0, 0, n) <=> \A k \in 1 .. n : x[k] \in Digits
      BY <1>3 DEF Numeral
    <3>4. QED
      BY <3>1, <3>2, <3>3 DEF n
  <2>7. QED
    BY <2>5, <2>6
<1>4. QED
  BY <1>1, <1>2, <1>3

LEMMA IntegerWithin ==
  ASSUME NEW t \in Seq(Byte), NEW i \in 0 .. Len(t), NEW j \in i .. Len(t),
         IsInteger(SubSeq(t, i + 1, j))
  PROVE  \E s \in {0, 1} : Numeral(t, i, s, j)
<1> DEFINE x == SubSeq(t, i + 1, j)
<1>1. /\ x \in Seq(Byte) /\ Len(x) = j - i /\ j - i \in Nat /\ Len(t) \in Nat
      /\ \A k \in 1 .. j - i : x[k] = t[i + k]
  BY PartIndexed, Bytes
<1> HIDE DEF x
<1>2. PICK s \in {0, 1} : Numeral(x, 0, s, Len(x))
  BY <1>1, IntegersAre DEF x
<1>3. /\ s < j - i /\ (s = 1 => x[1] \in {43, 45})
      /\ \A k \in s + 1 .. j - i : x[k] \in Digits
  BY <1>1, <1>2 DEF Numeral
<1>4. s = 1 => t[i + 1] \in {43, 45}
  <2>1. 1 \in 1 .. j - i
    BY <1>1, <1>3
  <2>2. QED
    BY <1>1, <1>3, <2>1
<1>5. ASSUME NEW k \in i + s + 1 .. j PROVE t[k] \in Digits
  <2>1. k - i \in s + 1 .. j - i /\ k - i \in 1 .. j - i /\ i + (k - i) = k
    BY <1>1
  <2>2. QED
    BY <1>1, <1>3, <2>1
<1>6. i + s < j
  BY <1>1, <1>3
<1>7. QED
  BY <1>4, <1>5, <1>6 DEF Numeral

LEMMA FloatsAre ==
  ASSUME NEW t \in Seq(Byte), IsFloat(t), t[1] # 43
  PROVE  \E s \in {0, 1}, i \in 1 .. Len(t), j \in 1 .. Len(t) : Fraction(t, s, i, j)
<1> DEFINE n == Len(t)
<1>1. n \in Nat /\ DOMAIN t = 1 .. n
  BY Bytes, LenProperties
<1>2. PICK i \in 1 .. n : 
        /\ t[i] = 46 /\ IsInteger(SubSeq(t, 1, i - 1))
        /\ \E j \in i + 1 .. n :
             /\ AllDigits(SubSeq(t, i + 1, j))
             /\ j < n => t[j + 1] \in {69, 101} /\ IsInteger(From(t, j + 1))
  BY <1>1 DEF IsFloat
<1>3. PICK j \in i + 1 .. n :
        /\ AllDigits(SubSeq(t, i + 1, j))
        /\ j < n => t[j + 1] \in {69, 101} /\ IsInteger(From(t, j + 1))
  BY <1>2
<1>4. PICK s \in {0, 1} : Numeral(t, 0, s, i - 1)
  <2>1. 0 \in 0 .. n /\ i - 1 \in 0 .. n /\ 0 + 1 = 1
    BY <1>1
  <2>2. IsInteger(SubSeq(t, 0 + 1, i - 1))
    BY <1>2, <2>1
  <2>3. QED
    BY <2>1, <2>2, IntegerWithin
<1>5. s = 1 => t[1] = 45
  BY <1>4 DEF Numeral
<1>6. \A k \in i + 1 .. j : t[k] \in Digits
  <2>1. i \in 0 .. n /\ j \in i .. n
    BY <1>1
  <2>2. QED
    BY <1>3, <2>1, AllDigitsAre
<1>7. ASSUME j < n PROVE t[j + 1] \in {69, 101} /\ \E u \in {0, 1} : Numeral(t, j + 1, u, n)
  <2>1. PICK m \in Nat : m = j + 1
    BY <1>1
  <2>2. m \in 0 .. n /\ n \in m .. n
    BY <1>1, <1>7, <2>1
  <2>3. IsInteger(SubSeq(t, m + 1, n))
    BY <1>3, <1>7, <2>1 DEF From
  <2>4. \E u \in {0, 1} : Numeral(t, m, u, n)
    BY <2>2, <2>3, IntegerWithin
  <2>5. QED
    BY <1>3, <1>7, <2>1, <2>4
<1>8. j \in 1 .. n
  BY <1>1
<1>9. Fraction(t, s, i, j)
  BY <1>2, <1>4, <1>5, <1>6, <1>7 DEF Fraction
<1>10. QED
  BY <1>8, <1>9

LEMMA ValuesAppend ==
  ASSUME NEW t \in Seq(Digits), NEW d \in Digits
  PROVE  Values(Append(t, d))[Len(Append(t, d))] = 10 * Values(t)[Len(t)] + d - 48
<1> DEFINE w == Append(t, d)
           n == Len(t)
           T == {k \in Nat : k <= n => Values(w)[k] = Values(t)[k]}
<1>1. /\ n \in Nat /\ w \in Seq(Digits) /\ Len(w) = n + 1 /\ w[n + 1] = d
      /\ \A i \in 1 .. n : w[i] = t[i]
  BY LenProperties, AppendProperties
<1> HIDE DEF w, n
<1>2. Values(w)[0] = 0 /\ \A k \in 1 .. n + 1 : Values(w)[k] = 10 * Values(w)[k - 1] + w[k] - 48
  BY <1>1, ValuesAre
<1>3. Values(t)[0] = 0 /\ \A k \in 1 .. n : Values(t)[k] = 10 * Values(t)[k - 1] + t[k] - 48
  BY ValuesAre DEF n
<1>4. 0 \in T
  BY <1>2, <1>3
<1>5. ASSUME NEW k \in T PROVE k + 1 \in T
  <2>1. SUFFICES ASSUME k + 1 <= n PROVE Values(w)[k + 1] = Values(t)[k + 1]
    OBVIOUS
  <2>2. PICK i \in Nat : i = k + 1 /\ i - 1 = k /\ i \in 1 .. n /\ i \in 1 .. n + 1
    BY <1>1, <2>1
  <2>3. Values(w)[k] = Values(t)[k]
    BY <1>1, <2>1
  <2>4. Values(w)[i] = 10 * Values(w)[i - 1] + w[i] - 48 /\ w[i] = t[i]
    BY <1>1, <1>2, <2>2
  <2>5. Values(t)[i] = 10 * Values(t)[i - 1] + t[i] - 48
    BY <1>3, <2>2
  <2>6. Values(w)[i] = Values(t)[i]
    BY <2>2, <2>3, <2>4, <2>5
  <2>7. QED
    BY <2>2, <2>6
<1>6. T = Nat
  <2> HIDE DEF T
  <2>1. T \in SUBSET Nat
    BY DEF T
  <2>2. QED
    BY <1>4, <1>5, <2>1, SetInduction
<1>7. Values(w)[n] = Values(t)[n]
  <2>1. n \in T
    BY <1>1, <1>6
  <2>2. QED
    BY <1>1, <2>1
<1>8. PICK i \in Nat : i = n + 1 /\ i - 1 = n /\ i \in 1 .. n + 1
  BY <1>1
<1>9. Values(w)[i] = 10 * Values(w)[i - 1] + w[i] - 48
  BY <1>2, <1>8
<1>10. Values(w)[i] = 10 * Values(t)[n] + d - 48
  BY <1>1, <1>7, <1>8, <1>9
<1>11. QED
  BY <1>1, <1>8, <1>10 DEF w, n

LEMMA Tenths ==
  ASSUME NEW n \in Nat
  PROVE  n = 10 * (n \div 10) + (n % 10)
<1>1. n = (n \div 10) * 10 + (n % 10) /\ n \div 10 \in Nat
  OBVIOUS
<1>2. QED
  BY <1>1

\* t is digits, and n what they say.
Says(t, n) == t \in Seq(Digits) /\ t # <<>> /\ Values(t)[Len(t)] = n

LEMMA DigitsSay == \A n \in Nat : Says(DigitsOf[n], n)
<1>1. SUFFICES ASSUME {n \in Nat : ~Says(DigitsOf[n], n)} # {} PROVE FALSE
  OBVIOUS
<1>2. PICK n \in Nat : ~Says(DigitsOf[n], n) /\ \A m \in Nat : m < n => Says(DigitsOf[m], m)
  <2> DEFINE T == {m \in Nat : ~Says(DigitsOf[m], m)}
  <2>1. T \in SUBSET Nat /\ T # {}
    BY <1>1
  <2>2. PICK n \in T : \A m \in T : n <= m
    <3> HIDE DEF T
    <3>1. QED
      BY <2>1, LeastNatural
  <2>3. \A m \in Nat : m < n => m \notin T
    BY <2>2
  <2>4. QED
    BY <2>2, <2>3
<1> DEFINE m == n \div 10
           d == 48 + (n % 10)
           u == IF n < 10 THEN <<>> ELSE DigitsOf[m]
<1>3. m \in Nat /\ d \in Digits /\ n = 10 * m + d - 48 /\ (n >= 10 => m < n) /\ (n < 10 => m = 0)
  <2>1. m \in Nat /\ n % 10 \in 0 .. 9 /\ (n >= 10 => m < n)
    BY Tenth
  <2>2. n = 10 * m + (n % 10)
    BY Tenths
  <2>3. d \in Digits /\ d - 48 = n % 10
    BY <2>1 DEF Digits
  <2>4. QED
    BY <2>1, <2>2, <2>3
<1>4. DigitsOf[n] = u \o <<d>>
  BY DigitsAre DEF Digited
<1> HIDE DEF m, d
<1>5. u \in Seq(Digits) /\ Values(u)[Len(u)] = m
  <2>1. CASE n < 10
    <3>1. u = <<>> /\ <<>> \in Seq(Digits) /\ Len(<<>>) = 0
      BY <2>1, EmptySeq
    <3>2. Values(<<>>)[0] = 0
      BY <3>1, ValuesAre
    <3>3. QED
      BY <1>3, <2>1, <3>1, <3>2
  <2>2. CASE ~(n < 10)
    <3>1. u = DigitsOf[m] /\ m < n
      BY <1>3, <2>2
    <3>2. Says(u, m)
      BY <1>2, <1>3, <3>1
    <3>3. QED
      BY <3>2 DEF Says
  <2>3. QED
    BY <2>1, <2>2
<1> HIDE DEF u
<1>6. DigitsOf[n] = Append(u, d)
  BY <1>3, <1>4, <1>5
<1>7. Append(u, d) \in Seq(Digits) /\ Append(u, d) # <<>>
  BY <1>3, <1>5, AppendProperties
<1>8. Values(Append(u, d))[Len(Append(u, d))] = 10 * m + d - 48
  BY <1>3, <1>5, ValuesAppend
<1>9. Says(DigitsOf[n], n)
  BY <1>3, <1>6, <1>7, <1>8 DEF Says
<1>10. QED
  BY <1>2, <1>9

\* An integer as it is printed: what it is, and how it is read.
IntegerText(t, n) ==
  /\ t \in Seq(Byte) /\ t # <<>> /\ IsInteger(t) /\ BinaryToInteger(t) = n
  /\ \E s \in {0, 1} : Numeral(t, 0, s, Len(t)) /\ (s = 1 => t[1] = 45)

LEMMA IntegersArePrinted == \A n \in Int : IntegerText(IntegerToBinary(n), n)
<1>1. SUFFICES ASSUME NEW n \in Int PROVE IntegerText(IntegerToBinary(n), n)
  OBVIOUS
<1> DEFINE m == IF n < 0 THEN -n ELSE n
           t == DigitsOf[m]
<1>2. m \in Nat
  OBVIOUS
<1>3. t \in Seq(Digits) /\ t # <<>> /\ Values(t)[Len(t)] = m
  BY <1>2, DigitsSay DEF Says
<1>4. /\ t \in Seq(Byte) /\ Len(t) \in Nat /\ Len(t) > 0
      /\ \A k \in 1 .. Len(t) : t[k] \in Digits /\ t[k] # 43 /\ t[k] # 45
  <2> HIDE DEF t
  <2>1. Digits \in SUBSET Byte /\ \A c \in Digits : c # 43 /\ c # 45
    BY DEF Digits, Byte
  <2>2. t \in Seq(Byte)
    BY <1>3, <2>1, SeqMonotonic
  <2>3. QED
    BY <1>3, <2>1, <2>2, LenProperties, ElementOfSeq, EmptySeq
<1>5. CASE ~(n < 0)
  <2>1. IntegerToBinary(n) = t /\ m = n
    BY <1>5 DEF IntegerToBinary
  <2> HIDE DEF t, m
  <2>2. Numeral(t, 0, 0, Len(t))
    BY <1>4 DEF Numeral
  <2>3. IsInteger(t)
    BY <1>4, <2>2, IntegersAre
  <2>4. At(t, 0) = t[1] /\ t[1] \notin {43, 45}
    BY <1>4, AtIs
  <2>5. Unsigned(t) = t
    BY <2>4 DEF Unsigned
  <2>6. BinaryToInteger(t) = m
    BY <1>3, <2>4, <2>5 DEF BinaryToInteger
  <2>7. QED
    BY <1>3, <1>4, <2>1, <2>2, <2>3, <2>6 DEF IntegerText
<1>6. CASE n < 0
  <2> DEFINE q == <<45>>
             w == q \o t
  <2>1. IntegerToBinary(n) = w /\ n = -m
    BY <1>6 DEF IntegerToBinary
  <2>2. q \in Seq(Byte) /\ Len(q) = 1 /\ q[1] = 45
    BY OneByte DEF Byte
  <2> HIDE DEF t, m, q
  <2>3. /\ w \in Seq(Byte) /\ Len(w) = 1 + Len(t) /\ w[1] = 45
        /\ \A k \in 1 .. Len(t) : w[1 + k] = t[k]
    <3>1. 1 \in 1 .. Len(q)
      BY <2>2
    <3>2. QED
      <4>1. /\ w \in Seq(Byte) /\ Len(w) = Len(q) + Len(t)
            /\ \A k \in 1 .. Len(q) : w[k] = q[k]
            /\ \A k \in 1 .. Len(t) : w[Len(q) + k] = t[k]
        BY <1>4, <2>2, Joined
      <4> HIDE DEF w
      <4>2. QED
        BY <2>2, <3>1, <4>1
  <2>4. From(w, 1) = t
    BY <1>4, <2>2, TakenApart
  <2> HIDE DEF w
  <2>5. Numeral(w, 0, 1, Len(w))
    <3>1. ASSUME NEW k \in 0 + 1 + 1 .. Len(w) PROVE w[k] \in Digits
      <4>1. k - 1 \in 1 .. Len(t) /\ 1 + (k - 1) = k
        BY <1>4, <2>3
      <4>2. QED
        BY <1>4, <2>3, <4>1
    <3>2. 0 + 1 < Len(w) /\ w[0 + 1] \in {43, 45}
      BY <1>4, <2>3
    <3>3. QED
      BY <3>1, <3>2 DEF Numeral
  <2>6. IsInteger(w)
    BY <2>3, <2>5, IntegersAre
  <2>7. At(w, 0) = 45
    BY <1>4, <2>3, AtIs
  <2>8. Unsigned(w) = t
    BY <2>4, <2>7 DEF Unsigned
  <2>9. BinaryToInteger(w) = -m
    BY <1>3, <2>7, <2>8 DEF BinaryToInteger
  <2>10. w # <<>>
    BY <1>4, <2>3, EmptySeq
  <2>11. QED
    BY <2>1, <2>3, <2>5, <2>6, <2>9, <2>10 DEF IntegerText
<1>7. QED
  BY <1>5, <1>6

\* What stands complete in b.
LEMMA StandsWhole ==
  ASSUME NEW t \in Seq(Byte), NEW b \in Seq(Byte), NEW o \in Nat, Stands(t, b, o), o + Len(t) <= Len(b)
  PROVE  SubSeq(b, o + 1, o + Len(t)) = t
<1> DEFINE j == o + Len(t)
           x == SubSeq(b, o + 1, j)
<1>1. Len(t) \in Nat /\ Len(b) \in Nat /\ o \in 0 .. Len(b) /\ j \in o .. Len(b) /\ j - o = Len(t)
  <2>1. Len(t) \in Nat /\ Len(b) \in Nat
    BY Bytes
  <2>2. QED
    BY <2>1
<1>2. \A i \in 1 .. Len(t) : b[o + i] = t[i]
  BY <1>1 DEF Stands
<1> HIDE DEF j
<1>3. /\ x \in Seq(Byte) /\ Len(x) = Len(t) /\ \A k \in 1 .. Len(t) : x[k] = b[o + k]
  BY <1>1, PartIndexed
<1> HIDE DEF x
<1>4. x = t
  BY <1>2, <1>3, SeqEqual
<1>5. QED
  BY <1>4 DEF x, j

-----------------------------------------------------------------------------
(* Json: what is recursive in how deep values lie in one another *)

\* The documents, what they are printed as and mean, and what is read at each position.
Ground(what) == CASE what = "documents" -> {}
                  [] what = "texts"     -> [v \in {} |-> v]
                  [] what = "meanings"  -> [v \in {} |-> v]
                  [] what = "decoded"   -> [p \in Nat |-> NoJson]

PairsOver(documents) == [key : Seq(Byte), value : documents]

Around(documents) ==
  Plain \union [type : {"string"}, value : Seq(Byte)]
    \union [type : {"array"}, value : Seq(documents)]
    \union [type : {"object"}, value : Seq(PairsOver(documents))]

Deeper(what, a, d, x) ==
  CASE what = "documents" -> Around(x)
    [] what = "texts"     -> [v \in Documents[d + 1] |-> TextOf(v, x, a)]
    [] what = "meanings"  -> [v \in Documents[d + 1] |-> MeaningOf(v, x)]
    [] what = "decoded"   -> [p \in Nat |-> DecodeValue(a, x, p)]

\* f has the first values of one of them.
UpTo(f, n, what, a) ==
  /\ DOMAIN f = 0 .. n
  /\ f[0] = Ground(what)
  /\ \A d \in 0 .. n - 1 : f[d + 1] = Deeper(what, a, d, f[d])

LEMMA UpToAll ==
  ASSUME NEW what, NEW a
  PROVE  \A n \in Nat : \E f : UpTo(f, n, what, a)
<1> DEFINE I == {n \in Nat : \E f : UpTo(f, n, what, a)}
<1>1. 0 \in I
  <2>1. UpTo([d \in 0 .. 0 |-> Ground(what)], 0, what, a)
    BY DEF UpTo
  <2>2. QED
    BY <2>1
<1>2. ASSUME NEW n \in I PROVE n + 1 \in I
  <2>1. PICK f : UpTo(f, n, what, a)
    OBVIOUS
  <2>2. n \in Nat
    OBVIOUS
  <2> DEFINE x == Deeper(what, a, n, f[n])
             g == [d \in 0 .. n + 1 |-> IF d = n + 1 THEN x ELSE f[d]]
  <2> HIDE DEF x
  <2>3. DOMAIN g = 0 .. n + 1 /\ g[0] = Ground(what)
    BY <2>1, <2>2 DEF UpTo
  <2>4. ASSUME NEW d \in 0 .. n PROVE g[d + 1] = Deeper(what, a, d, g[d])
    <3>1. g[d] = f[d] /\ g[d + 1] = IF d = n THEN x ELSE f[d + 1]
      BY <2>2
    <3>2. CASE d = n
      BY <3>1, <3>2 DEF x
    <3>3. CASE d # n
      <4>1. d \in 0 .. n - 1 /\ g[d + 1] = f[d + 1]
        BY <2>2, <3>1, <3>3
      <4>2. QED
        BY <2>1, <3>1, <4>1 DEF UpTo
    <3>4. QED
      BY <3>2, <3>3
  <2> HIDE DEF g
  <2>5. UpTo(g, n + 1, what, a)
    <3>1. n + 1 - 1 = n
      BY <2>2
    <3>2. QED
      BY <2>3, <2>4, <3>1 DEF UpTo
  <2>6. QED
    BY <2>2, <2>5
<1>3. I = Nat
  <2> HIDE DEF I
  <2>1. I \in SUBSET Nat
    BY DEF I
  <2>2. QED
    BY <1>1, <1>2, <2>1, SetInduction
<1>4. QED
  BY <1>3

LEMMA UpToAlike ==
  ASSUME NEW what, NEW a, NEW m \in Nat, NEW n \in Nat, m <= n, NEW f, NEW g,
         UpTo(f, m, what, a), UpTo(g, n, what, a)
  PROVE  f[m] = g[m]
<1> DEFINE I == {d \in Nat : d <= m => f[d] = g[d]}
<1>1. 0 \in I
  BY DEF UpTo
<1>2. ASSUME NEW d \in I PROVE d + 1 \in I
  <2>1. CASE d + 1 <= m
    <3>1. d \in 0 .. m - 1 /\ d \in 0 .. n - 1 /\ f[d] = g[d]
      BY <2>1
    <3>2. f[d + 1] = Deeper(what, a, d, f[d]) /\ g[d + 1] = Deeper(what, a, d, g[d])
      BY <3>1 DEF UpTo
    <3>3. QED
      BY <1>2, <3>1, <3>2
  <2>2. QED
    BY <2>1
<1>3. I = Nat
  <2> HIDE DEF I
  <2>1. I \in SUBSET Nat
    BY DEF I
  <2>2. QED
    BY <1>1, <1>2, <2>1, SetInduction
<1>4. QED
  BY <1>3

\* f has all values of one of them.
Solution(f, what, a) ==
  /\ f = [n \in Nat |-> f[n]] /\ f[0] = Ground(what)
  /\ \A n \in Nat : f[n + 1] = Deeper(what, a, n, f[n])

LEMMA Solved ==
  ASSUME NEW what, NEW a
  PROVE  \E f : Solution(f, what, a)
<1> DEFINE F == [n \in Nat |-> CHOOSE f : UpTo(f, n, what, a)]
<1>1. \A n \in Nat : UpTo(F[n], n, what, a)
  BY UpToAll
<1> HIDE DEF F
<1> DEFINE f == [n \in Nat |-> F[n][n]]
<1>2. f[0] = Ground(what)
  BY <1>1 DEF UpTo
<1>3. ASSUME NEW n \in Nat PROVE f[n + 1] = Deeper(what, a, n, f[n])
  <2>1. /\ UpTo(F[n], n, what, a) /\ UpTo(F[n + 1], n + 1, what, a)
        /\ n + 1 \in Nat /\ n <= n + 1 /\ n + 1 - 1 = n
    BY <1>1
  <2> HIDE DEF f
  <2>2. F[n][n] = F[n + 1][n]
    BY <2>1, UpToAlike
  <2>3. F[n + 1][n + 1] = Deeper(what, a, n, F[n + 1][n])
    BY <2>1 DEF UpTo
  <2>4. QED
    BY <2>1, <2>2, <2>3 DEF f
<1>4. f = [n \in Nat |-> f[n]]
  OBVIOUS
<1> HIDE DEF f
<1>5. Solution(f, what, a)
  BY <1>2, <1>3, <1>4 DEF Solution
<1>6. QED
  BY <1>5

LEMMA DocumentsAre ==
  /\ Documents[0] = {}
  /\ \A d \in Nat : Documents[d + 1] = Around(Documents[d])
<1>1. PICK f : Solution(f, "documents", 0)
  BY Solved, Zenon
<1>2. f[0] = {} /\ \A n \in Nat : f[n + 1] = Around(f[n])
  BY <1>1 DEF Solution, Ground, Deeper
<1>3. \A n \in Nat : f[n] = IF n = 0 THEN {} ELSE Around(f[n - 1])
  <2> TAKE n \in Nat
  <2>1. CASE n # 0
    <3>1. n - 1 \in Nat /\ n - 1 + 1 = n
      BY <2>1
    <3>2. f[n] = Around(f[n - 1])
      BY <1>2, <3>1
    <3>3. QED
      BY <2>1, <3>2
  <2>2. QED
    BY <1>2, <2>1
<1>4. f = [n \in Nat |-> IF n = 0 THEN {} ELSE Around(f[n - 1])]
  BY <1>1, <1>3 DEF Solution
<1> DEFINE sets == Documents
<1>5. sets = [n \in Nat |-> IF n = 0 THEN {} ELSE Around(sets[n - 1])]
  BY <1>4, Zenon DEF Documents, Around, PairsOver
<1> HIDE DEF sets
<1>6. sets[0] = {}
  BY <1>5
<1>7. ASSUME NEW d \in Nat, NEW n, n = d + 1 PROVE sets[n] = Around(sets[d])
  <2>1. n \in Nat /\ n # 0 /\ n - 1 = d
    BY <1>7
  <2>2. sets[n] = IF n = 0 THEN {} ELSE Around(sets[n - 1])
    BY <1>5, <2>1, Zenon
  <2>3. QED
    BY <2>1, <2>2, Zenon
<1>8. QED
  BY <1>6, <1>7, Zenon DEF sets

LEMMA TextsAre ==
  ASSUME NEW blank
  PROVE  \A d \in Nat : \A v \in Documents[d + 1] :
           Printings(blank)[d + 1][v] = TextOf(v, Printings(blank)[d], blank)
<1>1. PICK f : Solution(f, "texts", blank)
  BY Solved, Zenon
<1>2. /\ f[0] = [v \in {} |-> v]
      /\ \A n \in Nat : f[n + 1] = [v \in Documents[n + 1] |-> TextOf(v, f[n], blank)]
  BY <1>1 DEF Solution, Ground, Deeper
<1>3. \A n \in Nat : f[n] = [v \in Documents[n] |-> TextOf(v, f[n - 1], blank)]
  <2> TAKE n \in Nat
  <2>1. CASE n = 0
    <3>1. Documents[n] = {} /\ f[n] = [v \in {} |-> v]
      BY <1>2, <2>1, DocumentsAre
    <3>2. QED
      BY <3>1
  <2>2. CASE n # 0
    <3>1. n - 1 \in Nat /\ n - 1 + 1 = n
      BY <2>2
    <3>2. QED
      BY <1>2, <3>1
  <2>3. QED
    BY <2>1, <2>2
<1> DEFINE P(x) == x = [n \in Nat |-> [v \in Documents[n] |-> TextOf(v, x[n - 1], blank)]]
           funs == Printings(blank)
<1>4. P(f)
  BY <1>1, <1>3 DEF Solution
<1>5. funs = CHOOSE x : P(x)
  BY Zenon DEF Printings
<1>6. P(funs)
  <2> HIDE DEF P, funs
  <2>1. QED
    BY <1>4, <1>5, Zenon
<1> HIDE DEF funs
<1>7. ASSUME NEW d \in Nat, NEW v \in Documents[d + 1]
      PROVE  funs[d + 1][v] = TextOf(v, funs[d], blank)
  <2>1. d + 1 \in Nat /\ d + 1 - 1 = d
    OBVIOUS
  <2>2. funs[d + 1] = [w \in Documents[d + 1] |-> TextOf(w, funs[d], blank)]
    BY <1>6, <2>1
  <2>3. QED
    BY <2>2
<1>8. QED
  BY <1>7, Zenon DEF funs

LEMMA MeaningsAre ==
  \A d \in Nat : \A v \in Documents[d + 1] : Meanings[d + 1][v] = MeaningOf(v, Meanings[d])
<1>1. PICK f : Solution(f, "meanings", 0)
  BY Solved, Zenon
<1>2. /\ f[0] = [v \in {} |-> v]
      /\ \A n \in Nat : f[n + 1] = [v \in Documents[n + 1] |-> MeaningOf(v, f[n])]
  BY <1>1 DEF Solution, Ground, Deeper
<1>3. \A n \in Nat : f[n] = [v \in Documents[n] |-> MeaningOf(v, f[n - 1])]
  <2> TAKE n \in Nat
  <2>1. CASE n = 0
    <3>1. Documents[n] = {} /\ f[n] = [v \in {} |-> v]
      BY <1>2, <2>1, DocumentsAre
    <3>2. QED
      BY <3>1
  <2>2. CASE n # 0
    <3>1. n - 1 \in Nat /\ n - 1 + 1 = n
      BY <2>2
    <3>2. QED
      BY <1>2, <3>1
  <2>3. QED
    BY <2>1, <2>2
<1> DEFINE P(x) == x = [n \in Nat |-> [v \in Documents[n] |-> MeaningOf(v, x[n - 1])]]
           funs == Meanings
<1>4. P(f)
  BY <1>1, <1>3 DEF Solution
<1>5. funs = CHOOSE x : P(x)
  BY Zenon DEF Meanings
<1>6. P(funs)
  <2> HIDE DEF P, funs
  <2>1. QED
    BY <1>4, <1>5, Zenon
<1> HIDE DEF funs
<1>7. ASSUME NEW d \in Nat, NEW v \in Documents[d + 1]
      PROVE  funs[d + 1][v] = MeaningOf(v, funs[d])
  <2>1. d + 1 \in Nat /\ d + 1 - 1 = d
    OBVIOUS
  <2>2. funs[d + 1] = [w \in Documents[d + 1] |-> MeaningOf(w, funs[d])]
    BY <1>6, <2>1
  <2>3. QED
    BY <2>2
<1>8. QED
  BY <1>7, Zenon DEF funs

LEMMA DecodedIs ==
  ASSUME NEW b
  PROVE  /\ \A p \in Nat : Decoded(b)[0][p] = NoJson
         /\ \A d \in Nat : \A p \in Nat : Decoded(b)[d + 1][p] = DecodeValue(b, Decoded(b)[d], p)
<1>1. PICK f : Solution(f, "decoded", b)
  BY Solved, Zenon
<1>2. f[0] = [p \in Nat |-> NoJson]
  BY <1>1 DEF Solution, Ground
<1>3. ASSUME NEW n \in Nat PROVE f[n + 1] = [p \in Nat |-> DecodeValue(b, f[n], p)]
  BY <1>1 DEF Solution, Deeper
<1>4. \A n \in Nat : f[n] = IF n = 0 THEN [p \in Nat |-> NoJson]
                            ELSE [p \in Nat |-> DecodeValue(b, f[n - 1], p)]
  <2> TAKE n \in Nat
  <2>1. CASE n # 0
    <3>1. n - 1 \in Nat /\ n - 1 + 1 = n
      BY <2>1
    <3>2. f[n] = [p \in Nat |-> DecodeValue(b, f[n - 1], p)]
      BY <1>3, <3>1
    <3>3. QED
      BY <2>1, <3>2
  <2>2. QED
    BY <1>2, <2>1
<1> DEFINE P(x) == x = [n \in Nat |-> IF n = 0 THEN [p \in Nat |-> NoJson]
                                      ELSE [p \in Nat |-> DecodeValue(b, x[n - 1], p)]]
           funs == Decoded(b)
<1>5. P(f)
  BY <1>1, <1>4 DEF Solution
<1>6. funs = CHOOSE x : P(x)
  BY Zenon DEF Decoded
<1>7. P(funs)
  <2> HIDE DEF P, funs
  <2>1. QED
    BY <1>5, <1>6, Zenon
<1> HIDE DEF funs
<1>8. ASSUME NEW d \in Nat, NEW p \in Nat PROVE funs[d + 1][p] = DecodeValue(b, funs[d], p)
  <2>1. d + 1 \in Nat /\ d + 1 # 0 /\ d + 1 - 1 = d
    OBVIOUS
  <2>2. funs[d + 1] = [q \in Nat |-> DecodeValue(b, funs[d], q)]
    BY <1>7, <2>1
  <2>3. QED
    BY <2>2
<1>9. \A p \in Nat : funs[0][p] = NoJson
  <2>1. funs[0] = [p \in Nat |-> NoJson]
    BY <1>7
  <2>2. QED
    BY <2>1
<1>10. QED
  BY <1>8, <1>9, Zenon DEF funs

-----------------------------------------------------------------------------
(* Json: values, by their first byte *)

\* t stands at o, and something after it that may come after a value.
Standing(t, b, o) == Stands(t, b, o) /\ At(b, o + Len(t)) \in Ends

\* What decode_value gives for a value that is printed as t at o and means m: the value and
\* where its text ends, if it is not too deep.  Of a text that is cut short it makes nothing
\* that is not at the end of the bytes, and of one between delimiters nothing at all.
ReadsTo(r, t, b, o, fits, m, enclosed) ==
  /\ o + Len(t) <= Len(b) => r = IF fits THEN Json(m, o + Len(t)) ELSE NoJson
  /\ o + Len(t) > Len(b) => ~r.ok \/ (~enclosed /\ r.pos \in Nat /\ r.pos >= Len(b))

\* The text of a value, without blanks around it.
Core(t) ==
  t \in Seq(Byte) /\ t # <<>> /\ t[1] \notin Blanks /\ t[1] \notin {CloseArray, CloseObject}

LEMMA CoreIs ==
  ASSUME NEW t, Core(t)
  PROVE  t \in Seq(Byte) /\ Len(t) \in Nat /\ Len(t) > 0 /\ t[1] \in Byte /\ t[1] # -1
<1>1. t \in Seq(Byte) /\ Len(t) \in Nat /\ t # <<>>
  BY Bytes DEF Core
<1>2. Len(t) > 0
  BY <1>1, EmptySeq
<1>3. t[1] \in Byte
  BY <1>1, <1>2, Bytes
<1>4. \A c \in Byte : c # -1
  BY DEF Byte
<1>5. QED
  BY <1>1, <1>2, <1>3, <1>4

LEMMA NumberStarts ==
  \A c \in {45} \union Digits : c \notin Blanks /\ c \notin {CloseArray, CloseObject}
BY DEF Digits, Blanks, CloseArray, CloseObject

LEMMA FirstByte ==
  ASSUME NEW b, NEW below, NEW p, NEW o, SkipWs(b, p) = o
  PROVE  LET r == DecodeValue(b, below, p)
             c == At(b, o)
         IN  /\ c = -1 => r = NoJson
             /\ c \in {45} \union Digits => r = DecodeNumber(b, o)
             /\ c = Quote => r = DecStr(b, o + 1)
             /\ c = OpenArray => r = DecodeArray(b, below, o + 1)
             /\ c = OpenObject => r = DecodeObject(b, below, o + 1)
             /\ c = 116 => r = Json(Typed("atom", "true"), o + 4)
             /\ c = 102 => r = Json(Typed("atom", "false"), o + 5)
             /\ c = 110 => r = Json(Typed("atom", "null"), o + 4)
<1> DEFINE r == DecodeValue(b, below, p)
           c == At(b, o)
<1>1. r = CASE c = OpenObject -> DecodeObject(b, below, o + 1)
            [] c = OpenArray  -> DecodeArray(b, below, o + 1)
            [] c = Quote      -> DecStr(b, o + 1)
            [] c = 116        -> Json(Typed("atom", "true"), o + 4)
            [] c = 102        -> Json(Typed("atom", "false"), o + 5)
            [] c = 110        -> Json(Typed("atom", "null"), o + 4)
            [] c \in {45} \union Digits -> DecodeNumber(b, o)
            [] OTHER          -> NoJson
  BY DEF DecodeValue
<1>2. OpenObject = 123 /\ OpenArray = 91 /\ Quote = 34 /\ Digits = 48 .. 57
  BY DEF OpenObject, OpenArray, Quote, Digits
<1> HIDE DEF r, c
<1>3. QED
  BY <1>1, <1>2 DEF r, c

LEMMA FirstByteOf ==
  ASSUME NEW t, Core(t), NEW b \in Seq(Byte), NEW o \in Nat, Stands(t, b, o)
  PROVE  /\ o < Len(b) => At(b, o) = t[1]
         /\ o >= Len(b) => At(b, o) = -1 /\ o + Len(t) > Len(b)
         /\ At(b, o) \notin Blanks /\ At(b, o) \notin {CloseArray, CloseObject}
<1>1. Len(b) \in Nat /\ t \in Seq(Byte) /\ Len(t) \in Nat /\ 0 < Len(t)
  BY CoreIs, Bytes
<1>2. At(b, o + 0) = IF o + 0 < Len(b) THEN t[0 + 1] ELSE -1
  BY <1>1, StandsAt
<1>3. At(b, o) = IF o < Len(b) THEN t[1] ELSE -1
  BY <1>2
<1>4. -1 \notin Blanks /\ -1 \notin {CloseArray, CloseObject}
  BY BlankBytes DEF CloseArray, CloseObject
<1>5. QED
  BY <1>1, <1>3, <1>4 DEF Core

LEMMA NumberRead ==
  ASSUME NEW b \in Seq(Byte), NEW o \in Nat
  PROVE  DecodeNumber(b, o).ok => DecodeNumber(b, o).pos = CollectNum(b, o).end
<1> DEFINE n == CollectNum(b, o)
           text == SubSeq(b, o + 1, n.end)
<1>1. DecodeNumber(b, o) = CASE n.isFloat /\ IsFloat(text) -> Json(Typed("float", text), n.end)
                             [] ~n.isFloat /\ IsInteger(text) ->
                                  Json(Typed("integer", BinaryToInteger(text)), n.end)
                             [] OTHER -> NoJson
  BY DEF DecodeNumber
<1> HIDE DEF n, text
<1>2. CASE n.isFloat /\ IsFloat(text)
  <2>1. DecodeNumber(b, o) = Json(Typed("float", text), n.end)
    BY <1>1, <1>2
  <2>2. QED
    BY <2>1 DEF Json, n
<1>3. CASE ~n.isFloat /\ IsInteger(text)
  <2>1. DecodeNumber(b, o) = Json(Typed("integer", BinaryToInteger(text)), n.end)
    BY <1>1, <1>3
  <2>2. QED
    BY <2>1 DEF Json, n
<1>4. CASE ~(n.isFloat /\ IsFloat(text)) /\ ~(~n.isFloat /\ IsInteger(text))
  <2>1. DecodeNumber(b, o) = NoJson
    BY <1>1, <1>4
  <2>2. QED
    BY <2>1 DEF NoJson
<1>5. QED
  BY <1>2, <1>3, <1>4

LEMMA IntegerRead ==
  ASSUME NEW v \in [type : {"integer"}, value : Int], NEW t, t = IntegerToBinary(v.value),
         NEW b \in Seq(Byte), NEW o \in Nat, Standing(t, b, o), NEW below,
         NEW p, SkipWs(b, p) = o
  PROVE  Core(t) /\ ReadsTo(DecodeValue(b, below, p), t, b, o, TRUE, v, FALSE)
<1>1. /\ t \in Seq(Byte) /\ t # <<>> /\ IsInteger(t) /\ BinaryToInteger(t) = v.value
      /\ \E s \in {0, 1} : Numeral(t, 0, s, Len(t)) /\ (s = 1 => t[1] = 45)
  <2>1. v.value \in Int
    OBVIOUS
  <2>2. IntegerText(t, v.value)
    BY <2>1, IntegersArePrinted
  <2>3. QED
    BY <2>2 DEF IntegerText
<1>2. PICK s \in {0, 1} : Numeral(t, 0, s, Len(t)) /\ (s = 1 => t[1] = 45)
  BY <1>1
<1>3. t[1] \in {45} \union Digits
  <2>1. CASE s = 1
    BY <1>2, <2>1
  <2>2. CASE s = 0
    <3>1. 1 \in 0 + 0 + 1 .. Len(t)
      BY <1>2, <2>2, Bytes, <1>1 DEF Numeral
    <3>2. QED
      BY <1>2, <2>2, <3>1 DEF Numeral
  <2>3. QED
    BY <2>1, <2>2
<1>4. Core(t)
  BY <1>1, <1>3, NumberStarts DEF Core
<1>5. v = Typed("integer", v.value)
  BY DEF Typed
<1>6. Len(t) \in Nat /\ Len(b) \in Nat /\ Stands(t, b, o) /\ At(b, o + Len(t)) \in Ends
  BY <1>1, Bytes DEF Standing
<1>7. CASE o >= Len(b)
  <2>1. DecodeValue(b, below, p) = NoJson /\ o + Len(t) > Len(b)
    BY <1>4, <1>6, <1>7, FirstByteOf, FirstByte
  <2>2. QED
    BY <1>4, <1>6, <2>1 DEF ReadsTo, NoJson
<1>8. CASE o < Len(b)
  <2>1. DecodeValue(b, below, p) = DecodeNumber(b, o)
    BY <1>3, <1>4, <1>6, <1>8, FirstByteOf, FirstByte
  <2>2. CollectNum(b, o) = [end |-> NumeralEnd(b, o, Len(t)), isFloat |-> FALSE]
    BY <1>1, <1>2, <1>6, <1>8, IntegerEnds
  <2>3. CASE o + Len(t) <= Len(b)
    <3>1. CollectNum(b, o).end = o + Len(t) /\ CollectNum(b, o).isFloat = FALSE
      BY <2>2, <2>3 DEF NumeralEnd
    <3>2. SubSeq(b, o + 1, o + Len(t)) = t
      BY <1>1, <1>6, <2>3, StandsWhole
    <3>3. DecodeNumber(b, o) = Json(Typed("integer", v.value), o + Len(t))
      BY <1>1, <3>1, <3>2 DEF DecodeNumber
    <3>4. DecodeValue(b, below, p) = Json(v, o + Len(t))
      BY <1>5, <2>1, <3>3, Zenon
    <3>5. QED
      BY <1>4, <1>6, <2>3, <3>4 DEF ReadsTo
  <2>4. CASE ~(o + Len(t) <= Len(b))
    <3>1. CollectNum(b, o).end = Len(b)
      BY <2>2, <2>4 DEF NumeralEnd
    <3>2. QED
      BY <1>4, <1>6, <2>1, <2>4, <3>1, NumberRead DEF ReadsTo
  <2>5. QED
    BY <2>3, <2>4
<1>9. o < Len(b) \/ o >= Len(b)
  BY <1>6
<1>10. QED
  BY <1>7, <1>8, <1>9, Zenon

LEMMA FloatRead ==
  ASSUME NEW v \in [type : {"float"}, value : {x \in Seq(Byte) : IsFloat(x) /\ x[1] # 43}],
         NEW t, t = v.value,
         NEW b \in Seq(Byte), NEW o \in Nat, Standing(t, b, o), NEW below,
         NEW p, SkipWs(b, p) = o
  PROVE  Core(t) /\ ReadsTo(DecodeValue(b, below, p), t, b, o, TRUE, v, FALSE)
<1>1. t \in Seq(Byte) /\ IsFloat(t) /\ t[1] # 43
  OBVIOUS
<1>2. PICK s \in {0, 1}, i \in 1 .. Len(t), j \in 1 .. Len(t) : Fraction(t, s, i, j)
  BY <1>1, FloatsAre
<1>3. t[1] \in {45} \union Digits /\ t # <<>>
  <2>1. Numeral(t, 0, s, i - 1) /\ (s = 1 => t[1] = 45)
    BY <1>2 DEF Fraction
  <2>2. CASE s = 1
    BY <1>1, <1>2, <2>1, <2>2, EmptySeq
  <2>3. CASE s = 0
    <3>1. 1 \in 0 + 0 + 1 .. i - 1
      BY <1>2, <2>1, <2>3 DEF Numeral
    <3>2. t[1] \in Digits
      BY <2>1, <2>3, <3>1 DEF Numeral
    <3>3. QED
      BY <1>2, <3>2, EmptySeq
  <2>4. QED
    BY <2>2, <2>3
<1>4. Core(t)
  BY <1>1, <1>3, NumberStarts DEF Core
<1>5. v = Typed("float", t)
  BY DEF Typed
<1>6. Len(t) \in Nat /\ Len(b) \in Nat /\ Stands(t, b, o) /\ At(b, o + Len(t)) \in Ends
  BY <1>1, Bytes DEF Standing
<1>7. CASE o >= Len(b)
  <2>1. DecodeValue(b, below, p) = NoJson /\ o + Len(t) > Len(b)
    BY <1>4, <1>6, <1>7, FirstByteOf, FirstByte
  <2>2. QED
    BY <1>4, <1>6, <2>1 DEF ReadsTo, NoJson
<1>8. CASE o < Len(b)
  <2>1. DecodeValue(b, below, p) = DecodeNumber(b, o)
    BY <1>3, <1>4, <1>6, <1>8, FirstByteOf, FirstByte
  <2>2. /\ CollectNum(b, o).end = NumeralEnd(b, o, Len(t))
        /\ o + Len(t) <= Len(b) => CollectNum(b, o).isFloat
    BY <1>1, <1>2, <1>6, <1>8, FloatEnds
  <2>3. CASE o + Len(t) <= Len(b)
    <3>1. CollectNum(b, o).end = o + Len(t) /\ CollectNum(b, o).isFloat
      BY <2>2, <2>3 DEF NumeralEnd
    <3>2. SubSeq(b, o + 1, o + Len(t)) = t
      BY <1>1, <1>6, <2>3, StandsWhole
    <3>3. DecodeNumber(b, o) = Json(Typed("float", t), o + Len(t))
      BY <1>1, <3>1, <3>2 DEF DecodeNumber
    <3>4. DecodeValue(b, below, p) = Json(v, o + Len(t))
      BY <1>5, <2>1, <3>3, Zenon
    <3>5. QED
      BY <1>4, <1>6, <2>3, <3>4 DEF ReadsTo
  <2>4. CASE ~(o + Len(t) <= Len(b))
    <3>1. CollectNum(b, o).end = Len(b)
      BY <2>2, <2>4 DEF NumeralEnd
    <3>2. QED
      BY <1>4, <1>6, <2>1, <2>4, <3>1, NumberRead DEF ReadsTo
  <2>5. QED
    BY <2>3, <2>4
<1>9. o < Len(b) \/ o >= Len(b)
  BY <1>6
<1>10. QED
  BY <1>7, <1>8, <1>9, Zenon

LEMMA AtomRead ==
  ASSUME NEW v \in [type : {"atom"}, value : {"true", "false", "null"}],
         NEW t, t = AtomTexts[v.value],
         NEW b \in Seq(Byte), NEW o \in Nat, Standing(t, b, o), NEW below,
         NEW p, SkipWs(b, p) = o
  PROVE  Core(t) /\ ReadsTo(DecodeValue(b, below, p), t, b, o, TRUE, v, FALSE)
<1>1. v = Typed("atom", v.value) /\ v.value \in {"true", "false", "null"}
  BY DEF Typed
<1>2. /\ t \in Seq(Byte) /\ t # <<>>
      /\ v.value = "true" => Len(t) = 4 /\ t[1] = 116
      /\ v.value = "false" => Len(t) = 5 /\ t[1] = 102
      /\ v.value = "null" => Len(t) = 4 /\ t[1] = 110
  <2>1. /\ 116 \in Byte /\ 114 \in Byte /\ 117 \in Byte /\ 101 \in Byte /\ 102 \in Byte
        /\ 97 \in Byte /\ 108 \in Byte /\ 115 \in Byte /\ 110 \in Byte
    BY DEF Byte
  <2>2. /\ "true" # "false" /\ "true" # "null" /\ "false" # "null"
    OBVIOUS
  <2>3. CASE v.value = "true"
    <3>1. t = <<116, 114, 117, 101>>
      BY <2>3 DEF AtomTexts
    <3>2. t \in Seq(Byte) /\ Len(t) = 4 /\ t[1] = 116
      BY <2>1, <3>1
    <3>3. QED
      BY <2>2, <2>3, <3>2, EmptySeq
  <2>4. CASE v.value = "false"
    <3>1. t = <<102, 97, 108, 115, 101>>
      BY <2>4 DEF AtomTexts
    <3>2. t \in Seq(Byte) /\ Len(t) = 5 /\ t[1] = 102
      BY <2>1, <3>1
    <3>3. QED
      BY <2>2, <2>4, <3>2, EmptySeq
  <2>5. CASE v.value = "null"
    <3>1. t = <<110, 117, 108, 108>>
      BY <2>5 DEF AtomTexts
    <3>2. t \in Seq(Byte) /\ Len(t) = 4 /\ t[1] = 110
      BY <2>1, <3>1
    <3>3. QED
      BY <2>2, <2>5, <3>2, EmptySeq
  <2>6. QED
    BY <1>1, <2>3, <2>4, <2>5
<1>3. Core(t)
  BY <1>1, <1>2 DEF Core, Blanks, CloseArray, CloseObject
<1>4. Len(t) \in Nat /\ Len(b) \in Nat /\ Stands(t, b, o)
  BY <1>2, Bytes DEF Standing
<1>5. CASE o >= Len(b)
  <2>1. DecodeValue(b, below, p) = NoJson /\ o + Len(t) > Len(b)
    BY <1>3, <1>4, <1>5, FirstByteOf, FirstByte
  <2>2. QED
    BY <1>3, <1>4, <2>1 DEF ReadsTo, NoJson
<1>6. CASE o < Len(b)
  <2>1. At(b, o) = t[1]
    BY <1>3, <1>4, <1>6, FirstByteOf
  <2>2. DecodeValue(b, below, p) = Json(v, o + Len(t))
    <3>1. CASE v.value = "true"
      <4>1. At(b, o) = 116 /\ Len(t) = 4 /\ v = Typed("atom", "true")
        BY <1>1, <1>2, <2>1, <3>1
      <4>2. DecodeValue(b, below, p) = Json(Typed("atom", "true"), o + 4)
        BY <4>1, FirstByte
      <4>3. QED
        BY <4>1, <4>2, Zenon
    <3>2. CASE v.value = "false"
      <4>1. At(b, o) = 102 /\ Len(t) = 5 /\ v = Typed("atom", "false")
        BY <1>1, <1>2, <2>1, <3>2
      <4>2. DecodeValue(b, below, p) = Json(Typed("atom", "false"), o + 5)
        BY <4>1, FirstByte
      <4>3. QED
        BY <4>1, <4>2, Zenon
    <3>3. CASE v.value = "null"
      <4>1. At(b, o) = 110 /\ Len(t) = 4 /\ v = Typed("atom", "null")
        BY <1>1, <1>2, <2>1, <3>3
      <4>2. DecodeValue(b, below, p) = Json(Typed("atom", "null"), o + 4)
        BY <4>1, FirstByte
      <4>3. QED
        BY <4>1, <4>2, Zenon
    <3>4. QED
      BY <1>1, <3>1, <3>2, <3>3
  <2>3. o + Len(t) \in Nat
    BY <1>4
  <2>4. QED
    BY <1>3, <1>4, <2>2, <2>3 DEF ReadsTo, Json
<1>7. o < Len(b) \/ o >= Len(b)
  BY <1>4
<1>8. QED
  BY <1>5, <1>6, <1>7, Zenon

LEMMA StringValueRead ==
  ASSUME NEW v \in [type : {"string"}, value : Seq(Byte)], NEW t, t = EncodeBinary(v.value),
         NEW b \in Seq(Byte), NEW o \in Nat, Standing(t, b, o), NEW below,
         NEW p, SkipWs(b, p) = o
  PROVE  Core(t) /\ ReadsTo(DecodeValue(b, below, p), t, b, o, TRUE, v, TRUE)
<1>1. v = Typed("string", v.value) /\ v.value \in Seq(Byte)
  BY DEF Typed
<1>2. t \in Seq(Byte) /\ Len(t) >= 2 /\ t[1] = Quote /\ Len(t) \in Nat
  BY <1>1, EncodeBinaryType, Bytes
<1>3. Core(t)
  <2>1. t # <<>>
    BY <1>2, EmptySeq
  <2>2. QED
    BY <1>2, <2>1 DEF Core, Quote, Blanks, CloseArray, CloseObject
<1>4. Len(b) \in Nat /\ Stands(t, b, o)
  BY Bytes DEF Standing
<1>5. CASE o >= Len(b)
  <2>1. DecodeValue(b, below, p) = NoJson /\ o + Len(t) > Len(b)
    BY <1>3, <1>4, <1>5, FirstByteOf, FirstByte
  <2>2. QED
    BY <1>2, <1>3, <1>4, <2>1 DEF ReadsTo, NoJson
<1>6. CASE o < Len(b)
  <2>1. At(b, o) = Quote
    BY <1>2, <1>3, <1>4, <1>6, FirstByteOf
  <2>2. DecodeValue(b, below, p) = DecStr(b, o + 1)
    BY <2>1, FirstByte
  <2>3. DecStr(b, o + 1) = IF o + Len(t) <= Len(b) THEN Json(Typed("string", v.value), o + Len(t))
                           ELSE NoJson
    BY <1>1, <1>4, StringRead
  <2>4. DecodeValue(b, below, p) = IF o + Len(t) <= Len(b) THEN Json(v, o + Len(t)) ELSE NoJson
    BY <1>1, <2>2, <2>3, Zenon
  <2>5. QED
    BY <1>2, <1>3, <1>4, <2>4 DEF ReadsTo, NoJson
<1>7. o < Len(b) \/ o >= Len(b)
  BY <1>4
<1>8. QED
  BY <1>5, <1>6, <1>7, Zenon

-----------------------------------------------------------------------------
(* Json: a value between blanks *)

Delimited == {"string", "array", "object"}

\* ReadsTo for a value x, which is not too deep if it is in F.
ReadsOf(r, t, b, o, x, F, m) ==
  /\ o + Len(t) <= Len(b) => r = IF x \in F THEN Json(m, o + Len(t)) ELSE NoJson
  /\ o + Len(t) > Len(b) => ~r.ok \/ (x.type \notin Delimited /\ r.pos \in Nat /\ r.pos >= Len(b))

\* d reads t, wherever it stands, as ReadsOf says; and nothing where b ends.
Reading(d, t, b, x, F, m) ==
  /\ \A p \in Nat : \A o \in Nat :
       Standing(t, b, o) /\ SkipWs(b, p) = o => ReadsOf(d[p], t, b, o, x, F, m)
  /\ \A p \in Nat : At(b, SkipWs(b, p)) = -1 => d[p] = NoJson

LEMMA Beyond ==
  ASSUME NEW b \in Seq(Byte), NEW p \in Nat, p >= Len(b)
  PROVE  SkipWs(b, p) = p /\ At(b, p) = -1
<1>1. At(b, p) = -1
  BY AtIs
<1>2. QED
  BY <1>1, BlankBytes, NothingSkipped

LEMMA BlankType ==
  ASSUME NEW s \in Seq(Blanks)
  PROVE  s \in Seq(Byte) /\ Len(s) \in Nat /\ \A i \in 1 .. Len(s) : s[i] \in Blanks
<1>1. s \in Seq(Byte)
  BY BlankBytes, SeqMonotonic
<1>2. QED
  BY <1>1, LenProperties, ElementOfSeq

\* Blanks, and a byte after them that is none: it is found, if b reaches as far.
LEMMA SkippedTo ==
  ASSUME NEW b \in Seq(Byte), NEW p \in Nat, NEW blank \in Seq(Blanks), NEW w \in Seq(Byte),
         Len(w) > 0, w[1] \notin Blanks, Stands(blank \o w, b, p)
  PROVE  LET o == p + Len(blank)
         IN  /\ o \in Nat /\ Stands(w, b, o)
             /\ o < Len(b) => SkipWs(b, p) = o /\ At(b, o) = w[1]
             /\ o >= Len(b) => SkipWs(b, p) \in Nat /\ SkipWs(b, p) >= Len(b) /\ At(b, SkipWs(b, p)) = -1
<1> DEFINE o == p + Len(blank)
<1>1. blank \in Seq(Byte) /\ Len(blank) \in Nat /\ Len(b) \in Nat
  BY BlankType, Bytes
<1>2. Stands(blank, b, p) /\ Stands(w, b, o) /\ o \in Nat
  BY <1>1, StandsJoined
<1> HIDE DEF o
<1>3. At(b, o) = IF o < Len(b) THEN w[1] ELSE -1
  <2>1. At(b, o + 0) = IF o + 0 < Len(b) THEN w[0 + 1] ELSE -1
    BY <1>2, StandsAt
  <2>2. QED
    BY <1>2, <2>1
<1>4. At(b, o) \notin Blanks
  BY <1>3, BlankBytes
<1>5. /\ o <= Len(b) => SkipWs(b, p) = o
      /\ o > Len(b) => SkipWs(b, p) \in Nat /\ SkipWs(b, p) >= Len(b)
  BY <1>2, <1>4, BlankSkipped DEF o
<1>6. CASE o < Len(b)
  BY <1>1, <1>2, <1>3, <1>5, <1>6 DEF o
<1>7. CASE o >= Len(b)
  <2>1. SkipWs(b, p) \in Nat /\ SkipWs(b, p) >= Len(b)
    BY <1>1, <1>2, <1>5, <1>7
  <2>2. At(b, SkipWs(b, p)) = -1
    BY <2>1, AtIs
  <2>3. QED
    BY <1>1, <1>2, <1>7, <2>1, <2>2 DEF o
<1>8. QED
  BY <1>1, <1>2, <1>6, <1>7 DEF o

Separators == {Comma, CloseArray, CloseObject}

LEMMA SeparatorBytes ==
  \A c \in Separators : c \in Byte /\ c \notin Blanks /\ c \in Ends /\ c # -1
BY DEF Separators, Comma, CloseArray, CloseObject, Byte, Blanks, Ends

\* A value, and blanks and a separator behind it: the value is read and the separator found,
\* unless the value is too deep or the bytes end before.
Found(d, b, p, sep, end, m) ==
  d[p].ok /\ d[p].value = m /\ SkipWs(b, d[p].pos) + 1 = end /\ At(b, SkipWs(b, d[p].pos)) = sep

NotFound(d, b, p) == ~d[p].ok \/ At(b, SkipWs(b, d[p].pos)) = -1

LEMMA ValueFound ==
  ASSUME NEW b \in Seq(Byte), NEW t, Core(t), NEW blank \in Seq(Blanks), NEW sep \in Separators,
         NEW d, NEW x, NEW F, NEW m, Reading(d, t, b, x, F, m),
         NEW p \in Nat, NEW o \in Nat, Stands(t \o (blank \o <<sep>>), b, o),
         o < Len(b) => SkipWs(b, p) = o, o >= Len(b) => At(b, SkipWs(b, p)) = -1
  PROVE  LET end == o + Len(t) + Len(blank) + 1
         IN  /\ end <= Len(b) /\ x \in F => Found(d, b, p, sep, end, m)
             /\ ~(end <= Len(b) /\ x \in F) => NotFound(d, b, p)
<1> DEFINE y   == blank \o <<sep>>
           e   == o + Len(t)
           z   == e + Len(blank)
           s   == <<sep>>
<1>1. /\ t \in Seq(Byte) /\ Len(t) \in Nat /\ Len(t) > 0 /\ t[1] \notin Blanks /\ t[1] # -1
      /\ Len(b) \in Nat /\ Len(blank) \in Nat /\ blank \in Seq(Byte)
      /\ s \in Seq(Byte) /\ Len(s) = 1 /\ s[1] = sep
  BY CoreIs, BlankType, Bytes, SeparatorBytes, OneByte DEF Core
<1>2. y \in Seq(Byte) /\ Len(y) = Len(blank) + 1
  <2> HIDE DEF s
  <2>1. blank \o s \in Seq(Byte) /\ Len(blank \o s) = Len(blank) + Len(s)
    BY <1>1, Joined
  <2>2. QED
    BY <1>1, <2>1 DEF s
<1> HIDE DEF y
<1>3. Stands(t, b, o) /\ Stands(y, b, e) /\ e \in Nat
  <2>1. Stands(t \o y, b, o)
    BY DEF y
  <2>2. QED
    BY <1>1, <1>2, <2>1, StandsJoined
<1> HIDE DEF e
<1>4. /\ z \in Nat /\ z + 1 = o + Len(t) + Len(blank) + 1
      /\ z < Len(b) => SkipWs(b, e) = z /\ At(b, z) = sep
      /\ z >= Len(b) => At(b, SkipWs(b, e)) = -1
  <2>1. s[1] \notin Blanks /\ Len(s) > 0
    BY <1>1, SeparatorBytes
  <2>2. Stands(blank \o s, b, e)
    BY <1>3 DEF y
  <2>3. s \in Seq(Byte) /\ e \in Nat
    BY <1>1, <1>3
  <2> HIDE DEF s, z
  <2>4. LET q == e + Len(blank)
        IN  /\ q \in Nat /\ Stands(s, b, q)
            /\ q < Len(b) => SkipWs(b, e) = q /\ At(b, q) = s[1]
            /\ q >= Len(b) => SkipWs(b, e) \in Nat /\ SkipWs(b, e) >= Len(b) /\ At(b, SkipWs(b, e)) = -1
    BY <2>1, <2>2, <2>3, SkippedTo
  <2>5. /\ z \in Nat
        /\ z < Len(b) => SkipWs(b, e) = z /\ At(b, z) = s[1]
        /\ z >= Len(b) => At(b, SkipWs(b, e)) = -1
    BY <2>4 DEF z
  <2>6. QED
    BY <1>1, <2>5 DEF z, e
<1> HIDE DEF z
<1>5. At(b, e) \in Ends
  <2>1. At(b, e + 0) = IF e + 0 < Len(b) THEN y[0 + 1] ELSE -1
    <3>1. 0 \in Nat /\ 0 < Len(y)
      BY <1>1, <1>2
    <3>2. QED
      BY <1>2, <1>3, <3>1, StandsAt
  <2>2. y[1] \in Ends
    <3>1. CASE Len(blank) = 0
      <4>1. y[0 + 1] = s[1]
        <5>1. 1 \in 1 .. Len(s)
          BY <1>1
        <5> HIDE DEF s
        <5>2. (blank \o s)[Len(blank) + 1] = s[1]
          BY <1>1, <5>1, Joined
        <5>3. QED
          BY <3>1, <5>2 DEF y, s
      <4>2. QED
        BY <1>1, <4>1, SeparatorBytes
    <3>2. CASE Len(blank) # 0
      <4>1. 1 \in 1 .. Len(blank)
        BY <1>1, <3>2
      <4>2. y[1] = blank[1]
        <5> HIDE DEF s
        <5>1. (blank \o s)[1] = blank[1]
          BY <1>1, <4>1, Joined
        <5>2. QED
          BY <5>1 DEF y, s
      <4>3. blank[1] \in Blanks
        BY <4>1, BlankType
      <4>4. QED
        BY <4>2, <4>3 DEF Ends
    <3>3. QED
      BY <3>1, <3>2
  <2>3. -1 \in Ends
    BY DEF Ends
  <2>4. QED
    BY <1>3, <2>1, <2>2, <2>3
<1>6. CASE o < Len(b)
  <2>1. Standing(t, b, o)
    BY <1>3, <1>5 DEF Standing, e
  <2>2. ReadsOf(d[p], t, b, o, x, F, m)
    BY <1>6, <2>1 DEF Reading
  <2>3. CASE e <= Len(b)
    <3>1. d[p] = IF x \in F THEN Json(m, e) ELSE NoJson
      BY <2>2, <2>3 DEF ReadsOf, e
    <3>2. CASE x \in F
      <4>1. d[p].ok /\ d[p].value = m /\ d[p].pos = e
        BY <3>1, <3>2 DEF Json
      <4>2. QED
        BY <1>1, <1>4, <3>2, <4>1 DEF Found, NotFound
    <3>3. CASE x \notin F
      BY <3>1, <3>3 DEF NoJson, NotFound
    <3>4. QED
      BY <3>2, <3>3
  <2>4. CASE e > Len(b)
    <3>1. z + 1 > Len(b)
      BY <1>1, <1>3, <2>4 DEF z
    <3>2. ~d[p].ok \/ (d[p].pos \in Nat /\ d[p].pos >= Len(b))
      BY <2>2, <2>4 DEF ReadsOf, e
    <3>3. NotFound(d, b, p)
      BY <3>2, Beyond DEF NotFound
    <3>4. QED
      BY <1>1, <1>4, <3>1, <3>3
  <2>5. QED
    BY <1>1, <1>3, <2>3, <2>4
<1>7. CASE o >= Len(b)
  <2>1. d[p] = NoJson
    BY <1>7 DEF Reading
  <2>2. NotFound(d, b, p)
    BY <2>1 DEF NotFound, NoJson
  <2>3. z + 1 > Len(b)
    BY <1>1, <1>7 DEF z, e
  <2>4. QED
    BY <1>1, <1>4, <2>2, <2>3
<1>8. QED
  BY <1>1, <1>6, <1>7

-----------------------------------------------------------------------------
(* Json: arrays and objects *)

Separator(n, close, i) == IF i = n THEN close ELSE Comma

EntryPieces(texts, close) ==
  [i \in DOMAIN texts |-> texts[i] \o <<Separator(Len(texts), close, i)>>]

LEMMA EntryPiecesAre ==
  ASSUME NEW texts \in Seq(Seq(Byte)), NEW close \in Byte
  PROVE  LET ps == EntryPieces(texts, close)
         IN  /\ ps \in Seq(Seq(Byte)) /\ Len(ps) = Len(texts) /\ Len(texts) \in Nat
             /\ \A i \in 1 .. Len(texts) :
                  /\ texts[i] \in Seq(Byte) /\ Len(texts[i]) \in Nat
                  /\ ps[i] = texts[i] \o <<Separator(Len(texts), close, i)>>
                  /\ ps[i] \in Seq(Byte) /\ Len(ps[i]) = Len(texts[i]) + 1 /\ Len(ps[i]) > 0
             /\ FlattenSeq(ps) \in Seq(Byte)
<1> DEFINE B  == Seq(Byte)
           n  == Len(texts)
           ps == EntryPieces(texts, close)
<1>1. n \in Nat /\ DOMAIN texts = 1 .. n
  BY LenProperties
<1>2. \A i \in 1 .. n : texts[i] \in B
  <2> HIDE DEF B
  <2>1. texts \in Seq(B)
    BY DEF B
  <2>2. QED
    BY <2>1, ElementOfSeq
<1>3. ASSUME NEW i \in 1 .. n
      PROVE  LET c == Separator(n, close, i)
             IN  /\ texts[i] \o <<c>> \in Seq(Byte) /\ Len(texts[i]) \in Nat
                 /\ Len(texts[i] \o <<c>>) = Len(texts[i]) + 1
  <2> DEFINE c == Separator(n, close, i)
             s == <<c>>
             u == texts[i]
  <2>1. c \in Byte
    BY DEF Separator, Comma, Byte
  <2> HIDE DEF c
  <2>2. s \in Seq(Byte) /\ Len(s) = 1
    BY <2>1, OneByte
  <2>3. u \in Seq(Byte)
    BY <1>2
  <2> HIDE DEF s, u
  <2>4. u \o s \in Seq(Byte) /\ Len(u \o s) = Len(u) + Len(s) /\ Len(u) \in Nat
    BY <2>2, <2>3, Joined, Bytes
  <2>5. QED
    BY <2>2, <2>4 DEF s, u, c
<1>4. ps = [i \in 1 .. n |-> texts[i] \o <<Separator(n, close, i)>>]
  BY <1>1 DEF EntryPieces
<1> HIDE DEF ps
<1>5. ps \in Seq(B) /\ Len(ps) = n
  <2>1. \A i \in 1 .. n : texts[i] \o <<Separator(n, close, i)>> \in B
    BY <1>3
  <2> HIDE DEF B, n
  <2>2. QED
    BY <1>1, <1>4, <2>1
<1>6. FlattenSeq(ps) \in Seq(Byte)
  <2>1. ps \in Seq(Seq(Byte)) /\ <<>> \in Seq(Byte)
    BY <1>5, EmptySeq
  <2>2. QED
    BY <2>1, FlattenAppend
<1>7. ASSUME NEW i \in 1 .. n
      PROVE  /\ texts[i] \in Seq(Byte) /\ Len(texts[i]) \in Nat
             /\ ps[i] = texts[i] \o <<Separator(n, close, i)>>
             /\ ps[i] \in Seq(Byte) /\ Len(ps[i]) = Len(texts[i]) + 1 /\ Len(ps[i]) > 0
  <2>1. ps[i] = texts[i] \o <<Separator(n, close, i)>>
    BY <1>4
  <2>2. /\ texts[i] \o <<Separator(n, close, i)>> \in Seq(Byte) /\ Len(texts[i]) \in Nat
        /\ Len(texts[i] \o <<Separator(n, close, i)>>) = Len(texts[i]) + 1
    BY <1>3
  <2>3. texts[i] \in Seq(Byte)
    BY <1>2
  <2>4. QED
    BY <2>1, <2>2, <2>3
<1>8. QED
  BY <1>1, <1>5, <1>6, <1>7 DEF ps

\* A text between brackets, and what stands behind the first of them.
Inside(texts, close, blank) ==
  IF texts = <<>> THEN blank \o <<close>> ELSE FlattenSeq(EntryPieces(texts, close))

LEMMA EnclosedIs ==
  ASSUME NEW open \in Byte, NEW close \in Byte, NEW texts \in Seq(Seq(Byte)), NEW blank \in Seq(Byte)
  PROVE  LET t == Enclosed(open, texts, close, blank)
             w == Inside(texts, close, blank)
         IN  /\ t \in Seq(Byte) /\ t # <<>> /\ t[1] = open /\ w \in Seq(Byte)
             /\ Len(w) \in Nat /\ Len(t) = Len(w) + 1
             /\ \A b \in Seq(Byte) : \A o \in Nat : Stands(t, b, o) => Stands(w, b, o + 1)
<1> DEFINE t == Enclosed(open, texts, close, blank)
           w == Inside(texts, close, blank)
           s == <<open>>
<1>1. t = s \o w
  BY DEF Enclosed, Inside, EntryPieces, Separator
<1>2. w \in Seq(Byte)
  <2>1. FlattenSeq(EntryPieces(texts, close)) \in Seq(Byte)
    BY EntryPiecesAre
  <2> DEFINE c == <<close>>
  <2>2. c \in Seq(Byte)
    BY OneByte
  <2> HIDE DEF c
  <2>3. blank \o c \in Seq(Byte)
    BY <2>2, Joined
  <2>4. QED
    BY <2>1, <2>3 DEF Inside, c
<1>3. s \in Seq(Byte) /\ Len(s) = 1 /\ s[1] = open
  BY OneByte
<1> HIDE DEF t, w, s
<1>4. /\ s \o w \in Seq(Byte) /\ Len(s \o w) = Len(s) + Len(w) /\ Len(w) \in Nat /\ (s \o w)[1] = s[1]
  <2>1. 1 \in 1 .. Len(s)
    BY <1>3
  <2>2. QED
    BY <1>2, <1>3, <2>1, Joined, Bytes
<1>5. t # <<>>
  BY <1>1, <1>3, <1>4, EmptySeq
<1>6. ASSUME NEW b \in Seq(Byte), NEW o \in Nat, Stands(t, b, o) PROVE Stands(w, b, o + 1)
  <2>1. Stands(s \o w, b, o)
    BY <1>1, <1>6
  <2>2. Stands(w, b, o + Len(s))
    BY <1>2, <1>3, <2>1, StandsJoined
  <2>3. QED
    BY <1>3, <2>2
<1>7. QED
  BY <1>1, <1>2, <1>3, <1>4, <1>5, <1>6 DEF t, w

\* Entry number k + 1 of a text stands behind the k before it: blanks, the rest of it and a
\* separator.
EntryAt(texts, k, blank, rest) ==
  /\ k < Len(texts) /\ texts[k + 1] = blank \o rest
  /\ rest \in Seq(Byte) /\ Len(rest) > 0 /\ rest[1] \notin Blanks

LEMMA EntryStarts ==
  ASSUME NEW texts \in Seq(Seq(Byte)), NEW close \in Byte, NEW blank \in Seq(Blanks),
         NEW k \in Nat, NEW rest, EntryAt(texts, k, blank, rest),
         NEW b \in Seq(Byte), NEW p \in Nat, Stands(FlattenSeq(EntryPieces(texts, close)), b, p)
  PROVE  LET ps    == EntryPieces(texts, close)
             a     == p + Reach(ps, k)
             start == a + Len(blank)
             w     == rest \o <<Separator(Len(texts), close, k + 1)>>
         IN  /\ a \in Nat /\ start \in Nat /\ w \in Seq(Byte) /\ Len(w) = Len(rest) + 1
             /\ p + Reach(ps, k + 1) = start + Len(w)
             /\ Stands(w, b, start)
             /\ start < Len(b) => /\ SkipWs(b, a) = start /\ SkipWs(b, start) = start
                                  /\ At(b, start) = rest[1]
             /\ start >= Len(b) => At(b, SkipWs(b, a)) = -1
<1> DEFINE n     == Len(texts)
           ps    == EntryPieces(texts, close)
           a     == p + Reach(ps, k)
           start == a + Len(blank)
           c     == Separator(n, close, k + 1)
           s     == <<c>>
           w     == rest \o s
<1>0. k < Len(texts) /\ texts[k + 1] = blank \o rest /\ rest \in Seq(Byte) /\ Len(rest) > 0
      /\ rest[1] \notin Blanks
  BY DEF EntryAt
<1>1. /\ ps \in Seq(Seq(Byte)) /\ Len(ps) = n /\ k + 1 \in 1 .. n
      /\ ps[k + 1] = texts[k + 1] \o s /\ n \in Nat
  <2>1. n \in Nat /\ k + 1 \in 1 .. n
    BY <1>0, LenProperties
  <2>2. QED
    BY <2>1, EntryPiecesAre
<1>2. /\ Reach(ps, k) \in Nat /\ Reach(ps, k + 1) = Reach(ps, k) + Len(ps[k + 1])
      /\ Stands(ps[k + 1], b, a) /\ a \in Nat
  <2> HIDE DEF ps, n
  <2>1. k < Len(ps)
    BY <1>0, <1>1 DEF n
  <2>2. Stands(FlattenSeq(ps), b, p)
    BY DEF ps
  <2>3. /\ Reach(ps, k) \in Nat /\ Reach(ps, k + 1) = Reach(ps, k) + Len(ps[k + 1])
        /\ Stands(ps[k + 1], b, p + Reach(ps, k))
    BY <1>1, <2>1, <2>2, PieceStands
  <2>4. QED
    BY <2>3
<1>3. c \in Byte
  BY DEF Separator, Comma, Byte
<1> HIDE DEF c
<1>4. s \in Seq(Byte) /\ Len(s) = 1
  BY <1>3, OneByte
<1>5. blank \in Seq(Byte) /\ Len(blank) \in Nat /\ Len(b) \in Nat /\ Len(rest) \in Nat
  BY <1>0, BlankType, Bytes
<1> HIDE DEF s, a
<1>6. w \in Seq(Byte) /\ Len(w) = Len(rest) + 1 /\ w[1] = rest[1]
  <2>1. 1 \in 1 .. Len(rest) /\ rest \in Seq(Byte)
    BY <1>0, <1>5
  <2>2. /\ rest \o s \in Seq(Byte) /\ Len(rest \o s) = Len(rest) + Len(s)
        /\ (rest \o s)[1] = rest[1]
    BY <1>4, <2>1, Joined
  <2>3. QED
    BY <1>4, <2>2
<1>7. ps[k + 1] = blank \o w /\ Len(blank \o w) = Len(blank) + Len(w)
  <2>1. (blank \o rest) \o s = blank \o (rest \o s)
    BY <1>0, <1>4, <1>5, ThreeJoined
  <2>2. ps[k + 1] = blank \o w
    BY <1>0, <1>1, <2>1
  <2> HIDE DEF w
  <2>3. QED
    BY <1>5, <1>6, <2>2, Joined
<1> HIDE DEF w, ps
<1>8. Stands(blank \o w, b, a)
  BY <1>2, <1>7
<1>9. /\ start \in Nat /\ Stands(w, b, start)
      /\ start < Len(b) => SkipWs(b, a) = start /\ At(b, start) = w[1]
      /\ start >= Len(b) => At(b, SkipWs(b, a)) = -1
  <2>1. Len(w) > 0 /\ w[1] \notin Blanks /\ a \in Nat
    BY <1>0, <1>2, <1>5, <1>6
  <2>2. QED
    BY <1>6, <1>8, <2>1, SkippedTo
<1>10. p + Reach(ps, k + 1) = start + Len(w)
  <2>1. Len(ps[k + 1]) = Len(blank) + Len(w)
    BY <1>7
  <2>2. Len(blank) \in Nat /\ Len(w) \in Nat
    BY <1>5, <1>6
  <2>3. QED
    BY <1>2, <2>1, <2>2 DEF a
<1>11. start < Len(b) => SkipWs(b, start) = start
  BY <1>0, <1>6, <1>9, NothingSkipped
<1>12. QED
  BY <1>2, <1>6, <1>9, <1>10, <1>11 DEF w, s, c, a, ps

\* What the loop does with each entry, wherever its text begins: a call takes the entry and
\* the separator, if all of them is there and the entry is in fits; otherwise it is an error.
EntryReads(type, close, b, below, acc, rest, n, fits) ==
  \A k \in 0 .. n - 1 : \A p \in Nat :
    LET w == rest[k + 1] \o <<Separator(n, close, k + 1)>>
        o == SkipWs(b, p)
        e == o + Len(w)
        r == NextEntry(type, b, below, Open(acc[k], p))
    IN  /\ o \in Nat /\ o < Len(b) /\ Stands(w, b, o) =>
             r = IF e <= Len(b) /\ k + 1 \in fits
                 THEN IF k + 1 < n THEN Open(acc[k + 1], e) ELSE Json(Typed(type, acc[n]), e)
                 ELSE NoJson
        /\ At(b, o) = -1 => r = NoJson

\* The texts of the entries: blanks, and something else behind them.
EntryTexts(texts, rest, close, blank) ==
  /\ texts \in Seq(Seq(Byte))
  /\ \A i \in 1 .. Len(texts) :
       /\ rest[i] \in Seq(Byte) /\ Len(rest[i]) > 0 /\ texts[i] = blank \o rest[i]
       /\ rest[i][1] \notin Blanks /\ rest[i][1] # close /\ rest[i][1] # -1

\* A text between brackets, and what the loop does with each of its entries.
Entries(type, open, close, blank, texts, rest, b, below, acc, fits) ==
  /\ close \in {CloseArray, CloseObject} /\ open \in Byte /\ EntryTexts(texts, rest, close, blank)
  /\ acc[0] = <<>> /\ fits \in SUBSET (1 .. Len(texts))
  /\ EntryReads(type, close, b, below, acc, rest, Len(texts), fits)

\* What the loop makes of it, whole or cut short.
LEMMA EntriesRead ==
  ASSUME NEW type, NEW open, NEW close, NEW blank \in Seq(Blanks), NEW texts, NEW rest,
         NEW b \in Seq(Byte), NEW below, NEW acc, NEW fits,
         Entries(type, open, close, blank, texts, rest, b, below, acc, fits),
         NEW o \in Nat, Stands(Enclosed(open, texts, close, blank), b, o)
  PROVE  LET e == o + Len(Enclosed(open, texts, close, blank))
         IN  DecodeEntries(type, close, b, below, o + 1) =
               IF e <= Len(b) /\ fits = 1 .. Len(texts) THEN Json(Typed(type, acc[Len(texts)]), e)
               ELSE NoJson
<1> DEFINE n  == Len(texts)
           t  == Enclosed(open, texts, close, blank)
           p  == o + 1
           e  == o + Len(t)
           x  == Inside(texts, close, blank)
           q  == SkipWs(b, p)
           r  == DecodeEntries(type, close, b, below, p)
<1>0. /\ close \in {CloseArray, CloseObject} /\ open \in Byte
      /\ EntryTexts(texts, rest, close, blank) /\ acc[0] = <<>> /\ fits \in SUBSET (1 .. Len(texts))
      /\ EntryReads(type, close, b, below, acc, rest, Len(texts), fits)
  BY DEF Entries
<1> USE <1>0
<1>1. /\ close \in Byte /\ close \notin Blanks /\ close # -1 /\ texts \in Seq(Seq(Byte))
      /\ n \in Nat /\ p \in Nat /\ Len(b) \in Nat /\ blank \in Seq(Byte) /\ Len(blank) \in Nat
      /\ \A i \in 1 .. n : /\ rest[i] \in Seq(Byte) /\ Len(rest[i]) > 0 /\ texts[i] = blank \o rest[i]
                           /\ rest[i][1] \notin Blanks /\ rest[i][1] # close /\ rest[i][1] # -1
  <2>1. close \in Separators
    BY DEF Separators
  <2>2. texts \in Seq(Seq(Byte))
    BY DEF EntryTexts
  <2>3. n \in Nat
    BY <2>2, LenProperties
  <2>4. QED
    BY <2>1, <2>2, <2>3, SeparatorBytes, Bytes, BlankType DEF EntryTexts
<1>2. /\ x \in Seq(Byte) /\ Len(x) \in Nat /\ Len(t) = Len(x) + 1 /\ Stands(x, b, p)
      /\ e = p + Len(x) /\ e \in Nat
  <2>1. /\ x \in Seq(Byte) /\ Len(x) \in Nat /\ Len(t) = Len(x) + 1 /\ Stands(x, b, p)
    BY <1>1, EnclosedIs
  <2>2. QED
    BY <2>1
<1> HIDE DEF t, e
<1>3. r = CASE At(b, q) = close -> Json(Typed(type, <<>>), q + 1)
            [] At(b, q) = -1    -> NoJson
            [] OTHER            -> EntryLoop(type, b, below, q)
  BY DEF DecodeEntries, EntryLoop
<1> HIDE DEF r, p
<1>4. CASE n = 0
  <2> DEFINE s == <<close>>
  <2>1. s \in Seq(Byte) /\ Len(s) = 1 /\ s[1] = close
    BY <1>1, OneByte
  <2>2. texts = <<>>
    BY <1>1, <1>4, EmptySeq
  <2>3. x = blank \o s
    BY <2>2 DEF Inside
  <2> HIDE DEF x, s
  <2>4. Stands(blank \o s, b, p) /\ Len(x) = Len(blank) + 1
    <3>1. Len(blank \o s) = Len(blank) + Len(s)
      BY <1>1, <2>1, Joined
    <3>2. QED
      BY <1>2, <2>1, <2>3, <3>1
  <2> DEFINE start == p + Len(blank)
  <2>5. /\ start \in Nat
        /\ start < Len(b) => q = start /\ At(b, start) = s[1]
        /\ start >= Len(b) => At(b, q) = -1
    <3>1. Len(s) > 0 /\ s[1] \notin Blanks
      BY <1>1, <2>1
    <3>2. QED
      BY <1>1, <2>1, <2>4, <3>1, SkippedTo
  <2>6. e = start + 1 /\ fits = 1 .. n /\ acc[n] = <<>>
    BY <1>1, <1>2, <1>4, <2>4
  <2> HIDE DEF start, q
  <2>7. CASE start < Len(b)
    <3>1. r = Json(Typed(type, <<>>), start + 1)
      BY <1>1, <1>3, <2>1, <2>5, <2>7
    <3>2. QED
      BY <1>1, <2>5, <2>6, <2>7, <3>1 DEF r, p, t, e
  <2>8. CASE start >= Len(b)
    <3>1. r = NoJson
      BY <1>1, <1>3, <2>5, <2>8
    <3>2. QED
      BY <1>1, <2>5, <2>6, <2>8, <3>1 DEF r, p, t, e
  <2>9. QED
    BY <1>1, <2>5, <2>7, <2>8
<1>5. CASE n # 0
  <2> DEFINE ps   == EntryPieces(texts, close)
             at   == [k \in 0 .. n |-> IF k = 0 THEN q ELSE p + Reach(ps, k)]
             good == Fitting(ps, p, Len(b)) \cap fits
             last == Json(Typed(type, acc[n]), at[n])
             start(k) == p + Reach(ps, k) + Len(blank)
  <2>1. /\ ps \in Seq(Seq(Byte)) /\ Len(ps) = n /\ n \in Nat \ {0}
        /\ \A i \in 1 .. n : Len(ps[i]) > 0
    BY <1>1, <1>5, EntryPiecesAre
  <2>2. x = FlattenSeq(ps)
    <3>1. texts # <<>>
      BY <1>1, <1>5, EmptySeq
    <3>2. QED
      BY <3>1 DEF Inside
  <2> HIDE DEF x, q
  <2>3. /\ Reach(ps, 0) = 0 /\ Reach(ps, n) = Len(x)
        /\ \A k \in 0 .. n : Reach(ps, k) \in Nat
    BY <2>1, <2>2, ReachIs
  <2>4. /\ Fitting(ps, p, Len(b)) = 1 .. n <=> e <= Len(b)
        /\ \A k \in Fitting(ps, p, Len(b)) : k <= Len(b)
    <3> HIDE DEF ps, n
    <3>1. Len(ps) > 0
      BY <2>1
    <3>2. QED
      BY <1>1, <1>2, <2>1, <2>2, <3>1, PiecesFit
  <2>5. /\ good = 1 .. n <=> e <= Len(b) /\ fits = 1 .. n
        /\ \A k \in good : k <= Len(b)
        /\ good \in SUBSET (1 .. n)
        /\ \A k \in 1 .. n : k \in good <=> p + Reach(ps, k) <= Len(b) /\ k \in fits
    <3>1. /\ Fitting(ps, p, Len(b)) \in SUBSET (1 .. n)
          /\ \A k \in 1 .. n : k \in Fitting(ps, p, Len(b)) <=> p + Reach(ps, k) <= Len(b)
      BY <2>1 DEF Fitting
    <3> DEFINE F == Fitting(ps, p, Len(b))
    <3> HIDE DEF F, n
    <3>2. good = F \cap fits
      BY DEF F
    <3>3. fits \in SUBSET (1 .. n)
      BY DEF n
    <3>4. good = 1 .. n <=> F = 1 .. n /\ fits = 1 .. n
      BY <3>1, <3>2, <3>3 DEF F
    <3>5. QED
      BY <2>4, <3>1, <3>2, <3>3, <3>4 DEF F
  <2> HIDE DEF good
  <2>6. ASSUME NEW k \in 0 .. n - 1
        PROVE  LET w == rest[k + 1] \o <<Separator(n, close, k + 1)>>
               IN  /\ k \in Nat /\ k + 1 \in 1 .. n /\ start(k) \in Nat /\ Len(w) \in Nat
                   /\ p + Reach(ps, k + 1) = start(k) + Len(w)
                   /\ start(k) < Len(b) =>
                        /\ SkipWs(b, p + Reach(ps, k)) = start(k) /\ SkipWs(b, start(k)) = start(k)
                        /\ At(b, start(k)) = rest[k + 1][1] /\ Stands(w, b, start(k))
                   /\ start(k) >= Len(b) => /\ At(b, SkipWs(b, p + Reach(ps, k))) = -1
                                            /\ k + 1 \notin good
    <3> DEFINE u == rest[k + 1]
               w == u \o <<Separator(n, close, k + 1)>>
    <3>1. k \in Nat /\ k < n /\ k + 1 \in 1 .. n
      BY <2>1
    <3>2. /\ u \in Seq(Byte) /\ Len(u) > 0 /\ texts[k + 1] = blank \o u /\ u[1] \notin Blanks
          /\ Len(u) \in Nat
      BY <1>1, <3>1, Bytes
    <3>3. Stands(FlattenSeq(ps), b, p)
      BY <1>2, <2>2
    <3> HIDE DEF u
    <3>4. /\ start(k) \in Nat /\ w \in Seq(Byte) /\ Len(w) = Len(u) + 1
          /\ p + Reach(ps, k + 1) = start(k) + Len(w)
          /\ Stands(w, b, start(k))
          /\ start(k) < Len(b) =>
               /\ SkipWs(b, p + Reach(ps, k)) = start(k) /\ SkipWs(b, start(k)) = start(k)
               /\ At(b, start(k)) = u[1]
          /\ start(k) >= Len(b) => At(b, SkipWs(b, p + Reach(ps, k))) = -1
      <4>1. /\ texts \in Seq(Seq(Byte)) /\ close \in Byte /\ p \in Nat
            /\ EntryAt(texts, k, blank, u)
            /\ Stands(FlattenSeq(EntryPieces(texts, close)), b, p)
        BY <1>1, <3>1, <3>2, <3>3 DEF EntryAt
      <4> HIDE DEF ps, n, start
      <4>2. LET os    == EntryPieces(texts, close)
                a     == p + Reach(os, k)
                begin == a + Len(blank)
                x0    == u \o <<Separator(Len(texts), close, k + 1)>>
            IN  /\ a \in Nat /\ begin \in Nat /\ x0 \in Seq(Byte) /\ Len(x0) = Len(u) + 1
                /\ p + Reach(os, k + 1) = begin + Len(x0)
                /\ Stands(x0, b, begin)
                /\ begin < Len(b) => /\ SkipWs(b, a) = begin /\ SkipWs(b, begin) = begin
                                     /\ At(b, begin) = u[1]
                /\ begin >= Len(b) => At(b, SkipWs(b, a)) = -1
        BY <3>1, <3>2, <4>1, EntryStarts
      <4>3. QED
        BY <4>2 DEF ps, n, start
    <3> HIDE DEF w
    <3>5. start(k) >= Len(b) => k + 1 \notin good
      BY <1>1, <2>5, <3>1, <3>2, <3>4
    <3>6. QED
      BY <3>1, <3>2, <3>4, <3>5 DEF w, u
  <2>7. start(0) = p + Len(blank) /\ 0 \in 0 .. n - 1 /\ p + Reach(ps, 0) = p
    BY <1>1, <2>1, <2>3
  <2>8. CASE start(0) >= Len(b)
    <3>1. At(b, SkipWs(b, p + Reach(ps, 0))) = -1 /\ 0 + 1 \notin good
      BY <2>6, <2>7, <2>8
    <3>2. At(b, q) = -1 /\ 1 \notin good
      BY <2>7, <3>1 DEF q
    <3>3. r = NoJson
      BY <1>1, <1>3, <3>2
    <3>4. 1 \in 1 .. n
      BY <2>1
    <3>5. good # 1 .. n
      BY <3>2, <3>4
    <3>6. QED
      BY <2>5, <3>3, <3>5 DEF r, p, t, e
  <2>9. CASE start(0) < Len(b)
    <3>1. q = start(0) /\ SkipWs(b, q) = q /\ At(b, q) = rest[0 + 1][1]
      BY <2>6, <2>7, <2>9 DEF q
    <3>2. At(b, q) # close /\ At(b, q) # -1
      BY <1>1, <2>1, <3>1
    <3>3. r = EntryLoop(type, b, below, q)
      BY <1>3, <3>2
    <3> HIDE DEF start
    <3>4. at[0] = q /\ at[n] = e /\ \A k \in 1 .. n : at[k] = p + Reach(ps, k)
      BY <1>2, <2>1, <2>3
    <3>5. \A k \in 0 .. n - 1 : k = 0 => at[k] = q
      BY <3>4
    <3> HIDE DEF at
    <3>6. ASSUME NEW k \in 0 .. n - 1, k = 0 \/ k \in good
          PROVE  NextEntry(type, b, below, Open(acc[k], at[k])) = Onward(n, acc, at, good, last, k + 1)
      <4> DEFINE w == rest[k + 1] \o <<Separator(n, close, k + 1)>>
                 y == NextEntry(type, b, below, Open(acc[k], at[k]))
      <4>1. /\ k \in Nat /\ k + 1 \in 1 .. n /\ start(k) \in Nat /\ Len(w) \in Nat
            /\ p + Reach(ps, k + 1) = start(k) + Len(w)
            /\ start(k) < Len(b) =>
                 /\ SkipWs(b, p + Reach(ps, k)) = start(k) /\ SkipWs(b, start(k)) = start(k)
                 /\ Stands(w, b, start(k))
            /\ start(k) >= Len(b) => /\ At(b, SkipWs(b, p + Reach(ps, k))) = -1
                                     /\ k + 1 \notin good
        BY <2>6
      <4>2. /\ at[k] \in Nat /\ at[k + 1] = start(k) + Len(w)
            /\ start(k) < Len(b) => SkipWs(b, at[k]) = start(k)
            /\ start(k) >= Len(b) => At(b, SkipWs(b, at[k])) = -1
        <5>1. at[k + 1] = start(k) + Len(w)
          BY <3>4, <4>1
        <5>2. CASE k = 0
          <6>1. at[k] = q /\ q = start(k)
            BY <3>1, <3>5, <5>2
          <6>2. start(k) < Len(b)
            BY <2>9, <5>2
          <6>3. QED
            BY <1>1, <4>1, <5>1, <6>1, <6>2
        <5>3. CASE k # 0
          <6>1. k \in 1 .. n /\ k \in 0 .. n
            BY <2>1, <5>3
          <6>2. at[k] = p + Reach(ps, k) /\ Reach(ps, k) \in Nat
            BY <2>3, <3>4, <6>1
          <6>3. QED
            BY <1>1, <4>1, <5>1, <6>2, SMTT(30)
        <5>4. QED
          BY <5>2, <5>3
      <4>3. at[k + 1] <= Len(b) /\ k + 1 \in fits <=> k + 1 \in good
        BY <2>5, <3>4, <4>1
      <4> HIDE DEF w
      <4>4. CASE start(k) < Len(b)
        <5>1. y = IF SkipWs(b, at[k]) + Len(w) <= Len(b) /\ k + 1 \in fits
                  THEN IF k + 1 < n THEN Open(acc[k + 1], SkipWs(b, at[k]) + Len(w))
                       ELSE Json(Typed(type, acc[n]), SkipWs(b, at[k]) + Len(w))
                  ELSE NoJson
          BY <4>1, <4>2, <4>4 DEF EntryReads, w
        <5> HIDE DEF y
        <5>2. y = IF k + 1 \in good
                  THEN IF k + 1 < n THEN Open(acc[k + 1], at[k + 1])
                       ELSE Json(Typed(type, acc[n]), at[k + 1])
                  ELSE NoJson
          BY <4>2, <4>3, <4>4, <5>1
        <5>3. k + 1 < n \/ k + 1 = n
          BY <2>1, <4>1
        <5>4. QED
          BY <5>2, <5>3, Zenon DEF Onward, y
      <4>5. CASE start(k) >= Len(b)
        <5>1. y = NoJson
          BY <4>2, <4>5 DEF EntryReads
        <5>2. QED
          BY <4>1, <4>5, <5>1 DEF Onward
      <4>6. QED
        BY <1>1, <4>1, <4>4, <4>5
    <3>7. last.open = FALSE
      BY DEF Json
    <3> HIDE DEF last
    <3>8. EntryLoop(type, b, below, at[0]) = IF good = 1 .. n THEN last ELSE NoJson
      <4>1. n \in Nat \ {0} /\ good \in SUBSET (1 .. n) /\ \A k \in good : k < n => k <= Len(b)
        BY <2>1, <2>5
      <4> HIDE DEF n, ps
      <4>2. EntrySteps(type, b, below, n, acc, at, good, last)
        BY <3>6, <3>7, <4>1 DEF EntrySteps
      <4>3. QED
        BY <4>1, <4>2, EntryCallsWalk
    <3>9. QED
      BY <2>5, <3>3, <3>4, <3>8 DEF last, r, p, t, e
  <2>10. start(0) \in Nat
    BY <2>6, <2>7
  <2>11. QED
    BY <1>1, <2>8, <2>9, <2>10
<1>6. QED
  BY <1>4, <1>5

\* What an entry's call comes to: e is where its separator ends, its value x is not too deep if
\* it is in F, and more is what is collected with it.
Entered(r, type, b, close, sep, e, x, F, more) ==
  /\ e <= Len(b) /\ x \in F /\ sep = Comma => r = Open(more, e)
  /\ e <= Len(b) /\ x \in F /\ sep = close => r = Json(Typed(type, more), e)
  /\ ~(e <= Len(b) /\ x \in F) => r = NoJson

LEMMA BehindValue ==
  ASSUME NEW t, Core(t), NEW blank \in Seq(Blanks), NEW sep \in Separators
  PROVE  /\ (t \o blank) \o <<sep>> = t \o (blank \o <<sep>>)
         /\ Len((t \o blank) \o <<sep>>) = Len(t) + Len(blank) + 1
         /\ Len(t) \in Nat /\ Len(blank) \in Nat /\ Len(t) > 0
         /\ t \o blank \in Seq(Byte) /\ Len(t \o blank) > 0 /\ (t \o blank)[1] = t[1]
         /\ (t \o blank) \o <<sep>> \in Seq(Byte)
<1> DEFINE s == <<sep>>
<1>1. s \in Seq(Byte) /\ Len(s) = 1
  BY OneByte, SeparatorBytes
<1>2. /\ t \in Seq(Byte) /\ Len(t) \in Nat /\ Len(t) > 0
      /\ blank \in Seq(Byte) /\ Len(blank) \in Nat
  BY CoreIs, BlankType
<1> HIDE DEF s
<1>3. /\ t \o blank \in Seq(Byte) /\ Len(t \o blank) = Len(t) + Len(blank)
      /\ (t \o blank)[1] = t[1]
  <2>1. 1 \in 1 .. Len(t)
    BY <1>2
  <2>2. QED
    BY <1>2, <2>1, Joined
<1>4. (t \o blank) \o s = t \o (blank \o s)
  BY <1>1, <1>2, ThreeJoined
<1> DEFINE w == t \o blank
<1>5. w \in Seq(Byte) /\ Len(w) = Len(t) + Len(blank)
  BY <1>3
<1> HIDE DEF w
<1>6. w \o s \in Seq(Byte) /\ Len(w \o s) = Len(w) + Len(s)
  BY <1>1, <1>5, Joined
<1>7. QED
  BY <1>1, <1>2, <1>3, <1>4, <1>5, <1>6 DEF w, s

LEMMA ItemRead ==
  ASSUME NEW b \in Seq(Byte), NEW t, Core(t), NEW blank \in Seq(Blanks),
         NEW sep \in {Comma, CloseArray},
         NEW d, NEW x, NEW F, NEW m, Reading(d, t, b, x, F, m),
         NEW p \in Nat, NEW o \in Nat, SkipWs(b, p) = o, o < Len(b),
         Stands((t \o blank) \o <<sep>>, b, o), NEW items
  PROVE  Entered(NextEntry("array", b, d, Open(items, p)), "array", b, CloseArray, sep,
                 o + Len((t \o blank) \o <<sep>>), x, F, Append(items, m))
<1> DEFINE e == o + Len(t) + Len(blank) + 1
           v == d[p]
           q == SkipWs(b, v.pos)
           r == NextEntry("array", b, d, Open(items, p))
<1>1. sep \in Separators /\ Len(b) \in Nat
  BY Bytes DEF Separators
<1>2. /\ (t \o blank) \o <<sep>> = t \o (blank \o <<sep>>)
      /\ o + Len((t \o blank) \o <<sep>>) = e
      /\ e \in Nat
  BY <1>1, BehindValue
<1>3. /\ e <= Len(b) /\ x \in F => Found(d, b, p, sep, e, m)
      /\ ~(e <= Len(b) /\ x \in F) => NotFound(d, b, p)
  <2>1. Stands(t \o (blank \o <<sep>>), b, o)
    BY <1>2
  <2>2. o < Len(b) => SkipWs(b, p) = o
    OBVIOUS
  <2>3. o >= Len(b) => At(b, SkipWs(b, p)) = -1
    BY <1>1
  <2>4. QED
    BY <1>1, <2>1, <2>2, <2>3, ValueFound
<1>4. r = CASE v.ok /\ At(b, q) = Comma      -> Open(Append(items, v.value), q + 1)
            [] v.ok /\ At(b, q) = CloseArray -> Json(Typed("array", Append(items, v.value)), q + 1)
            [] OTHER                         -> NoJson
  BY DEF NextEntry, NextItem, Open
<1>5. Comma # CloseArray /\ Comma # -1 /\ CloseArray # -1
  BY DEF Comma, CloseArray
<1> HIDE DEF e, r
<1>6. CASE e <= Len(b) /\ x \in F
  <2>1. v.ok /\ v.value = m /\ q + 1 = e /\ At(b, q) = sep
    BY <1>3, <1>6 DEF Found
  <2>2. CASE sep = Comma
    <3>1. r = Open(Append(items, m), e)
      BY <1>4, <1>5, <2>1, <2>2
    <3>2. QED
      BY <1>2, <1>5, <1>6, <2>2, <3>1 DEF Entered, r
  <2>3. CASE sep = CloseArray
    <3>1. r = Json(Typed("array", Append(items, m)), e)
      BY <1>4, <1>5, <2>1, <2>3
    <3>2. QED
      BY <1>2, <1>5, <1>6, <2>3, <3>1 DEF Entered, r
  <2>4. QED
    BY <2>2, <2>3
<1>7. CASE ~(e <= Len(b) /\ x \in F)
  <2>1. ~v.ok \/ At(b, q) = -1
    BY <1>3, <1>7 DEF NotFound
  <2>2. r = NoJson
    BY <1>4, <1>5, <2>1
  <2>3. QED
    BY <1>2, <1>7, <2>2 DEF Entered, r
<1>8. QED
  BY <1>6, <1>7

\* The values among xs that are not too deep.
Shallow(xs, F) == {i \in DOMAIN xs : xs[i] \in F}

LEMMA ShallowAll ==
  ASSUME NEW S, NEW xs \in Seq(S), NEW F
  PROVE  /\ Shallow(xs, F) \in SUBSET (1 .. Len(xs))
         /\ Shallow(xs, F) = 1 .. Len(xs) <=> xs \in Seq(F)
         /\ \A i \in 1 .. Len(xs) : i \in Shallow(xs, F) <=> xs[i] \in F
<1> DEFINE n == Len(xs)
<1>1. n \in Nat /\ DOMAIN xs = 1 .. n /\ xs = [i \in 1 .. n |-> xs[i]]
  BY LenProperties
<1>2. Shallow(xs, F) = {i \in 1 .. n : xs[i] \in F}
  BY <1>1 DEF Shallow
<1>3. ASSUME \A i \in 1 .. n : xs[i] \in F PROVE xs \in Seq(F)
  <2> HIDE DEF n
  <2>1. [i \in 1 .. n |-> xs[i]] \in Seq(F)
    BY <1>1, <1>3
  <2>2. QED
    BY <1>1, <2>1
<1>4. ASSUME xs \in Seq(F) PROVE \A i \in 1 .. n : xs[i] \in F
  BY <1>4, ElementOfSeq
<1>5. QED
  BY <1>2, <1>3, <1>4

\* Each call enters its value.
EntriesEnter(type, close, b, d, acc, rest, xs, F) ==
  \A k \in 0 .. Len(xs) - 1 : \A p \in Nat :
    LET sep == Separator(Len(xs), close, k + 1)
        r   == NextEntry(type, b, d, Open(acc[k], p))
    IN  /\ \A o \in Nat : SkipWs(b, p) = o /\ o < Len(b) /\ Stands(rest[k + 1] \o <<sep>>, b, o) =>
             Entered(r, type, b, close, sep, o + Len(rest[k + 1] \o <<sep>>), xs[k + 1], F, acc[k + 1])
        /\ At(b, SkipWs(b, p)) = -1 => r = NoJson

LEMMA EntriesEntered ==
  ASSUME NEW type, NEW close, NEW S, NEW xs \in Seq(S), NEW F, NEW b \in Seq(Byte), NEW d,
         NEW acc, NEW rest, EntriesEnter(type, close, b, d, acc, rest, xs, F)
  PROVE  EntryReads(type, close, b, d, acc, rest, Len(xs), Shallow(xs, F))
<1> DEFINE n == Len(xs)
<1>1. n \in Nat /\ Len(b) \in Nat
  BY LenProperties
<1>2. ASSUME NEW k \in 0 .. n - 1, NEW p \in Nat
      PROVE  LET w == rest[k + 1] \o <<Separator(n, close, k + 1)>>
                 o == SkipWs(b, p)
                 e == o + Len(w)
                 r == NextEntry(type, b, d, Open(acc[k], p))
             IN  /\ o \in Nat /\ o < Len(b) /\ Stands(w, b, o) =>
                      r = IF e <= Len(b) /\ k + 1 \in Shallow(xs, F)
                          THEN IF k + 1 < n THEN Open(acc[k + 1], e) ELSE Json(Typed(type, acc[n]), e)
                          ELSE NoJson
                 /\ At(b, o) = -1 => r = NoJson
  <2> DEFINE sep == Separator(n, close, k + 1)
             w   == rest[k + 1] \o <<sep>>
             o   == SkipWs(b, p)
             e   == o + Len(w)
             r   == NextEntry(type, b, d, Open(acc[k], p))
             x   == xs[k + 1]
             more == acc[k + 1]
  <2>1. k \in Nat /\ k + 1 \in 1 .. n
    BY <1>1
  <2>2. (k + 1 < n => sep = Comma) /\ (k + 1 = n => sep = close)
    BY <1>1, <2>1 DEF Separator
  <2>3. k + 1 < n \/ k + 1 = n
    BY <1>1, <2>1
  <2>4. k + 1 \in Shallow(xs, F) <=> x \in F
    BY <2>1, ShallowAll
  <2>5. /\ o \in Nat /\ o < Len(b) /\ Stands(w, b, o) => Entered(r, type, b, close, sep, e, x, F, more)
        /\ At(b, o) = -1 => r = NoJson
    BY DEF EntriesEnter
  <2> HIDE DEF sep, w, o, e, r, x
  <2>6. ASSUME o \in Nat, o < Len(b), Stands(w, b, o)
        PROVE  r = IF e <= Len(b) /\ k + 1 \in Shallow(xs, F)
                   THEN IF k + 1 < n THEN Open(acc[k + 1], e) ELSE Json(Typed(type, acc[n]), e)
                   ELSE NoJson
    <3>1. /\ e <= Len(b) /\ x \in F /\ sep = Comma => r = Open(more, e)
          /\ e <= Len(b) /\ x \in F /\ sep = close => r = Json(Typed(type, more), e)
          /\ ~(e <= Len(b) /\ x \in F) => r = NoJson
      BY <2>5, <2>6 DEF Entered
    <3>2. k + 1 = n => acc[n] = more
      OBVIOUS
    <3> HIDE DEF n, more
    <3>3. CASE k + 1 = n
      <4>1. ~(k + 1 < n)
        BY <1>1, <3>3
      <4>2. QED
        BY <2>2, <2>4, <3>1, <3>2, <3>3, <4>1 DEF more
    <3>4. CASE k + 1 < n
      BY <2>2, <2>4, <3>1, <3>4 DEF more
    <3>5. QED
      BY <2>3, <3>3, <3>4
  <2>7. QED
    BY <2>5, <2>6 DEF sep, w, o, e, r
<1>3. QED
  BY <1>2 DEF EntryReads

\* What the calls collect are the values of the first items.
LEMMA ItemsRead ==
  ASSUME NEW S, NEW xs \in Seq(S), NEW F, NEW core, NEW M, NEW ms \in Seq(M), Len(ms) = Len(xs),
         NEW b \in Seq(Byte), NEW blank \in Seq(Blanks), NEW d,
         \A i \in 1 .. Len(xs) : Core(core[i]) /\ Reading(d, core[i], b, xs[i], F, ms[i]),
         NEW rest, \A i \in 1 .. Len(xs) : rest[i] = core[i] \o blank,
         NEW acc, \A k \in 0 .. Len(xs) : acc[k] = SubSeq(ms, 1, k)
  PROVE  EntryReads("array", CloseArray, b, d, acc, rest, Len(xs), Shallow(xs, F))
<1> DEFINE n == Len(xs)
<1>1. n \in Nat /\ Len(b) \in Nat
  BY LenProperties
<1>2. ASSUME NEW k \in 0 .. n - 1, NEW p \in Nat
      PROVE  LET sep == Separator(n, CloseArray, k + 1)
                 r   == NextEntry("array", b, d, Open(acc[k], p))
             IN  /\ \A o \in Nat :
                      SkipWs(b, p) = o /\ o < Len(b) /\ Stands(rest[k + 1] \o <<sep>>, b, o) =>
                        Entered(r, "array", b, CloseArray, sep, o + Len(rest[k + 1] \o <<sep>>),
                                xs[k + 1], F, acc[k + 1])
                 /\ At(b, SkipWs(b, p)) = -1 => r = NoJson
  <2> DEFINE sep == Separator(n, CloseArray, k + 1)
             r   == NextEntry("array", b, d, Open(acc[k], p))
             c   == core[k + 1]
             x   == xs[k + 1]
             m   == ms[k + 1]
             items == acc[k]
             more  == acc[k + 1]
             u   == rest[k + 1]
  <2>1. k \in Nat /\ k + 1 \in 1 .. n /\ k \in 0 .. n /\ k < Len(ms) /\ k + 1 \in 0 .. n
    BY <1>1
  <2>2. more = Append(items, m)
    BY <2>1, PrefixGrows
  <2>3. sep \in {Comma, CloseArray}
    BY DEF Separator
  <2>4. Core(c) /\ Reading(d, c, b, x, F, m) /\ u = c \o blank
    BY <2>1
  <2> HIDE DEF sep, c, x, m, items, more, u
  <2>5. ASSUME NEW o \in Nat, SkipWs(b, p) = o, o < Len(b), Stands(u \o <<sep>>, b, o)
        PROVE  Entered(r, "array", b, CloseArray, sep, o + Len(u \o <<sep>>), x, F, more)
    <3>1. Stands((c \o blank) \o <<sep>>, b, o)
      BY <2>4, <2>5
    <3>2. Entered(NextEntry("array", b, d, Open(items, p)), "array", b, CloseArray, sep,
                  o + Len((c \o blank) \o <<sep>>), x, F, Append(items, m))
      BY <2>3, <2>4, <2>5, <3>1, ItemRead
    <3>3. QED
      BY <2>2, <2>4, <3>2, Zenon DEF items
  <2>6. ASSUME At(b, SkipWs(b, p)) = -1 PROVE r = NoJson
    <3>1. d[p] = NoJson
      BY <2>4, <2>6 DEF Reading
    <3>2. ~d[p].ok
      BY <3>1 DEF NoJson
    <3>3. QED
      BY <3>2 DEF NextEntry, NextItem, Open
  <2>7. QED
    BY <2>5, <2>6 DEF sep, x, more, u
<1>3. EntriesEnter("array", CloseArray, b, d, acc, rest, xs, F)
  BY <1>2 DEF EntriesEnter
<1>4. QED
  BY <1>3, EntriesEntered

ColonText == <<58>>

Chain(a, c, d, e, f) == a \o (c \o (d \o (e \o f)))

\* A pair: a key, a colon and a value, with blanks around them but none in front.
PairText(key, core, blank) == Chain(key, blank, ColonText, blank, core \o blank)

ChainGrows(a, c, d, e, f, g) ==
  /\ Chain(a, c, d, e, f) \o g = Chain(a, c, d, e, f \o g)
  /\ ((((g \o a) \o c) \o d) \o e) \o f = g \o Chain(a, c, d, e, f)
  /\ Chain(a, c, d, e, f) \in Seq(Byte)

\* Five texts joined, whichever are joined first.
LEMMA ChainJoined ==
  ASSUME NEW a \in Seq(Byte), NEW c \in Seq(Byte), NEW d \in Seq(Byte), NEW e \in Seq(Byte),
         NEW f \in Seq(Byte), NEW g \in Seq(Byte)
  PROVE  ChainGrows(a, c, d, e, f, g)
<1> DEFINE Regroup(u, v, w) == (u \o v) \o w = u \o (v \o w)
           ef  == e \o f
           df  == d \o ef
           cf  == c \o df
           ga  == g \o a
           gc  == ga \o c
           gd  == gc \o d
<1>1. \A u, v, w \in Seq(Byte) : Regroup(u, v, w)
  BY ThreeJoined
<1>2. ef \in Seq(Byte) /\ df \in Seq(Byte) /\ cf \in Seq(Byte)
  BY Joined
<1>3. ga \in Seq(Byte) /\ gc \in Seq(Byte) /\ gd \in Seq(Byte)
  BY Joined
<1>4. Chain(a, c, d, e, f) = a \o cf /\ a \o cf \in Seq(Byte)
  <2>1. a \o cf \in Seq(Byte)
    <3> HIDE DEF cf
    <3>1. QED
      BY <1>2, Joined
  <2>2. QED
    BY <2>1 DEF Chain
<1> HIDE DEF Regroup, ef, df, cf, ga, gc, gd
<1>5. Regroup(a, cf, g) /\ Regroup(c, df, g) /\ Regroup(d, ef, g) /\ Regroup(e, f, g)
  BY <1>1, <1>2, Zenon
<1>6. (a \o cf) \o g = Chain(a, c, d, e, f \o g)
  BY <1>5 DEF Regroup, ef, df, cf, Chain
<1>7. Regroup(gd, e, f) /\ Regroup(gc, d, ef) /\ Regroup(ga, c, df) /\ Regroup(g, a, cf)
  BY <1>1, <1>2, <1>3, Zenon
<1>8. ((((g \o a) \o c) \o d) \o e) \o f = g \o (a \o cf)
  BY <1>7 DEF Regroup, ef, df, cf, ga, gc, gd
<1>9. QED
  BY <1>4, <1>6, <1>8 DEF ChainGrows

\* The value of a pair and what is behind it, and the colon before them.
FromValue(t, blank, sep) == t \o (blank \o <<sep>>)
FromColon(t, blank, sep) == ColonText \o (blank \o FromValue(t, blank, sep))

\* Where the parts of a pair are, and how long they are.
PairParts(key, t, blank, sep) ==
  LET text == PairText(key, t, blank)
      w    == FromValue(t, blank, sep)
      y    == FromColon(t, blank, sep)
  IN  /\ text \in Seq(Byte) /\ Len(text) > 0 /\ text[1] = key[1]
      /\ (((((blank \o key) \o blank) \o <<58>>) \o blank) \o t) \o blank = blank \o text
      /\ text \o <<sep>> = key \o (blank \o y)
      /\ Len(text \o <<sep>>) = Len(key) + Len(blank) + Len(y)
      /\ w \in Seq(Byte) /\ Len(w) = Len(t) + Len(blank) + 1 /\ Len(w) > 0 /\ w[1] = t[1]
      /\ y \in Seq(Byte) /\ Len(y) = 1 + Len(blank) + Len(w) /\ Len(y) > 0 /\ y[1] = 58
      /\ blank \o y \in Seq(Byte) /\ blank \o w \in Seq(Byte)

LEMMA PairTextIs ==
  ASSUME NEW key \in Seq(Byte), Len(key) > 0, NEW t, Core(t), NEW blank \in Seq(Blanks),
         NEW sep \in Separators
  PROVE  PairParts(key, t, blank, sep)
<1> DEFINE text == PairText(key, t, blank)
           s == <<sep>>
           w == FromValue(t, blank, sep)
           x == blank \o w
           y == FromColon(t, blank, sep)
           z == blank \o y
           tb == t \o blank
           mid == ColonText
<1>1. /\ s \in Seq(Byte) /\ Len(s) = 1 /\ t \in Seq(Byte) /\ Len(t) \in Nat /\ Len(t) > 0
      /\ blank \in Seq(Byte) /\ Len(blank) \in Nat /\ Len(key) \in Nat
      /\ mid \in Seq(Byte) /\ Len(mid) = 1 /\ mid[1] = 58
  <2>1. 58 \in Byte
    BY DEF Byte
  <2>2. mid \in Seq(Byte) /\ Len(mid) = 1 /\ mid[1] = 58
    BY <2>1, OneByte DEF ColonText
  <2>3. QED
    BY <2>2, CoreIs, BlankType, SeparatorBytes, OneByte, Bytes
<1>2. /\ w = tb \o s /\ w \in Seq(Byte) /\ Len(w) = Len(t) + Len(blank) + 1 /\ tb \in Seq(Byte)
      /\ w[1] = t[1]
  <2>1. /\ tb \o s = w /\ Len(tb \o s) = Len(t) + Len(blank) + 1
        /\ tb \in Seq(Byte) /\ Len(tb) > 0 /\ tb[1] = t[1] /\ tb \o s \in Seq(Byte)
    BY BehindValue DEF FromValue
  <2> HIDE DEF tb, s
  <2>2. (tb \o s)[1] = tb[1]
    <3>1. 1 \in 1 .. Len(tb)
      BY <2>1, Bytes
    <3>2. QED
      BY <1>1, <2>1, <3>1, Joined
  <2>3. QED
    BY <2>1, <2>2
<1> HIDE DEF w, s, tb
<1>3. x \in Seq(Byte) /\ Len(x) = Len(blank) + Len(w)
  BY <1>1, <1>2, Joined
<1>4. y = mid \o x
  BY DEF FromColon, w
<1> HIDE DEF x, mid, y
<1>5. y \in Seq(Byte) /\ Len(y) = 1 + Len(x) /\ y[1] = 58
  <2>1. 1 \in 1 .. Len(mid) /\ mid \in Seq(Byte) /\ x \in Seq(Byte)
    BY <1>1, <1>3
  <2>2. mid \o x \in Seq(Byte) /\ Len(mid \o x) = Len(mid) + Len(x) /\ (mid \o x)[1] = mid[1]
    BY <2>1, Joined
  <2>3. QED
    BY <1>1, <1>4, <2>2
<1>6. z \in Seq(Byte) /\ Len(z) = Len(blank) + Len(y)
  BY <1>1, <1>5, Joined
<1>7. text = Chain(key, blank, mid, blank, tb)
  BY DEF PairText, mid, tb
<1>8. text \in Seq(Byte) /\ text \o s = Chain(key, blank, mid, blank, tb \o s)
  <2>1. blank \in Seq(Byte) /\ mid \in Seq(Byte) /\ tb \in Seq(Byte) /\ s \in Seq(Byte)
    BY <1>1, <1>2
  <2>2. ChainGrows(key, blank, mid, blank, tb, s)
    BY <2>1, ChainJoined
  <2>3. QED
    BY <1>7, <2>2, Zenon DEF ChainGrows
<1>9. Chain(key, blank, mid, blank, w) = key \o z
  BY <1>4 DEF Chain, x, z
<1> HIDE DEF z, text
<1>10. text \o s = key \o z /\ Len(key \o z) = Len(key) + Len(z)
  BY <1>1, <1>2, <1>6, <1>8, <1>9, Joined
<1>11. Len(text) > 0 /\ text[1] = key[1]
  <2> DEFINE u == blank \o (mid \o (blank \o tb))
  <2>1. text = key \o u
    BY <1>7 DEF Chain
  <2>2. u \in Seq(Byte)
    <3> DEFINE u1 == blank \o tb
               u2 == mid \o u1
    <3>1. u1 \in Seq(Byte)
      BY <1>1, <1>2, Joined
    <3> HIDE DEF u1
    <3>2. u2 \in Seq(Byte)
      BY <1>1, <3>1, Joined
    <3> HIDE DEF u2
    <3>3. blank \o u2 \in Seq(Byte)
      BY <1>1, <3>2, Joined
    <3>4. QED
      BY <3>3 DEF u1, u2
  <2> HIDE DEF u
  <2>3. 1 \in 1 .. Len(key)
    BY <1>1
  <2>4. Len(key \o u) = Len(key) + Len(u) /\ (key \o u)[1] = key[1] /\ Len(u) \in Nat
    BY <1>1, <2>2, <2>3, Joined, Bytes
  <2>5. QED
    BY <1>1, <2>1, <2>4
<1>12. (((((blank \o key) \o blank) \o mid) \o blank) \o t) \o blank = blank \o text
  <2> DEFINE ch == Chain(key, blank, mid, blank, t)
  <2>1. /\ ((((blank \o key) \o blank) \o mid) \o blank) \o t = blank \o ch
        /\ ch \in Seq(Byte)
        /\ ch \o blank = Chain(key, blank, mid, blank, t \o blank)
    <3>1. blank \in Seq(Byte) /\ mid \in Seq(Byte) /\ t \in Seq(Byte)
      BY <1>1
    <3>2. ChainGrows(key, blank, mid, blank, t, blank)
      BY <3>1, ChainJoined
    <3>3. QED
      BY <3>2, Zenon DEF ChainGrows
  <2> HIDE DEF ch
  <2>2. (blank \o ch) \o blank = blank \o (ch \o blank)
    BY <1>1, <2>1, ThreeJoined
  <2>3. ch \o blank = text
    BY <1>7, <2>1 DEF tb
  <2>4. QED
    BY <2>1, <2>2, <2>3
<1>13. QED
  <2>1. /\ text \in Seq(Byte) /\ Len(text) > 0 /\ text[1] = key[1]
        /\ text \o <<sep>> = key \o (blank \o y)
        /\ Len(text \o <<sep>>) = Len(key) + Len(blank) + Len(y)
    <3>1. Len(text \o s) = Len(key) + Len(blank) + Len(y)
      BY <1>1, <1>5, <1>6, <1>10, Bytes
    <3>2. QED
      BY <1>8, <1>10, <1>11, <3>1 DEF s, z
  <2>2. (((((blank \o key) \o blank) \o <<58>>) \o blank) \o t) \o blank = blank \o text
    BY <1>12 DEF mid, ColonText
  <2>3. w \in Seq(Byte) /\ Len(w) = Len(t) + Len(blank) + 1 /\ Len(w) > 0 /\ w[1] = t[1]
    BY <1>1, <1>2
  <2>4. y \in Seq(Byte) /\ Len(y) = 1 + Len(blank) + Len(w) /\ Len(y) > 0 /\ y[1] = 58
    <3>1. Len(w) \in Nat
      BY <1>1, <1>2
    <3>2. QED
      BY <1>1, <1>3, <1>5, <3>1
  <2>5. blank \o y \in Seq(Byte) /\ blank \o w \in Seq(Byte)
    BY <1>3, <1>6 DEF x, z
  <2>6. QED
    BY <2>1, <2>2, <2>3, <2>4, <2>5, Zenon DEF w, y, text, PairParts

LEMMA PairRead ==
  ASSUME NEW b \in Seq(Byte), NEW key \in Seq(Byte), NEW t, Core(t), NEW blank \in Seq(Blanks),
         NEW sep \in {Comma, CloseObject},
         NEW d, NEW x, NEW F, NEW m, Reading(d, t, b, x, F, m),
         NEW p \in Nat, NEW o \in Nat, SkipWs(b, p) = o, o < Len(b),
         Stands(PairText(EncodeBinary(key), t, blank) \o <<sep>>, b, o), NEW pairs
  PROVE  Entered(NextEntry("object", b, d, Open(pairs, p)), "object", b, CloseObject, sep,
                 o + Len(PairText(EncodeBinary(key), t, blank) \o <<sep>>), x, F, Put(pairs, key, m))
<1> DEFINE k    == EncodeBinary(key)
           text == PairText(k, t, blank) \o <<sep>>
           w    == FromValue(t, blank, sep)
           y    == FromColon(t, blank, sep)
           ko   == o + Len(k)
           co   == ko + Len(blank)
           ao   == co + 1
           vo   == ao + Len(blank)
           e    == vo + Len(t) + Len(blank) + 1
           got  == DecStr(b, o + 1)
           v    == d[SkipWs(b, got.pos) + 1]
           q    == SkipWs(b, v.pos)
           r    == NextEntry("object", b, d, Open(pairs, p))
           more == Put(pairs, key, m)
<1>1. /\ sep \in Separators /\ Len(b) \in Nat /\ blank \in Seq(Byte) /\ Len(blank) \in Nat
      /\ k \in Seq(Byte) /\ Len(k) \in Nat /\ Len(k) > 0
      /\ t \in Seq(Byte) /\ Len(t) \in Nat /\ Len(t) > 0 /\ t[1] \notin Blanks
  <2>1. sep \in Separators
    BY DEF Separators
  <2>2. k \in Seq(Byte) /\ Len(k) \in Nat /\ Len(k) > 0
    BY EncodeBinaryType, Bytes
  <2>3. t[1] \notin Blanks
    BY DEF Core
  <2>4. QED
    BY <2>1, <2>2, <2>3, CoreIs, BlankType, Bytes
<1> HIDE DEF k
<1>2. /\ text = k \o (blank \o y)
      /\ Len(text) = Len(k) + Len(blank) + Len(y)
      /\ w \in Seq(Byte) /\ Len(w) = Len(t) + Len(blank) + 1 /\ Len(w) > 0 /\ w[1] = t[1]
      /\ y \in Seq(Byte) /\ Len(y) = 1 + Len(blank) + Len(w) /\ Len(y) > 0 /\ y[1] = 58
      /\ blank \o y \in Seq(Byte) /\ blank \o w \in Seq(Byte)
  <2>1. k \in Seq(Byte) /\ Len(k) > 0 /\ sep \in Separators
    BY <1>1
  <2> DEFINE pair == PairText(k, t, blank)
  <2> HIDE DEF w, y, pair
  <2>2. /\ pair \o <<sep>> = k \o (blank \o y)
        /\ Len(pair \o <<sep>>) = Len(k) + Len(blank) + Len(y)
        /\ w \in Seq(Byte) /\ Len(w) = Len(t) + Len(blank) + 1 /\ Len(w) > 0 /\ w[1] = t[1]
        /\ y \in Seq(Byte) /\ Len(y) = 1 + Len(blank) + Len(w) /\ Len(y) > 0 /\ y[1] = 58
        /\ blank \o y \in Seq(Byte) /\ blank \o w \in Seq(Byte)
    <3>1. PairParts(k, t, blank, sep)
      BY <2>1, PairTextIs
    <3>2. QED
      BY <3>1, Zenon DEF PairParts, w, y, pair
  <2>3. QED
    BY <2>2 DEF pair
<1>3. Stands(text, b, o)
  BY DEF k
<1>4. y = ColonText \o (blank \o w)
  BY DEF FromColon
<1> HIDE DEF text, w, y
<1>5. Stands(k, b, o) /\ Stands(blank \o y, b, ko) /\ ko \in Nat
  <2>1. Stands(k \o (blank \o y), b, o)
    BY <1>2, <1>3
  <2> DEFINE z == blank \o y
  <2>2. z \in Seq(Byte)
    BY <1>2
  <2> HIDE DEF z
  <2>3. Stands(k, b, o) /\ Stands(z, b, ko) /\ ko \in Nat
    BY <1>1, <2>1, <2>2, StandsJoined DEF z
  <2>4. QED
    BY <2>3 DEF z
<1>6. got = IF ko <= Len(b) THEN Json(Typed("string", key), ko) ELSE NoJson
  BY <1>5, StringRead DEF k
<1> HIDE DEF ko, got
<1>7. /\ co \in Nat /\ Stands(y, b, co)
      /\ co < Len(b) => SkipWs(b, ko) = co
      /\ co >= Len(b) => SkipWs(b, ko) \in Nat /\ SkipWs(b, ko) >= Len(b)
  <2>1. y[1] \notin Blanks
    BY <1>2 DEF Blanks
  <2>2. y \in Seq(Byte) /\ Len(y) > 0 /\ Stands(blank \o y, b, ko) /\ ko \in Nat
    BY <1>2, <1>5
  <2>3. QED
    BY <2>1, <2>2, SkippedTo
<1> HIDE DEF co
<1>8. Stands(blank \o w, b, ao) /\ ao \in Nat
  <2> DEFINE z == blank \o w
  <2>1. z \in Seq(Byte) /\ y = ColonText \o z
    BY <1>2, <1>4
  <2> HIDE DEF z
  <2>2. ColonText \in Seq(Byte) /\ Len(ColonText) = 1
    <3>1. 58 \in Byte
      BY DEF Byte
    <3>2. QED
      BY <3>1, OneByte DEF ColonText
  <2>3. Stands(ColonText \o z, b, co)
    BY <1>7, <2>1
  <2>4. Stands(z, b, co + Len(ColonText))
    BY <1>7, <2>1, <2>2, <2>3, StandsJoined
  <2>5. QED
    BY <1>7, <2>2, <2>4 DEF z
<1> HIDE DEF ao
<1>9. /\ vo \in Nat /\ Stands(w, b, vo)
      /\ vo < Len(b) => SkipWs(b, ao) = vo
      /\ vo >= Len(b) => At(b, SkipWs(b, ao)) = -1
  <2>1. w[1] \notin Blanks
    BY <1>1, <1>2
  <2>2. w \in Seq(Byte) /\ Len(w) > 0 /\ Stands(blank \o w, b, ao) /\ ao \in Nat
    BY <1>2, <1>8
  <2>3. QED
    BY <2>1, <2>2, SkippedTo
<1> HIDE DEF vo
<1>10. /\ e <= Len(b) /\ x \in F => Found(d, b, ao, sep, e, m)
       /\ ~(e <= Len(b) /\ x \in F) => NotFound(d, b, ao)
  <2>1. Stands(t \o (blank \o <<sep>>), b, vo)
    BY <1>9 DEF w, FromValue
  <2>2. QED
    BY <1>1, <1>8, <1>9, <2>1, ValueFound
<1>11. o + Len(text) = e /\ e \in Nat /\ co < e /\ ko <= co
  BY <1>1, <1>2, <1>5, <1>7, <1>8, <1>9, SMTT(30) DEF ko, co, ao, vo
<1>12. r = CASE got.ok /\ v.ok /\ At(b, q) = Comma       -> Open(Put(pairs, got.value.value, v.value), q + 1)
             [] got.ok /\ v.ok /\ At(b, q) = CloseObject ->
                  Json(Typed("object", Put(pairs, got.value.value, v.value)), q + 1)
             [] OTHER                                    -> NoJson
  BY DEF NextEntry, NextPair, PairAfter, Open, got
<1>13. Comma # CloseObject /\ Comma # -1 /\ CloseObject # -1
  BY DEF Comma, CloseObject
<1> HIDE DEF e, r, v
<1>14. CASE co < Len(b)
  <2>1. got.ok /\ got.value.value = key /\ got.pos = ko
    BY <1>1, <1>5, <1>6, <1>7, <1>11, <1>14 DEF Json, Typed
  <2>2. v = d[ao]
    BY <1>7, <1>14, <2>1 DEF v, ao
  <2>3. CASE e <= Len(b) /\ x \in F
    <3>1. v.ok /\ v.value = m /\ q + 1 = e /\ At(b, q) = sep
      BY <1>10, <2>2, <2>3 DEF Found
    <3>2. CASE sep = Comma
      <4>1. r = Open(more, e)
        BY <1>12, <1>13, <2>1, <3>1, <3>2
      <4>2. QED
        BY <1>11, <1>13, <2>3, <3>2, <4>1 DEF Entered, r, text, k
    <3>3. CASE sep = CloseObject
      <4>1. r = Json(Typed("object", more), e)
        BY <1>12, <1>13, <2>1, <3>1, <3>3
      <4>2. QED
        BY <1>11, <1>13, <2>3, <3>3, <4>1 DEF Entered, r, text, k
    <3>4. QED
      BY <3>2, <3>3
  <2>4. CASE ~(e <= Len(b) /\ x \in F)
    <3>1. ~v.ok \/ At(b, q) = -1
      BY <1>10, <2>2, <2>4 DEF NotFound
    <3>2. r = NoJson
      BY <1>12, <1>13, <3>1
    <3>3. QED
      BY <1>11, <2>4, <3>2 DEF Entered, r, text, k
  <2>5. QED
    BY <2>3, <2>4
<1>15. CASE co >= Len(b)
  <2>1. ~(e <= Len(b) /\ x \in F)
    BY <1>1, <1>7, <1>11, <1>15
  <2>2. ~got.ok \/ ~v.ok
    <3>1. CASE ko > Len(b)
      BY <1>1, <1>5, <1>6, <3>1 DEF NoJson
    <3>2. CASE ko <= Len(b)
      <4> DEFINE j == SkipWs(b, ko) + 1
      <4>1. j \in Nat /\ j >= Len(b)
        BY <1>1, <1>7, <1>15
      <4>2. v = d[j]
        BY <1>6, <3>2 DEF v, Json
      <4> HIDE DEF j
      <4>3. d[j] = NoJson
        BY <4>1, Beyond DEF Reading
      <4>4. QED
        BY <4>2, <4>3 DEF NoJson
    <3>3. QED
      BY <1>1, <1>5, <3>1, <3>2
  <2>3. r = NoJson
    BY <1>12, <2>2
  <2>4. QED
    BY <1>11, <2>1, <2>3 DEF Entered, r, text, k
<1>16. QED
  BY <1>1, <1>7, <1>14, <1>15

\* Blanks are skipped up to some position.
LEMMA SkipsSomewhere ==
  ASSUME NEW b \in Seq(Byte), NEW p \in Nat
  PROVE  SkipWs(b, p) \in Nat /\ (At(b, SkipWs(b, p)) = -1 => SkipWs(b, p) >= Len(b))
<1> DEFINE T == {i \in Nat : p <= i /\ At(b, i) \notin Blanks}
<1>1. Len(b) \in Nat
  BY Bytes
<1>2. p + Len(b) \in T
  BY <1>1, AtIs, BlankBytes
<1>3. PICK q \in T : \A i \in T : q <= i
  <2> DEFINE S == T
  <2>1. S \in SUBSET Nat /\ S # {}
    BY <1>2
  <2> HIDE DEF S
  <2>2. \E q \in S : \A i \in S : q <= i
    BY <2>1, LeastNatural
  <2>3. QED
    BY <2>2 DEF S
<1>4. q \in Nat /\ p <= q /\ At(b, q) \notin Blanks
  OBVIOUS
<1>5. ASSUME NEW r \in p .. q - 1 PROVE At(b, r) \in Blanks
  <2>1. r \in Nat /\ p <= r /\ ~(q <= r)
    BY <1>4
  <2>2. QED
    BY <1>3, <2>1
<1>6. SkipWs(b, p) = q
  BY <1>4, <1>5, BlankBytes, PastIs DEF SkipWs
<1>7. At(b, q) = -1 => q >= Len(b)
  <2>1. -1 \notin Byte
    BY DEF Byte
  <2>2. QED
    BY <1>1, <1>4, <2>1, AtIs
<1>8. QED
  BY <1>4, <1>6, <1>7

\* Where the bytes end, no pair begins.
LEMMA NoPairBeyond ==
  ASSUME NEW b \in Seq(Byte), NEW d, NEW p \in Nat, At(b, SkipWs(b, p)) = -1, NEW pairs
  PROVE  NextEntry("object", b, d, Open(pairs, p)) = NoJson
<1> DEFINE q   == SkipWs(b, p)
           key == <<>>
           t   == EncodeBinary(key)
           got == DecStr(b, q + 1)
<1>1. q \in Nat /\ q >= Len(b) /\ Len(b) \in Nat
  BY SkipsSomewhere, Bytes
<1> HIDE DEF q
<1>2. key \in Seq(Byte)
  OBVIOUS
<1> HIDE DEF key
<1>3. t \in Seq(Byte) /\ Len(t) \in Nat /\ Len(t) > 0
  BY <1>2, EncodeBinaryType, Bytes
<1>4. Stands(t, b, q)
  BY <1>1, <1>3 DEF Stands
<1>5. got = NoJson
  BY <1>1, <1>2, <1>3, <1>4, StringRead
<1> HIDE DEF got
<1>6. ~got.ok
  BY <1>5 DEF NoJson
<1>7. Open(pairs, p).pos = p
  BY DEF Open
<1>8. DecStr(b, SkipWs(b, Open(pairs, p).pos) + 1) = got
  BY <1>7 DEF got, q
<1>9. QED
  BY <1>6, <1>8 DEF NextEntry, NextPair, PairAfter

\* Pairs whose values are read, and what is collected with each.
PairsGiven(xs, F, keys, core, ms, b, blank, d, rest, acc) ==
  /\ \A i \in 1 .. Len(xs) :
       keys[i] \in Seq(Byte) /\ Core(core[i]) /\ Reading(d, core[i], b, xs[i], F, ms[i])
  /\ \A i \in 1 .. Len(xs) : rest[i] = PairText(EncodeBinary(keys[i]), core[i], blank)
  /\ \A k \in 0 .. Len(xs) - 1 : acc[k + 1] = Put(acc[k], keys[k + 1], ms[k + 1])

\* What the calls collect are the values of the first pairs, by key.
LEMMA PairsRead ==
  ASSUME NEW S, NEW xs \in Seq(S), NEW F, NEW keys, NEW core, NEW ms,
         NEW b \in Seq(Byte), NEW blank \in Seq(Blanks), NEW d, NEW rest, NEW acc,
         PairsGiven(xs, F, keys, core, ms, b, blank, d, rest, acc)
  PROVE  EntryReads("object", CloseObject, b, d, acc, rest, Len(xs), Shallow(xs, F))
<1> DEFINE n == Len(xs)
<1>1. n \in Nat /\ Len(b) \in Nat
  BY LenProperties
<1>2. /\ \A i \in 1 .. n :
           keys[i] \in Seq(Byte) /\ Core(core[i]) /\ Reading(d, core[i], b, xs[i], F, ms[i])
      /\ \A i \in 1 .. n : rest[i] = PairText(EncodeBinary(keys[i]), core[i], blank)
      /\ \A k \in 0 .. n - 1 : acc[k + 1] = Put(acc[k], keys[k + 1], ms[k + 1])
  BY DEF PairsGiven
<1>3. ASSUME NEW k \in 0 .. n - 1, NEW p \in Nat
      PROVE  LET sep == Separator(n, CloseObject, k + 1)
                 r   == NextEntry("object", b, d, Open(acc[k], p))
             IN  /\ \A o \in Nat :
                      SkipWs(b, p) = o /\ o < Len(b) /\ Stands(rest[k + 1] \o <<sep>>, b, o) =>
                        Entered(r, "object", b, CloseObject, sep, o + Len(rest[k + 1] \o <<sep>>),
                                xs[k + 1], F, acc[k + 1])
                 /\ At(b, SkipWs(b, p)) = -1 => r = NoJson
  <2> DEFINE sep == Separator(n, CloseObject, k + 1)
             r   == NextEntry("object", b, d, Open(acc[k], p))
             key == keys[k + 1]
             c   == core[k + 1]
             x   == xs[k + 1]
             m   == ms[k + 1]
             pairs == acc[k]
             more  == acc[k + 1]
             u   == rest[k + 1]
  <2>1. k \in Nat /\ k + 1 \in 1 .. n
    BY <1>1
  <2>2. more = Put(pairs, key, m)
    BY <1>2
  <2>3. sep \in {Comma, CloseObject}
    BY DEF Separator
  <2>4. /\ key \in Seq(Byte) /\ Core(c) /\ Reading(d, c, b, x, F, m)
        /\ u = PairText(EncodeBinary(key), c, blank)
    BY <1>2, <2>1
  <2> HIDE DEF sep, key, c, x, m, pairs, more, u
  <2>5. ASSUME NEW o \in Nat, SkipWs(b, p) = o, o < Len(b), Stands(u \o <<sep>>, b, o)
        PROVE  Entered(r, "object", b, CloseObject, sep, o + Len(u \o <<sep>>), x, F, more)
    <3>1. Stands(PairText(EncodeBinary(key), c, blank) \o <<sep>>, b, o)
      BY <2>4, <2>5
    <3>2. Entered(NextEntry("object", b, d, Open(pairs, p)), "object", b, CloseObject, sep,
                  o + Len(PairText(EncodeBinary(key), c, blank) \o <<sep>>), x, F, Put(pairs, key, m))
      BY <2>3, <2>4, <2>5, <3>1, PairRead
    <3>3. QED
      BY <2>2, <2>4, <3>2, Zenon DEF pairs
  <2>6. ASSUME At(b, SkipWs(b, p)) = -1 PROVE r = NoJson
    BY <2>6, NoPairBeyond
  <2>7. QED
    BY <2>5, <2>6 DEF sep, x, more, u
<1>4. EntriesEnter("object", CloseObject, b, d, acc, rest, xs, F)
  BY <1>3 DEF EntriesEnter
<1>5. QED
  BY <1>4, EntriesEntered

Brackets(type, open, close) ==
  \/ type = "array" /\ open = OpenArray /\ close = CloseArray
  \/ type = "object" /\ open = OpenObject /\ close = CloseObject

\* The text of an array or an object, wherever it stands.
LEMMA EnclosedRead ==
  ASSUME NEW type, NEW open, NEW close, Brackets(type, open, close), NEW blank \in Seq(Blanks),
         NEW texts, NEW rest, EntryTexts(texts, rest, close, blank),
         NEW b \in Seq(Byte), NEW d, NEW acc, acc[0] = <<>>, NEW fits \in SUBSET (1 .. Len(texts)),
         EntryReads(type, close, b, d, acc, rest, Len(texts), fits),
         NEW v, v.type = type, NEW G, v \in G <=> fits = 1 .. Len(texts)
  PROVE  LET t == Enclosed(open, texts, close, blank)
             m == Typed(type, acc[Len(texts)])
         IN  /\ Core(t)
             /\ \A p \in Nat : \A o \in Nat :
                  Standing(t, b, o) /\ SkipWs(b, p) = o =>
                    ReadsOf(DecodeValue(b, d, p), t, b, o, v, G, m)
<1> DEFINE t == Enclosed(open, texts, close, blank)
           n == Len(texts)
           m == Typed(type, acc[n])
           Whole(s, o) == IF o + Len(s) <= Len(b) /\ fits = 1 .. n THEN Json(m, o + Len(s)) ELSE NoJson
<1>1. open \in Byte /\ close \in Byte /\ close \in {CloseArray, CloseObject} /\ type \in Delimited
  BY DEF Brackets, OpenArray, OpenObject, CloseArray, CloseObject, Byte, Delimited
<1>2. ASSUME NEW o \in Nat, Stands(Enclosed(open, texts, close, blank), b, o)
      PROVE  DecodeEntries(type, close, b, d, o + 1) = Whole(Enclosed(open, texts, close, blank), o)
  <2>1. Entries(type, open, close, blank, texts, rest, b, d, acc, fits)
    BY <1>1 DEF Entries
  <2>2. QED
    BY <1>2, <2>1, EntriesRead
<1> HIDE DEF Whole
<1>7. texts \in Seq(Seq(Byte)) /\ blank \in Seq(Byte)
  BY BlankType DEF EntryTexts
<1>3. t \in Seq(Byte) /\ t # <<>> /\ t[1] = open
  BY <1>1, <1>7, EnclosedIs
<1> HIDE DEF t
<1>4. Core(t)
  <2>1. open \notin Blanks /\ open \notin {CloseArray, CloseObject}
    BY DEF Brackets, OpenArray, OpenObject, CloseArray, CloseObject, Blanks
  <2>2. QED
    BY <1>3, <2>1 DEF Core
<1>5. ASSUME NEW p \in Nat, NEW o \in Nat, Stands(t, b, o), SkipWs(b, p) = o
      PROVE  ReadsOf(DecodeValue(b, d, p), t, b, o, v, G, m)
  <2> DEFINE r == DecodeValue(b, d, p)
  <2>1. Len(t) \in Nat /\ Len(b) \in Nat
    BY <1>3, Bytes
  <2>2. CASE o >= Len(b)
    <3>1. r = NoJson /\ o + Len(t) > Len(b)
      BY <1>4, <1>5, <2>2, FirstByteOf, FirstByte
    <3>2. QED
      BY <2>1, <3>1 DEF ReadsOf, NoJson
  <2>3. CASE o < Len(b)
    <3>1. At(b, o) = open
      BY <1>3, <1>4, <1>5, <2>3, FirstByteOf
    <3>2. r = DecodeEntries(type, close, b, d, o + 1)
      <4>1. CASE type = "array" /\ open = OpenArray /\ close = CloseArray
        BY <1>5, <3>1, <4>1, FirstByte DEF DecodeArray
      <4>2. CASE type = "object" /\ open = OpenObject /\ close = CloseObject
        BY <1>5, <3>1, <4>2, FirstByte DEF DecodeObject
      <4>3. QED
        BY <4>1, <4>2 DEF Brackets
    <3>3. r = IF o + Len(t) <= Len(b) /\ fits = 1 .. n THEN Json(m, o + Len(t)) ELSE NoJson
      <4>1. Stands(Enclosed(open, texts, close, blank), b, o)
        BY <1>5 DEF t
      <4>2. DecodeEntries(type, close, b, d, o + 1) = Whole(Enclosed(open, texts, close, blank), o)
        BY <1>2, <4>1
      <4>3. QED
        BY <3>2, <4>2 DEF t, Whole
    <3> HIDE DEF r, m, n
    <3>4. CASE o + Len(t) <= Len(b)
      <4>1. r = IF v \in G THEN Json(m, o + Len(t)) ELSE NoJson
        BY <3>3, <3>4 DEF n
      <4>2. QED
        BY <2>1, <3>4, <4>1 DEF ReadsOf, r
    <3>5. CASE ~(o + Len(t) <= Len(b))
      <4>1. r = NoJson
        BY <3>3, <3>5
      <4>2. QED
        BY <2>1, <3>5, <4>1 DEF ReadsOf, r, NoJson
    <3>6. QED
      BY <3>4, <3>5
  <2>4. QED
    BY <2>1, <2>2, <2>3
<1>6. QED
  BY <1>4, <1>5 DEF Standing, t, m, n

\* Of the first k of the pairs ps, number i is the latest with the key x.
IsLatest(ps, k, x, i) ==
  i \in 1 .. k /\ ps[i].key = x /\ \A j \in 1 .. k : ps[j].key = x => j <= i

KeysOf(ps, k)       == {ps[i].key : i \in 1 .. k}
LatestOf(ps, k, x)  == CHOOSE i : IsLatest(ps, k, x, i)

\* What the first k pairs mean.
Gathered(ps, meant, k) == [x \in KeysOf(ps, k) |-> meant[ps[LatestOf(ps, k, x)].value]]

LEMMA LatestIs ==
  ASSUME NEW ps, NEW k \in Nat, NEW x
  PROVE  /\ x \in KeysOf(ps, k) => IsLatest(ps, k, x, LatestOf(ps, k, x))
         /\ \A i : IsLatest(ps, k, x, i) => i = LatestOf(ps, k, x) /\ x \in KeysOf(ps, k)
<1>1. ASSUME NEW i, NEW j, IsLatest(ps, k, x, i), IsLatest(ps, k, x, j) PROVE i = j
  <2>1. i \in Nat /\ j \in Nat /\ i <= j /\ j <= i
    BY <1>1 DEF IsLatest
  <2>2. QED
    BY <2>1
<1>2. ASSUME x \in KeysOf(ps, k) PROVE \E i : IsLatest(ps, k, x, i)
  <2> DEFINE T == {m \in Nat : m < k /\ ps[k - m].key = x}
  <2>1. PICK i \in 1 .. k : ps[i].key = x
    BY <1>2 DEF KeysOf
  <2>2. k - i \in Nat /\ k - i < k /\ k - (k - i) = i
    BY <2>1
  <2>3. k - i \in T
    BY <2>1, <2>2
  <2>4. T \in SUBSET Nat /\ T # {}
    BY <2>3
  <2>5. PICK m \in T : \A l \in T : m <= l
    <3> HIDE DEF T
    <3>1. QED
      BY <2>4, LeastNatural
  <2>6. k - m \in 1 .. k /\ ps[k - m].key = x /\ m \in Nat
    BY <2>5
  <2>7. ASSUME NEW j \in 1 .. k, ps[j].key = x PROVE j <= k - m
    <3>1. k - j \in Nat /\ k - j < k /\ k - (k - j) = j
      OBVIOUS
    <3>2. k - j \in T
      BY <2>7, <3>1
    <3>3. m <= k - j
      BY <2>5, <3>2
    <3>4. QED
      BY <2>6, <3>3
  <2>8. IsLatest(ps, k, x, k - m)
    BY <2>6, <2>7 DEF IsLatest
  <2>9. QED
    BY <2>8
<1>3. ASSUME NEW i, IsLatest(ps, k, x, i)
      PROVE  IsLatest(ps, k, x, LatestOf(ps, k, x)) /\ x \in KeysOf(ps, k)
  <2>1. IsLatest(ps, k, x, LatestOf(ps, k, x))
    BY <1>3, Zenon DEF LatestOf
  <2>2. x \in KeysOf(ps, k)
    BY <1>3 DEF IsLatest, KeysOf
  <2>3. QED
    BY <2>1, <2>2
<1>4. QED
  BY <1>1, <1>2, <1>3

LEMMA NothingGathered ==
  ASSUME NEW ps, NEW meant
  PROVE  Gathered(ps, meant, 0) = <<>>
<1>1. KeysOf(ps, 0) = 1 .. 0
  BY DEF KeysOf
<1> DEFINE e(x) == meant[ps[LatestOf(ps, 0, x)].value]
           S    == {e(x) : x \in 1 .. 0}
<1>2. Gathered(ps, meant, 0) = [x \in 1 .. 0 |-> e(x)]
  BY <1>1 DEF Gathered
<1> HIDE DEF e
<1>3. [x \in 1 .. 0 |-> e(x)] \in Seq(S) /\ Len([x \in 1 .. 0 |-> e(x)]) = 0
  OBVIOUS
<1>4. QED
  BY <1>2, <1>3, EmptySeq

\* Each call puts one more pair into the map.
LEMMA PutGathered ==
  ASSUME NEW ps, NEW meant, NEW k \in Nat
  PROVE  Gathered(ps, meant, k + 1) =
           Put(Gathered(ps, meant, k), ps[k + 1].key, meant[ps[k + 1].value])
<1> DEFINE n   == k + 1
           key == ps[n].key
           old == Gathered(ps, meant, k)
           new == Gathered(ps, meant, n)
           put == Put(old, key, meant[ps[n].value])
<1>1. n \in Nat /\ 1 .. n = (1 .. k) \union {n} /\ n \notin 1 .. k
  OBVIOUS
<1> HIDE DEF n
<1>2. KeysOf(ps, n) = KeysOf(ps, k) \union {key}
  BY <1>1 DEF KeysOf
<1>3. DOMAIN old = KeysOf(ps, k) /\ DOMAIN new = KeysOf(ps, n)
  BY DEF Gathered
<1>4. put = [x \in DOMAIN old \union {key} |-> IF x = key THEN meant[ps[n].value] ELSE old[x]]
  BY DEF Put
<1>5. DOMAIN put = KeysOf(ps, n) /\ put[key] = meant[ps[n].value]
  BY <1>2, <1>3, <1>4
<1>6. IsLatest(ps, n, key, n)
  BY <1>1 DEF IsLatest, n
<1>7. new[key] = meant[ps[n].value]
  <2>1. LatestOf(ps, n, key) = n
    BY <1>1, <1>6, LatestIs
  <2>2. key \in KeysOf(ps, n)
    BY <1>2
  <2>3. QED
    BY <2>1, <2>2 DEF Gathered
<1>8. ASSUME NEW x \in KeysOf(ps, n), x # key PROVE new[x] = put[x]
  <2>1. x \in KeysOf(ps, k)
    BY <1>2, <1>8
  <2>2. IsLatest(ps, k, x, LatestOf(ps, k, x))
    BY <2>1, LatestIs
  <2>3. IsLatest(ps, n, x, LatestOf(ps, k, x))
    BY <1>1, <1>8, <2>2 DEF IsLatest
  <2>4. LatestOf(ps, n, x) = LatestOf(ps, k, x)
    BY <1>1, <2>3, LatestIs
  <2>5. new[x] = old[x]
    BY <2>1, <2>4 DEF Gathered
  <2>6. QED
    BY <1>2, <1>3, <1>4, <1>8, <2>5
<1>9. \A x \in KeysOf(ps, n) : new[x] = put[x]
  BY <1>5, <1>7, <1>8
<1>10. new = put
  <2>1. new = [x \in KeysOf(ps, n) |-> new[x]]
    BY DEF Gathered
  <2>2. put = [x \in KeysOf(ps, n) |-> put[x]]
    BY <1>2, <1>3, <1>4
  <2> HIDE DEF new, put
  <2>3. QED
    BY <1>9, <2>1, <2>2
<1>11. QED
  BY <1>10 DEF n

-----------------------------------------------------------------------------
(* Json: documents *)

\* A document inside is read, and so is the value of a pair.
AllRead(A, inside, meant, b, d, F) ==
  \A x \in A : Core(inside[x]) /\ Reading(d, inside[x], b, x, F, meant[x])

\* r is what comes of the text t, wherever it stands in b.
ReadWell(t, b, d, v, G, m) ==
  /\ Core(t)
  /\ \A p \in Nat : \A o \in Nat :
       Standing(t, b, o) /\ SkipWs(b, p) = o => ReadsOf(DecodeValue(b, d, p), t, b, o, v, G, m)

LEMMA ArrayRead ==
  ASSUME NEW A, NEW v \in [type : {"array"}, value : Seq(A)], NEW inside, NEW meant,
         NEW blank \in Seq(Blanks), NEW b \in Seq(Byte), NEW d, NEW F,
         AllRead(A, inside, meant, b, d, F), NEW G, v \in G <=> v.value \in Seq(F)
  PROVE  ReadWell(TextOf(v, inside, blank), b, d, v, G, MeaningOf(v, meant))
<1> DEFINE xs    == v.value
           n     == Len(xs)
           core  == [i \in 1 .. n |-> inside[xs[i]]]
           ms    == [i \in 1 .. n |-> meant[xs[i]]]
           M     == {meant[x] : x \in A}
           texts == [i \in 1 .. n |-> (blank \o core[i]) \o blank]
           rest  == [i \in 1 .. n |-> core[i] \o blank]
           acc   == [k \in 0 .. n |-> SubSeq(ms, 1, k)]
           fits  == Shallow(xs, F)
<1>1. /\ xs \in Seq(A) /\ n \in Nat /\ DOMAIN xs = 1 .. n /\ v.type = "array"
      /\ blank \in Seq(Byte) /\ Len(blank) \in Nat
  BY LenProperties, BlankType
<1>2. ASSUME NEW i \in 1 .. n
      PROVE  /\ xs[i] \in A /\ core[i] = inside[xs[i]] /\ ms[i] = meant[xs[i]]
             /\ Core(core[i]) /\ Reading(d, core[i], b, xs[i], F, ms[i])
  <2>1. xs[i] \in A
    BY <1>1, <1>2, ElementOfSeq
  <2>2. QED
    BY <2>1 DEF AllRead
<1>3. ms \in Seq(M) /\ Len(ms) = n
  <2>1. \A i \in 1 .. n : meant[xs[i]] \in M
    BY <1>2
  <2> HIDE DEF M, n
  <2>2. QED
    BY <1>1, <2>1
<1>4. TextOf(v, inside, blank) = Enclosed(OpenArray, texts, CloseArray, blank)
  <2>1. [i \in DOMAIN v.value |-> (blank \o inside[v.value[i]]) \o blank] = texts
    BY <1>1
  <2> HIDE DEF texts
  <2>2. QED
    BY <1>1, <2>1 DEF TextOf
<1>5. MeaningOf(v, meant) = Typed("array", ms)
  <2>1. [i \in DOMAIN v.value |-> meant[v.value[i]]] = ms
    BY <1>1
  <2> HIDE DEF ms
  <2>2. QED
    BY <1>1, <2>1 DEF MeaningOf
<1>6. ASSUME NEW i \in 1 .. n
      PROVE  /\ rest[i] = core[i] \o blank /\ texts[i] = blank \o rest[i] /\ texts[i] \in Seq(Byte)
             /\ rest[i] \in Seq(Byte) /\ Len(rest[i]) > 0
             /\ rest[i][1] \notin Blanks /\ rest[i][1] # CloseArray /\ rest[i][1] # -1
  <2> DEFINE c == core[i]
  <2>1. Core(c)
    BY <1>2
  <2>2. rest[i] = c \o blank /\ texts[i] = (blank \o c) \o blank
    OBVIOUS
  <2> HIDE DEF c, rest, texts
  <2>3. c \in Seq(Byte) /\ c[1] \notin Blanks /\ c[1] # CloseArray /\ c[1] # -1
    BY <2>1, CoreIs DEF Core
  <2>4. c \o blank \in Seq(Byte) /\ Len(c \o blank) > 0 /\ (c \o blank)[1] = c[1]
    <3>1. Comma \in Separators
      BY DEF Separators
    <3>2. QED
      BY <2>1, <3>1, BehindValue
  <2>5. (blank \o c) \o blank = blank \o (c \o blank)
    BY <1>1, <2>3, ThreeJoined
  <2>6. blank \o (c \o blank) \in Seq(Byte)
    <3> DEFINE u == c \o blank
    <3>1. u \in Seq(Byte)
      BY <2>4
    <3> HIDE DEF u
    <3>2. blank \o u \in Seq(Byte)
      BY <1>1, <3>1, Joined
    <3>3. QED
      BY <3>2 DEF u
  <2>7. QED
    BY <2>2, <2>3, <2>4, <2>5, <2>6 DEF c
<1>7. Len(texts) = n /\ texts \in Seq(Seq(Byte))
  <2>1. \A i \in 1 .. n : (blank \o core[i]) \o blank \in Seq(Byte)
    BY <1>6
  <2> HIDE DEF n, core
  <2>2. QED
    BY <1>1, <2>1
<1>8. EntryTexts(texts, rest, CloseArray, blank)
  <2> HIDE DEF texts, rest, n
  <2>1. QED
    BY <1>6, <1>7 DEF EntryTexts
<1>9. acc[0] = <<>> /\ \A k \in 0 .. n : acc[k] = SubSeq(ms, 1, k)
  <2> HIDE DEF ms
  <2>1. QED
    BY <1>1, <1>3
<1>10. acc[n] = ms
  <2> HIDE DEF ms, M
  <2>1. SubSeq(ms, 1, n) = ms
    BY <1>3
  <2>2. QED
    BY <1>1, <2>1
<1> HIDE DEF core, ms, M, texts, rest, acc
<1>11. /\ fits \in SUBSET (1 .. n) /\ (v \in G <=> fits = 1 .. n)
  BY <1>1, ShallowAll
<1>12. EntryReads("array", CloseArray, b, d, acc, rest, n, fits)
  <2> HIDE DEF xs
  <2>1. \A i \in 1 .. Len(xs) : Core(core[i]) /\ Reading(d, core[i], b, xs[i], F, ms[i])
    BY <1>2
  <2>2. \A i \in 1 .. Len(xs) : rest[i] = core[i] \o blank
    BY <1>6
  <2>3. \A k \in 0 .. Len(xs) : acc[k] = SubSeq(ms, 1, k)
    BY <1>9
  <2>4. xs \in Seq(A) /\ ms \in Seq(M) /\ Len(ms) = Len(xs)
    BY <1>1, <1>3
  <2>5. QED
    BY <2>1, <2>2, <2>3, <2>4, ItemsRead DEF fits
<1> HIDE DEF n, fits, xs
<1>13. Brackets("array", OpenArray, CloseArray)
  BY DEF Brackets
<1>14. ReadWell(Enclosed(OpenArray, texts, CloseArray, blank), b, d, v, G, Typed("array", acc[Len(texts)]))
  <2>1. EntryReads("array", CloseArray, b, d, acc, rest, Len(texts), fits)
    BY <1>7, <1>12
  <2>2. fits \in SUBSET (1 .. Len(texts)) /\ (v \in G <=> fits = 1 .. Len(texts))
    BY <1>7, <1>11
  <2>3. QED
    BY <1>1, <1>8, <1>9, <1>13, <2>1, <2>2, EnclosedRead DEF ReadWell
<1>15. QED
  BY <1>4, <1>5, <1>7, <1>10, <1>14

LEMMA ObjectRead ==
  ASSUME NEW A, NEW v \in [type : {"object"}, value : Seq(PairsOver(A))], NEW inside, NEW meant,
         NEW blank \in Seq(Blanks), NEW b \in Seq(Byte), NEW d, NEW F,
         AllRead(A, inside, meant, b, d, F), NEW G, v \in G <=> v.value \in Seq(PairsOver(F))
  PROVE  ReadWell(TextOf(v, inside, blank), b, d, v, G, MeaningOf(v, meant))
<1> DEFINE ps    == v.value
           n     == Len(ps)
           keys  == [i \in 1 .. n |-> ps[i].key]
           xs    == [i \in 1 .. n |-> ps[i].value]
           core  == [i \in 1 .. n |-> inside[xs[i]]]
           ms    == [i \in 1 .. n |-> meant[xs[i]]]
           Pair(k, c) == (((((blank \o k) \o blank) \o <<58>>) \o blank) \o c) \o blank
           texts == [i \in 1 .. n |-> Pair(EncodeBinary(keys[i]), core[i])]
           rest  == [i \in 1 .. n |-> PairText(EncodeBinary(keys[i]), core[i], blank)]
           acc   == [k \in 0 .. n |-> Gathered(ps, meant, k)]
           fits  == Shallow(xs, F)
<1>1. /\ ps \in Seq(PairsOver(A)) /\ n \in Nat /\ DOMAIN ps = 1 .. n /\ v.type = "object"
      /\ blank \in Seq(Byte) /\ Len(blank) \in Nat
  BY LenProperties, BlankType
<1>2. ASSUME NEW i \in 1 .. n
      PROVE  /\ xs[i] \in A /\ xs[i] = ps[i].value /\ keys[i] = ps[i].key /\ keys[i] \in Seq(Byte)
             /\ core[i] = inside[xs[i]] /\ ms[i] = meant[xs[i]]
             /\ Core(core[i]) /\ Reading(d, core[i], b, xs[i], F, ms[i])
             /\ ps[i] \in PairsOver(A)
  <2>1. ps[i] \in PairsOver(A)
    BY <1>1, <1>2, ElementOfSeq
  <2>2. ps[i].key \in Seq(Byte) /\ ps[i].value \in A
    BY <2>1 DEF PairsOver
  <2>3. Core(inside[ps[i].value]) /\ Reading(d, inside[ps[i].value], b, ps[i].value, F, meant[ps[i].value])
    BY <2>2 DEF AllRead
  <2>4. QED
    BY <2>1, <2>2, <2>3
<1>3. xs \in Seq(A) /\ Len(xs) = n
  <2>1. \A i \in 1 .. n : ps[i].value \in A
    BY <1>2
  <2> HIDE DEF ps, n
  <2>2. QED
    BY <1>1, <2>1
<1>4. TextOf(v, inside, blank) = Enclosed(OpenObject, texts, CloseObject, blank)
  <2>1. [i \in DOMAIN v.value |-> Pair(EncodeBinary(v.value[i].key), inside[v.value[i].value])] = texts
    BY <1>1
  <2> HIDE DEF texts
  <2>2. QED
    BY <1>1, <2>1 DEF TextOf
<1>5. MeaningOf(v, meant) = Typed("object", Gathered(ps, meant, n))
  <2>1. {v.value[i].key : i \in DOMAIN v.value} = KeysOf(ps, n)
    BY <1>1 DEF KeysOf
  <2> DEFINE Latest(k) == CHOOSE i \in DOMAIN v.value :
                            /\ v.value[i].key = k
                            /\ \A j \in DOMAIN v.value : v.value[j].key = k => j <= i
             IsIt(k, i) == /\ v.value[i].key = k
                           /\ \A j \in DOMAIN v.value : v.value[j].key = k => j <= i
  <2>2. ASSUME NEW k \in KeysOf(ps, n) PROVE Latest(k) = LatestOf(ps, n, k)
    <3>1. IsLatest(ps, n, k, LatestOf(ps, n, k))
      BY <1>1, LatestIs
    <3>2. \A i : i \in DOMAIN v.value /\ IsIt(k, i) <=> IsLatest(ps, n, k, i)
      BY <1>1 DEF IsLatest
    <3>3. \E i \in DOMAIN v.value : IsIt(k, i)
      BY <3>1, <3>2
    <3>4. Latest(k) \in DOMAIN v.value /\ IsIt(k, Latest(k))
      <4>1. Latest(k) = CHOOSE i \in DOMAIN v.value : IsIt(k, i)
        OBVIOUS
      <4> DEFINE l == Latest(k)
      <4>2. l = CHOOSE i \in DOMAIN v.value : IsIt(k, i)
        BY <4>1
      <4> HIDE DEF IsIt, l
      <4>3. l \in DOMAIN v.value /\ IsIt(k, l)
        BY <3>3, <4>2
      <4>4. QED
        BY <4>3 DEF l
    <3> HIDE DEF Latest, IsIt
    <3>5. IsLatest(ps, n, k, Latest(k))
      BY <3>2, <3>4
    <3>6. QED
      BY <1>1, <3>5, LatestIs
  <2>3. [k \in KeysOf(ps, n) |-> meant[v.value[Latest(k)].value]] = Gathered(ps, meant, n)
    <3> HIDE DEF Latest
    <3>1. QED
      BY <2>2 DEF Gathered
  <2>4. MeaningOf(v, meant) = Typed("object", [k \in {v.value[i].key : i \in DOMAIN v.value} |->
                                                 meant[v.value[Latest(k)].value]])
    BY <1>1 DEF MeaningOf
  <2> HIDE DEF Latest
  <2>5. QED
    BY <2>1, <2>3, <2>4
<1>6. ASSUME NEW i \in 1 .. n
      PROVE  /\ rest[i] = PairText(EncodeBinary(keys[i]), core[i], blank)
             /\ texts[i] = blank \o rest[i] /\ texts[i] \in Seq(Byte)
             /\ rest[i] \in Seq(Byte) /\ Len(rest[i]) > 0
             /\ rest[i][1] \notin Blanks /\ rest[i][1] # CloseObject /\ rest[i][1] # -1
  <2> DEFINE c == core[i]
             k == EncodeBinary(keys[i])
             u == PairText(k, c, blank)
  <2>1. Core(c) /\ keys[i] \in Seq(Byte)
    BY <1>2
  <2>2. rest[i] = u /\ texts[i] = Pair(k, c)
    OBVIOUS
  <2> HIDE DEF c, rest, texts, keys
  <2>3. k \in Seq(Byte) /\ Len(k) > 0 /\ k[1] = Quote
    BY <2>1, EncodeBinaryType, Bytes
  <2>4. Quote \notin Blanks /\ Quote # CloseObject /\ Quote # -1
    BY DEF Quote, Blanks, CloseObject
  <2>5. Comma \in Separators
    BY DEF Separators
  <2> HIDE DEF k
  <2>6. PairParts(k, c, blank, Comma)
    BY <2>1, <2>3, <2>5, PairTextIs
  <2>7. u \in Seq(Byte) /\ Len(u) > 0 /\ u[1] = k[1] /\ Pair(k, c) = blank \o u
    BY <2>6, Zenon DEF PairParts
  <2> HIDE DEF u, Pair
  <2>8. blank \o u \in Seq(Byte)
    BY <1>1, <2>7, Joined
  <2>9. QED
    BY <2>2, <2>3, <2>4, <2>7, <2>8 DEF u, k, c
<1>7. Len(texts) = n /\ texts \in Seq(Seq(Byte))
  <2>1. \A i \in 1 .. n : Pair(EncodeBinary(keys[i]), core[i]) \in Seq(Byte)
    BY <1>6
  <2> HIDE DEF n, core, keys, Pair
  <2>2. QED
    BY <1>1, <2>1
<1>8. EntryTexts(texts, rest, CloseObject, blank)
  <2> HIDE DEF texts, rest, n
  <2>1. QED
    BY <1>6, <1>7 DEF EntryTexts
<1>9. acc[0] = <<>> /\ acc[n] = Gathered(ps, meant, n)
  BY <1>1, NothingGathered
<1>10. ASSUME NEW k \in 0 .. n - 1 PROVE acc[k + 1] = Put(acc[k], keys[k + 1], ms[k + 1])
  <2>1. k \in Nat /\ k + 1 \in 1 .. n /\ k \in 0 .. n /\ k + 1 \in 0 .. n
    BY <1>1
  <2>2. acc[k + 1] = Gathered(ps, meant, k + 1) /\ acc[k] = Gathered(ps, meant, k)
    BY <2>1
  <2>3. keys[k + 1] = ps[k + 1].key /\ ms[k + 1] = meant[ps[k + 1].value]
    BY <2>1
  <2> HIDE DEF acc, keys, ms, ps
  <2>4. QED
    BY <2>1, <2>2, <2>3, PutGathered
<1> HIDE DEF core, keys, xs, ms, texts, rest, acc, Pair
<1>11. /\ fits \in SUBSET (1 .. n) /\ (v \in G <=> fits = 1 .. n)
  <2>1. fits \in SUBSET (1 .. n) /\ (fits = 1 .. n <=> xs \in Seq(F))
    BY <1>3, ShallowAll
  <2>2. xs \in Seq(F) <=> ps \in Seq(PairsOver(F))
    <3> HIDE DEF ps, n
    <3>1. ASSUME xs \in Seq(F), NEW i \in 1 .. n PROVE ps[i] \in PairsOver(F)
      <4>1. xs[i] \in F
        BY <1>3, <3>1, ElementOfSeq
      <4>2. ps[i].value \in F /\ ps[i] \in PairsOver(A)
        BY <1>2, <4>1
      <4>3. QED
        BY <4>2 DEF PairsOver
    <3>2. ASSUME ps \in Seq(PairsOver(F)), NEW i \in 1 .. n PROVE xs[i] \in F
      <4>1. ps[i] \in PairsOver(F)
        BY <1>1, <3>2, ElementOfSeq DEF n
      <4>2. QED
        BY <1>2, <4>1 DEF PairsOver
    <3>3. ps = [i \in 1 .. n |-> ps[i]] /\ xs = [i \in 1 .. n |-> xs[i]]
      BY <1>1, <1>3, LenProperties
    <3>4. ASSUME xs \in Seq(F) PROVE ps \in Seq(PairsOver(F))
      <4>1. \A i \in 1 .. n : ps[i] \in PairsOver(F)
        BY <3>1, <3>4
      <4>2. [i \in 1 .. n |-> ps[i]] \in Seq(PairsOver(F))
        BY <1>1, <4>1
      <4>3. QED
        BY <3>3, <4>2
    <3>5. ASSUME ps \in Seq(PairsOver(F)) PROVE xs \in Seq(F)
      <4>1. \A i \in 1 .. n : xs[i] \in F
        BY <3>2, <3>5
      <4>2. [i \in 1 .. n |-> xs[i]] \in Seq(F)
        BY <1>1, <4>1
      <4>3. QED
        BY <3>3, <4>2
    <3>6. QED
      BY <3>4, <3>5
  <2>3. QED
    BY <2>1, <2>2
<1>12. EntryReads("object", CloseObject, b, d, acc, rest, n, fits)
  <2>1. \A i \in 1 .. Len(xs) :
          keys[i] \in Seq(Byte) /\ Core(core[i]) /\ Reading(d, core[i], b, xs[i], F, ms[i])
    BY <1>2, <1>3
  <2>2. \A i \in 1 .. Len(xs) : rest[i] = PairText(EncodeBinary(keys[i]), core[i], blank)
    BY <1>3, <1>6
  <2>3. \A k \in 0 .. Len(xs) - 1 : acc[k + 1] = Put(acc[k], keys[k + 1], ms[k + 1])
    BY <1>3, <1>10
  <2>4. EntryReads("object", CloseObject, b, d, acc, rest, Len(xs), fits)
    <3>1. xs \in Seq(A)
      BY <1>3
    <3>2. PairsGiven(xs, F, keys, core, ms, b, blank, d, rest, acc)
      BY <2>1, <2>2, <2>3 DEF PairsGiven
    <3> HIDE DEF ps, n
    <3>3. QED
      BY <3>1, <3>2, PairsRead DEF fits
  <2>5. QED
    BY <1>3, <2>4
<1> HIDE DEF n, fits, ps
<1>13. Brackets("object", OpenObject, CloseObject)
  BY DEF Brackets
<1>14. ReadWell(Enclosed(OpenObject, texts, CloseObject, blank), b, d, v, G, Typed("object", acc[Len(texts)]))
  <2>1. EntryReads("object", CloseObject, b, d, acc, rest, Len(texts), fits)
    BY <1>7, <1>12
  <2>2. fits \in SUBSET (1 .. Len(texts)) /\ (v \in G <=> fits = 1 .. Len(texts))
    BY <1>7, <1>11
  <2>3. QED
    BY <1>1, <1>8, <1>9, <1>13, <2>1, <2>2, EnclosedRead DEF ReadWell
<1>15. QED
  BY <1>4, <1>5, <1>7, <1>9, <1>14

\* Which values Around has.
LEMMA AroundIs ==
  ASSUME NEW D, NEW v
  PROVE  /\ v \in Plain => v \in Around(D) /\ v.type \notin Delimited
         /\ v \in [type : {"string"}, value : Seq(Byte)] => v \in Around(D) /\ v.type \in Delimited
         /\ v \in Around(D) =>
              \/ v \in [type : {"integer"}, value : Int]
              \/ v \in [type : {"float"}, value : {x \in Seq(Byte) : IsFloat(x) /\ x[1] # 43}]
              \/ v \in [type : {"atom"}, value : {"true", "false", "null"}]
              \/ v \in [type : {"string"}, value : Seq(Byte)]
              \/ v \in [type : {"array"}, value : Seq(D)]
              \/ v \in [type : {"object"}, value : Seq(PairsOver(D))]
<1>1. v \in Plain => v.type \in {"integer", "float", "atom"}
  BY DEF Plain
<1>2. v \in Plain => v.type \notin Delimited
  BY <1>1 DEF Delimited
<1>3. v \in [type : {"string"}, value : Seq(Byte)] => v.type \in Delimited
  BY DEF Delimited
<1>4. QED
  BY <1>2, <1>3 DEF Around, Plain

LEMMA AroundFits ==
  ASSUME NEW A, NEW B, NEW v
  PROVE  /\ v \in [type : {"array"}, value : Seq(A)] => (v \in Around(B) <=> v.value \in Seq(B))
         /\ v \in [type : {"object"}, value : Seq(PairsOver(A))] =>
              (v \in Around(B) <=> v.value \in Seq(PairsOver(B)))
<1>1. ASSUME v \in [type : {"array"}, value : Seq(A)] PROVE v \in Around(B) <=> v.value \in Seq(B)
  <2>1. v.type = "array" /\ v = [type |-> "array", value |-> v.value]
    BY <1>1
  <2>2. v.value \in Seq(B) => v \in [type : {"array"}, value : Seq(B)]
    BY <2>1
  <2>3. v \in Around(B) => v.value \in Seq(B)
    BY <2>1, AroundIs
  <2>4. QED
    BY <2>2, <2>3 DEF Around
<1>2. ASSUME v \in [type : {"object"}, value : Seq(PairsOver(A))]
      PROVE  v \in Around(B) <=> v.value \in Seq(PairsOver(B))
  <2>1. v.type = "object" /\ v = [type |-> "object", value |-> v.value]
    BY <1>2
  <2>2. v.value \in Seq(PairsOver(B)) => v \in [type : {"object"}, value : Seq(PairsOver(B))]
    BY <2>1
  <2>3. v \in Around(B) => v.value \in Seq(PairsOver(B))
    BY <2>1, AroundIs
  <2>4. QED
    BY <2>2, <2>3 DEF Around
<1>3. QED
  BY <1>1, <1>2

\* In no bytes, a text stands everywhere.
LEMMA InNothing ==
  ASSUME NEW t \in Seq(Byte)
  PROVE  <<>> \in Seq(Byte) /\ Standing(t, <<>>, 0) /\ SkipWs(<<>>, 0) = 0
<1> DEFINE b == <<>>
<1>1. b \in Seq(Byte) /\ Len(b) = 0 /\ Len(t) \in Nat
  BY EmptySeq, Bytes
<1> HIDE DEF b
<1>2. Stands(t, b, 0)
  BY <1>1 DEF Stands
<1>3. 0 + Len(t) \in Nat /\ 0 + Len(t) >= Len(b)
  BY <1>1
<1>4. At(b, 0 + Len(t)) = -1
  BY <1>1, <1>3, AtIs
<1>5. SkipWs(b, 0) = 0
  <2>1. 0 \in Nat /\ 0 >= Len(b)
    BY <1>1
  <2>2. QED
    BY <1>1, <2>1, Beyond
<1>6. -1 \in Ends
  BY DEF Ends
<1>7. QED
  BY <1>1, <1>2, <1>4, <1>5, <1>6 DEF Standing, b

\* A value with nothing inside it.
LEMMA LeafRead ==
  ASSUME NEW D, NEW v \in Around(D), v.type \notin {"array", "object"}, NEW inside, NEW meant,
         NEW blank, NEW b \in Seq(Byte), NEW d, NEW G, v \in G
  PROVE  ReadWell(TextOf(v, inside, blank), b, d, v, G, MeaningOf(v, meant))
<1> DEFINE t == TextOf(v, inside, blank)
<1>1. MeaningOf(v, meant) = v
  BY DEF MeaningOf
<1>2. /\ v.type = "string" => t = EncodeBinary(v.value)
      /\ v.type = "integer" => t = IntegerToBinary(v.value)
      /\ v.type = "float" => t = v.value
      /\ v.type = "atom" => t = AtomTexts[v.value]
  BY DEF TextOf
<1> DEFINE delimited == v.type = "string"
           Read(c, p, o) == Core(t) /\ ReadsTo(DecodeValue(c, d, p), t, c, o, TRUE, v, delimited)
<1> HIDE DEF t
<1>3. /\ t \in Seq(Byte)
      /\ \A c \in Seq(Byte) : \A p \in Nat : \A o \in Nat :
           Standing(t, c, o) /\ SkipWs(c, p) = o => Read(c, p, o)
  <2>1. CASE v \in [type : {"integer"}, value : Int]
    <3>1. v.type = "integer" /\ delimited = FALSE /\ v.value \in Int
      BY <2>1
    <3>2. IntegerText(t, v.value)
      BY <1>2, <3>1, IntegersArePrinted
    <3>3. t \in Seq(Byte)
      BY <3>2 DEF IntegerText
    <3>4. QED
      BY <1>2, <2>1, <3>1, <3>3, IntegerRead
  <2>2. CASE v \in [type : {"float"}, value : {x \in Seq(Byte) : IsFloat(x) /\ x[1] # 43}]
    <3>1. v.type = "float" /\ delimited = FALSE /\ v.value \in Seq(Byte)
      BY <2>2
    <3>2. QED
      BY <1>2, <2>2, <3>1, FloatRead
  <2>3. CASE v \in [type : {"atom"}, value : {"true", "false", "null"}]
    <3>1. v.type = "atom" /\ delimited = FALSE /\ v.value \in {"true", "false", "null"}
      BY <2>3
    <3>2. \A c \in 97 .. 117 : c \in Byte
      BY DEF Byte
    <3>3. AtomTexts[v.value] \in Seq(Byte)
      <4>1. /\ 116 \in Byte /\ 114 \in Byte /\ 117 \in Byte /\ 101 \in Byte /\ 102 \in Byte
            /\ 97 \in Byte /\ 108 \in Byte /\ 115 \in Byte /\ 110 \in Byte
        BY <3>2
      <4>2. /\ AtomTexts["true"] \in Seq(Byte)
            /\ AtomTexts["false"] \in Seq(Byte)
            /\ AtomTexts["null"] \in Seq(Byte)
        BY <4>1 DEF AtomTexts
      <4>3. QED
        BY <3>1, <4>2
    <3>4. QED
      BY <1>2, <2>3, <3>1, <3>3, AtomRead
  <2>4. CASE v \in [type : {"string"}, value : Seq(Byte)]
    <3>1. v.type = "string" /\ delimited = TRUE /\ v.value \in Seq(Byte)
      BY <2>4
    <3>2. t \in Seq(Byte)
      BY <1>2, <3>1, EncodeBinaryType
    <3>3. ASSUME NEW c \in Seq(Byte), NEW p \in Nat, NEW o \in Nat, Standing(t, c, o), SkipWs(c, p) = o
          PROVE  Core(t) /\ ReadsTo(DecodeValue(c, d, p), t, c, o, TRUE, v, TRUE)
      BY <1>2, <2>4, <3>1, <3>3, StringValueRead
    <3>4. QED
      BY <3>1, <3>2, <3>3 DEF ReadsTo
  <2>5. \/ v \in [type : {"integer"}, value : Int]
        \/ v \in [type : {"float"}, value : {x \in Seq(Byte) : IsFloat(x) /\ x[1] # 43}]
        \/ v \in [type : {"atom"}, value : {"true", "false", "null"}]
        \/ v \in [type : {"string"}, value : Seq(Byte)]
    BY AroundIs
  <2> HIDE DEF Read
  <2>6. QED
    BY <2>1, <2>2, <2>3, <2>4, <2>5
<1>4. Core(t)
  BY <1>3, InNothing
<1>5. v.type \in Delimited <=> v.type = "string"
  BY DEF Delimited
<1>6. QED
  BY <1>1, <1>3, <1>4, <1>5 DEF ReadWell, ReadsTo, ReadsOf, t

\* One value more around values that are read.
LEMMA ValueRead ==
  ASSUME NEW A, NEW v \in Around(A), NEW inside, NEW meant, NEW blank \in Seq(Blanks),
         NEW b \in Seq(Byte), NEW d, NEW F, AllRead(A, inside, meant, b, d, F)
  PROVE  ReadWell(TextOf(v, inside, blank), b, d, v, Around(F), MeaningOf(v, meant))
<1> DEFINE G == Around(F)
<1>1. CASE v \in [type : {"array"}, value : Seq(A)]
  <2>1. v \in G <=> v.value \in Seq(F)
    BY <1>1, AroundFits
  <2> HIDE DEF G
  <2>2. ReadWell(TextOf(v, inside, blank), b, d, v, G, MeaningOf(v, meant))
    BY <1>1, <2>1, ArrayRead
  <2>3. QED
    BY <2>2 DEF G
<1>2. CASE v \in [type : {"object"}, value : Seq(PairsOver(A))]
  <2>1. v \in G <=> v.value \in Seq(PairsOver(F))
    BY <1>2, AroundFits
  <2> HIDE DEF G
  <2>2. ReadWell(TextOf(v, inside, blank), b, d, v, G, MeaningOf(v, meant))
    BY <1>2, <2>1, ObjectRead
  <2>3. QED
    BY <2>2 DEF G
<1>3. CASE v \in Plain \/ v \in [type : {"string"}, value : Seq(Byte)]
  <2>1. v \in G
    BY <1>3, AroundIs
  <2>2. v.type \notin {"array", "object"}
    BY <1>3 DEF Plain
  <2> HIDE DEF G
  <2>3. ReadWell(TextOf(v, inside, blank), b, d, v, G, MeaningOf(v, meant))
    BY <2>1, <2>2, LeafRead
  <2>4. QED
    BY <2>3 DEF G
<1>4. QED
  BY <1>1, <1>2, <1>3 DEF Around

\* The documents with at most n values inside one another are read, however deep they may be.
AllDepths(n, b, blank) ==
  \A left \in Nat :
    AllRead(Documents[n], Printings(blank)[n], Meanings[n], b, Decoded(b)[left], Documents[left])

LEMMA DocumentsRead ==
  ASSUME NEW b \in Seq(Byte), NEW blank \in Seq(Blanks)
  PROVE  \A n \in Nat : AllDepths(n, b, blank)
<1> DEFINE T == {n \in Nat : AllDepths(n, b, blank)}
<1>1. 0 \in T
  BY DocumentsAre DEF AllDepths, AllRead
<1>2. ASSUME NEW n \in Nat, AllDepths(n, b, blank) PROVE AllDepths(n + 1, b, blank)
  <2> DEFINE inside == Printings(blank)[n]
             meant  == Meanings[n]
             D      == Documents[n + 1]
  <2>1. ASSUME NEW v \in D, NEW left \in Nat
        PROVE  /\ Core(Printings(blank)[n + 1][v])
               /\ Reading(Decoded(b)[left], Printings(blank)[n + 1][v], b, v, Documents[left],
                          Meanings[n + 1][v])
    <3> DEFINE t == Printings(blank)[n + 1][v]
               m == Meanings[n + 1][v]
    <3>1. t = TextOf(v, inside, blank) /\ m = MeaningOf(v, meant)
      BY TextsAre, MeaningsAre
    <3>2. v \in Around(Documents[n])
      BY DocumentsAre
    <3> HIDE DEF t, m
    <3>3. ASSUME NEW below \in Nat
          PROVE  ReadWell(t, b, Decoded(b)[below], v, Documents[below + 1], m)
      <4>1. AllRead(Documents[n], inside, meant, b, Decoded(b)[below], Documents[below])
        BY <1>2 DEF AllDepths
      <4>2. ReadWell(TextOf(v, inside, blank), b, Decoded(b)[below], v, Around(Documents[below]),
                     MeaningOf(v, meant))
        BY <3>2, <4>1, ValueRead
      <4>3. Documents[below + 1] = Around(Documents[below])
        BY DocumentsAre
      <4>4. QED
        BY <3>1, <4>2, <4>3
    <3>4. Core(t)
      <4>1. ReadWell(t, b, Decoded(b)[0], v, Documents[0 + 1], m)
        BY <3>3
      <4>2. QED
        BY <4>1 DEF ReadWell
    <3>5. CASE left = 0
      <4>1. \A p \in Nat : Decoded(b)[left][p] = NoJson
        BY <3>5, DecodedIs
      <4>2. v \notin Documents[left]
        BY <3>5, DocumentsAre
      <4> DEFINE r == Decoded(b)[left]
                 F == Documents[left]
      <4> HIDE DEF r, F
      <4>3. Reading(r, t, b, v, F, m)
        BY <4>1, <4>2 DEF r, F, Reading, ReadsOf, NoJson
      <4>4. QED
        BY <3>4, <4>3 DEF r, F, t, m
    <3>6. CASE left # 0
      <4>1. PICK below \in Nat : left = below + 1
        <5>1. left - 1 \in Nat /\ left = left - 1 + 1
          BY <3>6
        <5>2. QED
          BY <5>1
      <4>2. \A p \in Nat : Decoded(b)[left][p] = DecodeValue(b, Decoded(b)[below], p)
        BY <4>1, DecodedIs
      <4>3. ReadWell(t, b, Decoded(b)[below], v, Documents[left], m)
        BY <3>3, <4>1
      <4>4. ASSUME NEW p \in Nat, At(b, SkipWs(b, p)) = -1 PROVE Decoded(b)[left][p] = NoJson
        <5> DEFINE o == SkipWs(b, p)
        <5>1. At(b, o) = -1
          BY <4>4
        <5> HIDE DEF o
        <5>2. DecodeValue(b, Decoded(b)[below], p) = NoJson
          BY <5>1, FirstByte DEF o
        <5>3. QED
          BY <4>2, <5>2
      <4>5. Reading(Decoded(b)[left], t, b, v, Documents[left], m)
        BY <4>2, <4>3, <4>4 DEF Reading, ReadWell
      <4>6. QED
        BY <3>4, <4>5 DEF t, m
    <3>7. QED
      BY <3>5, <3>6
  <2>2. QED
    BY <2>1 DEF AllDepths, AllRead
<1>3. T \in SUBSET Nat /\ \A n \in T : n + 1 \in T
  BY <1>2
<1> HIDE DEF T
<1>4. T = Nat
  BY <1>1, <1>3, SetInduction
<1>5. QED
  BY <1>4 DEF T

\* A document that is printed, of which the first k bytes are there.
Printing(v, n, blank) == (blank \o Printings(blank)[n][v]) \o blank

PrintedAs(text, t, blank) ==
  LET w == t \o blank
  IN  /\ blank \in Seq(Byte) /\ Len(blank) \in Nat /\ text = blank \o w
      /\ t \in Seq(Byte) /\ Len(t) \in Nat /\ Len(t) > 0 /\ t[1] \notin Blanks
      /\ w \in Seq(Byte) /\ Len(w) = Len(t) + Len(blank) /\ Len(w) > 0 /\ w[1] = t[1]
      /\ text \in Seq(Byte) /\ Len(text) \in Nat /\ Len(text) = Len(blank) + Len(w)
      /\ SubSeq(text, 1, Len(text)) = text

LEMMA PrintingIs ==
  ASSUME NEW n \in Nat, NEW v \in Documents[n], NEW blank \in Seq(Blanks)
  PROVE  PrintedAs(Printing(v, n, blank), Printings(blank)[n][v], blank)
<1> DEFINE text == Printing(v, n, blank)
           t    == Printings(blank)[n][v]
           o    == Len(blank)
           w    == t \o blank
<1>1. blank \in Seq(Byte) /\ o \in Nat /\ <<>> \in Seq(Byte)
  BY BlankType
<1>2. Core(t)
  <2>1. AllDepths(n, <<>>, blank)
    BY <1>1, DocumentsRead
  <2>2. 0 \in Nat
    OBVIOUS
  <2>3. QED
    BY <2>1, <2>2 DEF AllDepths, AllRead
<1>3. t \in Seq(Byte) /\ Len(t) \in Nat /\ Len(t) > 0 /\ t[1] \notin Blanks
  BY <1>2, CoreIs DEF Core
<1>4. text = (blank \o t) \o blank
  BY DEF Printing
<1> HIDE DEF t, text
<1>5. w \in Seq(Byte) /\ Len(w) = Len(t) + o /\ w[1] = t[1]
  <2>1. 1 \in 1 .. Len(t)
    BY <1>3
  <2>2. QED
    BY <1>1, <1>3, <2>1, Joined
<1>6. text = blank \o w
  BY <1>1, <1>3, <1>4, ThreeJoined
<1> HIDE DEF w
<1>7. text \in Seq(Byte) /\ Len(text) = o + Len(w)
  BY <1>1, <1>5, <1>6, Joined
<1>8. Len(text) \in Nat /\ SubSeq(text, 1, Len(text)) = text
  BY <1>7, Bytes
<1>9. Len(w) > 0 /\ Len(text) = Len(blank) + Len(w)
  BY <1>1, <1>3, <1>5, <1>7
<1>10. PrintedAs(text, t, blank)
  BY <1>1, <1>3, <1>5, <1>6, <1>7, <1>8, <1>9, Zenon DEF PrintedAs, w
<1>11. QED
  BY <1>10 DEF t, text

LEMMA PrintingRead ==
  ASSUME NEW n \in Nat, NEW v \in Documents[n], NEW blank \in Seq(Blanks), NEW left \in Nat,
         NEW k \in 0 .. Len(Printing(v, n, blank))
  PROVE  LET text == Printing(v, n, blank)
             b    == SubSeq(text, 1, k)
             r    == Decoded(b)[left][0]
             end  == Len(text) - Len(blank)
         IN  /\ b \in Seq(Byte) /\ Len(b) = k
             /\ k >= end => r = IF v \in Documents[left] THEN Json(Meanings[n][v], end) ELSE NoJson
             /\ k < end /\ v.type \in Delimited => ~r.ok
<1> DEFINE text == Printing(v, n, blank)
           t    == Printings(blank)[n][v]
           b    == SubSeq(text, 1, k)
           d    == Decoded(b)[left]
           r    == d[0]
           o    == Len(blank)
           w    == t \o blank
           m    == Meanings[n][v]
           end  == o + Len(t)
<1>1. PrintedAs(text, t, blank)
  BY PrintingIs
<1>2. blank \in Seq(Byte) /\ o \in Nat
  BY BlankType
<1> HIDE DEF t, text
<1>3. t \in Seq(Byte) /\ Len(t) \in Nat /\ Len(t) > 0 /\ t[1] \notin Blanks
  BY <1>1 DEF PrintedAs
<1>5. /\ w \in Seq(Byte) /\ Len(w) = Len(t) + o /\ Len(w) > 0 /\ w[1] = t[1]
      /\ text = blank \o w /\ text \in Seq(Byte) /\ Len(text) = o + Len(w) /\ Len(text) \in Nat
      /\ SubSeq(text, 1, Len(text)) = text
  BY <1>1 DEF PrintedAs
<1>6. b \in Seq(Byte) /\ Len(b) = k /\ Stands(text, b, 0) /\ k \in Nat /\ k <= Len(text)
  <2>1. k \in 0 .. Len(text) /\ text \in Seq(Byte) /\ Len(text) \in Nat
    BY <1>5 DEF text
  <2>2. k \in Nat /\ k <= Len(text)
    BY <2>1
  <2>3. Stands(text, SubSeq(text, 1, k), 0) /\ SubSeq(text, 1, k) \in Seq(Byte) /\ Len(SubSeq(text, 1, k)) = k
    BY <2>1, StandsInItself
  <2>4. QED
    BY <2>2, <2>3
<1> HIDE DEF b, d
<1>7. Stands(blank \o w, b, 0) /\ Stands(w, b, o)
  <2>1. Stands(blank \o w, b, 0)
    BY <1>5, <1>6
  <2>2. 0 + Len(blank) = o
    BY <1>2
  <2> HIDE DEF w, o
  <2>3. Stands(w, b, 0 + Len(blank))
    BY <1>2, <1>5, <1>6, <2>1, StandsJoined
  <2>4. QED
    BY <2>1, <2>2, <2>3
<1>8. Stands(t, b, o) /\ Stands(blank, b, end) /\ end \in Nat
  BY <1>2, <1>3, <1>6, <1>7, StandsJoined
<1>9. At(b, end) \in Ends
  <2>1. CASE end >= k
    <3>1. At(b, end) = -1
      BY <1>6, <1>8, <2>1, AtIs
    <3>2. QED
      BY <3>1 DEF Ends
  <2>2. CASE end < k
    <3>1. 0 < Len(blank) /\ 1 \in 1 .. Len(blank)
      BY <1>2, <1>3, <1>5, <1>6, <2>2
    <3>2. At(b, end + 0) = blank[0 + 1]
      BY <1>2, <1>6, <1>8, <2>2, <3>1, StandsAt
    <3>3. At(b, end) = blank[1] /\ blank[1] \in Blanks
      BY <1>8, <3>1, <3>2, BlankType
    <3>4. QED
      BY <3>3 DEF Ends
  <2>3. QED
    BY <1>6, <1>8, <2>1, <2>2
<1>10. Standing(t, b, o)
  BY <1>8, <1>9 DEF Standing
<1>11. /\ o < Len(b) => SkipWs(b, 0) = o
       /\ o >= Len(b) => At(b, SkipWs(b, 0)) = -1
  <2>1. Len(w) > 0 /\ w[1] \notin Blanks /\ w \in Seq(Byte)
    BY <1>3, <1>5
  <2>2. 0 + Len(blank) = o
    BY <1>2
  <2> HIDE DEF w, o
  <2>3. LET q == 0 + Len(blank)
        IN  /\ q \in Nat /\ Stands(w, b, q)
            /\ q < Len(b) => SkipWs(b, 0) = q /\ At(b, q) = w[1]
            /\ q >= Len(b) => SkipWs(b, 0) \in Nat /\ SkipWs(b, 0) >= Len(b) /\ At(b, SkipWs(b, 0)) = -1
    BY <1>6, <1>7, <2>1, SkippedTo
  <2>4. QED
    BY <2>2, <2>3
<1>12. Reading(d, t, b, v, Documents[left], m)
  <2>1. AllDepths(n, b, blank)
    BY <1>6, DocumentsRead
  <2>2. QED
    BY <2>1 DEF AllDepths, AllRead, t, d
<1> DEFINE F == Documents[left]
<1> HIDE DEF m, F
<1>13. /\ k >= end => r = IF v \in F THEN Json(m, end) ELSE NoJson
       /\ k < end /\ v.type \in Delimited => ~r.ok
  <2>1. CASE o < Len(b)
    <3>1. 0 \in Nat /\ SkipWs(b, 0) = o
      BY <1>11, <2>1
    <3>2. ReadsOf(r, t, b, o, v, F, m)
      BY <1>2, <1>10, <1>12, <3>1 DEF Reading, F
    <3>3. QED
      BY <1>6, <3>2 DEF ReadsOf
  <2>2. CASE o >= Len(b)
    <3>1. r = NoJson
      BY <1>11, <1>12, <2>2 DEF Reading
    <3>2. k < end
      BY <1>2, <1>3, <1>6, <2>2
    <3>3. QED
      BY <1>6, <1>8, <3>1, <3>2 DEF NoJson
  <2>3. QED
    BY <1>2, <1>6, <2>1, <2>2
<1>14. end = Len(text) - Len(blank) /\ end \in 0 .. Len(text) /\ Len(text) \in Nat
  BY <1>2, <1>3, <1>5
<1> HIDE DEF end
<1>15. QED
  BY <1>2, <1>5, <1>6, <1>13, <1>14 DEF text, b, d, m, F

\* A printed document is read back, whatever strings, numbers and blanks are in it, exactly when
\* it is neither too long nor too deep (json.erl:20-24, 97).
THEOREM JsonIsRead ==
  ASSUME NEW x, IsDocument(x)
  PROVE  IsReadWithinLimits(Printed(x), x)
<1> DEFINE n     == x.n
           v     == x.value
           blank == x.blank
           left  == MaxDepth + 1
           text  == Printing(v, n, blank)
           k     == Len(text)
           r     == Decoded(text)[left][0]
           m     == Meanings[n][v]
<1>1. n \in Nat /\ v \in Documents[n] /\ blank \in Seq(Blanks) /\ left \in Nat
  BY LimitsAssumption DEF IsDocument
<1>2. Printed(x) = text
  BY DEF Printed, Printing
<1> HIDE DEF n, v, blank, left
<1>3. k \in Nat /\ SubSeq(text, 1, k) = text /\ k >= k - Len(blank)
  <2>1. PrintedAs(text, Printings(blank)[n][v], blank)
    BY <1>1, PrintingIs
  <2> HIDE DEF text
  <2>2. Len(text) \in Nat /\ Len(blank) \in Nat /\ SubSeq(text, 1, Len(text)) = text
    BY <2>1, Zenon DEF PrintedAs
  <2>3. QED
    BY <2>2
<1>4. r = IF v \in Documents[left] THEN Json(m, k - Len(blank)) ELSE NoJson
  <2>1. k \in 0 .. Len(Printing(v, n, blank))
    BY <1>3
  <2>2. k >= Len(Printing(v, n, blank)) - Len(blank)
    BY <1>3
  <2>3. SubSeq(Printing(v, n, blank), 1, k) = text
    BY <1>3
  <2> HIDE DEF k
  <2>4. Decoded(SubSeq(Printing(v, n, blank), 1, k))[left][0] =
          IF v \in Documents[left]
          THEN Json(Meanings[n][v], Len(Printing(v, n, blank)) - Len(blank)) ELSE NoJson
    BY <1>1, <2>1, <2>2, PrintingRead
  <2>5. QED
    BY <2>3, <2>4 DEF k
<1>5. DecodeJson(text) = IF k > MaxJsonSize THEN NoJson ELSE r
  BY DEF DecodeJson, left
<1> HIDE DEF text, r, m, k
<1>6. CASE k <= MaxJsonSize /\ v \in Documents[left]
  <2>1. DecodeJson(text) = Json(m, k - Len(blank))
    BY <1>3, <1>4, <1>5, <1>6, LimitsAssumption
  <2>2. ReadsAs(DecodeJson(text), m)
    BY <2>1 DEF ReadsAs, Json
  <2>3. QED
    BY <1>2, <1>6, <2>2 DEF IsReadWithinLimits, m, n, v, k, left
<1>7. CASE ~(k <= MaxJsonSize /\ v \in Documents[left])
  <2>1. DecodeJson(text) = NoJson
    BY <1>3, <1>4, <1>5, <1>7, LimitsAssumption
  <2>2. ~DecodeJson(text).ok
    BY <2>1 DEF NoJson
  <2>3. QED
    BY <1>2, <1>7, <2>2 DEF IsReadWithinLimits, v, k, left
<1>8. QED
  BY <1>6, <1>7

\* Of a string, an array or an object that is cut short no value is made, wherever the cut is
\* and whatever stands inside (json.erl:26-45).
THEOREM CutsAreNoValues ==
  ASSUME NEW x, IsDocument(x), x.value.type \in Delimited
  PROVE  RefusedWhenCut(Printed(x), Len(Printed(x)) - Len(x.blank))
<1> DEFINE n     == x.n
           v     == x.value
           blank == x.blank
           left  == MaxDepth + 1
           text  == Printing(v, n, blank)
           end   == Len(text) - Len(blank)
<1>1. n \in Nat /\ v \in Documents[n] /\ blank \in Seq(Blanks) /\ left \in Nat /\ v.type \in Delimited
  BY LimitsAssumption DEF IsDocument
<1>2. Printed(x) = text
  BY DEF Printed, Printing
<1> HIDE DEF n, v, blank, left
<1>3. Len(text) \in Nat /\ Len(blank) \in Nat
  <2>1. PrintedAs(text, Printings(blank)[n][v], blank)
    BY <1>1, PrintingIs
  <2>2. QED
    BY <2>1 DEF PrintedAs
<1>4. ASSUME NEW k \in 0 .. end - 1 PROVE ~DecodeJson(SubSeq(text, 1, k)).ok
  <2> DEFINE b == SubSeq(text, 1, k)
  <2>1. k \in 0 .. Len(text) /\ k < end
    BY <1>3
  <2>2. ~Decoded(b)[left][0].ok
    BY <1>1, <2>1, PrintingRead
  <2> HIDE DEF b
  <2>3. DecodeJson(b) = NoJson \/ DecodeJson(b) = Decoded(b)[left][0]
    BY DEF DecodeJson, left
  <2>4. ~DecodeJson(b).ok
    BY <2>2, <2>3 DEF NoJson
  <2>5. QED
    BY <2>4 DEF b
<1>5. RefusedWhenCut(text, end)
  BY <1>4 DEF RefusedWhenCut
<1>6. QED
  BY <1>2, <1>5 DEF blank

\* What gleam_json writes is read back within the limits, in every run.
THEOREM JsonStaysRead == Spec => []JsonReadsBack
<1>1. shim \in DOMAIN Inputs /\ input \in Inputs[shim] => JsonReadsBack
  BY JsonAssumption, JsonIsRead DEF JsonReadsBack
<1>2. QED
  BY <1>1, InputsAreTried, PTL

\* No value is made of a part of a document, in every run.
THEOREM CutsStayRefused == Spec => []CutsAreRefused
<1>1. shim \in DOMAIN Inputs /\ input \in Inputs[shim] => CutsAreRefused
  BY JsonAssumption, CutsAreNoValues DEF CutsAreRefused, Delimited
<1>2. QED
  BY <1>1, InputsAreTried, PTL
=============================================================================
