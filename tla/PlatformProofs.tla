---------------------------- MODULE PlatformProofs --------------------------
(***************************************************************************)
(* What the platform layer promises the guest, for every table of atoms    *)
(* AtomVM starts with, every chunk size and argument of strong_rand_bytes, *)
(* every set of processes and every behaviour of the worker's clock.       *)
(***************************************************************************)
EXTENDS Platform, NatProofs, SequenceTheorems

LEMMA Constants ==
  /\ Chunk \in Nat /\ Chunk > 0 /\ EntropyCap \in Nat /\ Chunk <= EntropyCap
  /\ \A a \in Arguments : a \in Int
  /\ NsPerMs \in Nat /\ NsPerMs > 0 /\ NsPerSec \in Nat /\ NsPerSec > 0
  /\ \A ms \in Timeouts : ms \in Nat
  /\ MaxNow \in Nat /\ MaxNow > 0 /\ MaxBack \in Nat
  BY ChunkAssumption, ArgumentsAssumption, TimeAssumption

-----------------------------------------------------------------------------
(* The strings.  A text of n characters of ASCII has n units and n bytes,  *)
(* and a sum is at least each of the offsets on the way to it: two         *)
(* inductions over the sums.                                               *)

LEMMA SumSteps ==
  ASSUME NEW len \in Nat, NEW w \in [1 .. len -> Nat]
  PROVE  /\ Len(w) = len /\ SumUpTo(w) \in [0 .. len -> Nat] /\ SumUpTo(w)[0] = 0
         /\ \A k \in 1 .. len : SumUpTo(w)[k] = SumUpTo(w)[k - 1] + w[k]
<1>1. Len(w) = len
  <2>1. w \in Seq(Nat)
    BY SeqDef
  <2>2. QED
    BY <2>1, LenProperties
<1> DEFINE adds == [k \in Nat |-> [x \in Nat |-> IF k < len THEN x + w[k + 1] ELSE x]]
<1>2. Within(Nat, 0, adds)
  BY DEF Within
<1>3. \A k \in 0 .. len - 1 : \A x \in Nat : adds[k][x] = x + w[k + 1]
  OBVIOUS
<1> HIDE DEF adds
<1>4. PICK f : Solves(f, Nat, 0, adds)
  BY <1>2, Recursion
<1> DEFINE sum == [k \in 0 .. len |-> f[k]]
<1>5. \A k \in 0 .. len : sum[k] = IF k = 0 THEN 0 ELSE sum[k - 1] + w[k]
  <2> TAKE k \in 0 .. len
  <2>1. CASE k # 0
    <3>1. k - 1 \in 0 .. len - 1 /\ k - 1 + 1 = k
      BY <2>1
    <3>2. f[k - 1 + 1] = adds[k - 1][f[k - 1]] /\ f[k - 1] \in Nat
      <4>1. \A j \in Nat : f[j + 1] = adds[j][f[j]] /\ f[j] \in Nat
        BY <1>4 DEF Solves
      <4>2. QED
        BY <3>1, <4>1
    <3>3. f[k] = f[k - 1] + w[k]
      BY <1>3, <3>1, <3>2
    <3>4. QED
      BY <2>1, <3>1, <3>3
  <2>2. QED
    BY <1>4, <2>1 DEF Solves
<1>6. sum \in [0 .. len -> Nat]
  <2>1. f \in [Nat -> Nat]
    BY <1>4 DEF Solves
  <2>2. \A k \in 0 .. len : k \in Nat /\ f[k] \in Nat
    BY <2>1
  <2>3. QED
    BY <2>2
<1> HIDE DEF sum
<1>7. sum = [k \in 0 .. len |-> IF k = 0 THEN 0 ELSE sum[k - 1] + w[k]]
  BY <1>5, <1>6
<1>8. SumUpTo(w) = [k \in 0 .. len |-> IF k = 0 THEN 0 ELSE SumUpTo(w)[k - 1] + w[k]]
  BY <1>1, <1>7 DEF SumUpTo
<1> DEFINE T == {k \in Nat : k <= len => SumUpTo(w)[k] \in Nat}
<1>9. 0 \in T /\ \A k \in T : k + 1 \in T
  <2>1. ASSUME NEW k \in T PROVE k + 1 \in T
    <3>1. CASE k + 1 <= len
      <4>1. k + 1 \in 1 .. len /\ SumUpTo(w)[k + 1] = SumUpTo(w)[k] + w[k + 1]
        BY <1>8, <3>1
      <4>2. QED
        BY <3>1, <4>1
    <3>2. QED
      BY <3>1
  <2>2. QED
    BY <1>8, <2>1
<1>10. T \in SUBSET Nat
  OBVIOUS
<1>11. T = Nat
  <2> HIDE DEF T
  <2>1. QED
    BY <1>9, <1>10, SetInduction
<1>12. \A k \in 0 .. len : SumUpTo(w)[k] \in Nat
  BY <1>11
<1>13. SumUpTo(w) \in [0 .. len -> Nat]
  BY <1>8, <1>12
<1>14. QED
  BY <1>1, <1>8, <1>13

\* A sum of ones.
LEMMA SumOfOnes ==
  ASSUME NEW len \in Nat, NEW w \in [1 .. len -> Nat], \A k \in 1 .. len : w[k] = 1
  PROVE  Sum(w) = len
<1> DEFINE T == {k \in Nat : k <= len => SumUpTo(w)[k] = k}
<1>1. ASSUME NEW k \in T PROVE k + 1 \in T
  <2>1. CASE k + 1 <= len
    <3>1. k + 1 \in 1 .. len
      BY <2>1
    <3>2. SumUpTo(w)[k + 1] = SumUpTo(w)[k] + w[k + 1]
      <4>1. \A j \in 1 .. len : SumUpTo(w)[j] = SumUpTo(w)[j - 1] + w[j]
        BY SumSteps
      <4>2. k + 1 - 1 = k
        OBVIOUS
      <4>3. QED
        BY <3>1, <4>1, <4>2
    <3>3. QED
      BY <2>1, <3>1, <3>2
  <2>2. QED
    BY <2>1
<1>2. 0 \in T /\ T \in SUBSET Nat
  BY SumSteps
<1>3. T = Nat
  <2> HIDE DEF T
  <2>1. QED
    BY <1>1, <1>2, SetInduction
<1>4. QED
  BY <1>3, SumSteps DEF Sum

\* What is summed up before an element that counts is less than the whole sum.
LEMMA SumBefore ==
  ASSUME NEW len \in Nat, NEW w \in [1 .. len -> Nat], NEW i \in 1 .. len, w[i] > 0
  PROVE  SumUpTo(w)[i - 1] < Sum(w)
<1> DEFINE T == {k \in Nat : i + k <= len => SumUpTo(w)[i + k] > SumUpTo(w)[i - 1]}
<1>0. /\ \A k \in 1 .. len : SumUpTo(w)[k] = SumUpTo(w)[k - 1] + w[k]
      /\ \A k \in 0 .. len : SumUpTo(w)[k] \in Nat
  BY SumSteps
<1>1. ASSUME NEW k \in T PROVE k + 1 \in T
  <2>1. CASE i + (k + 1) <= len
    <3>1. i + (k + 1) \in 1 .. len /\ i + (k + 1) - 1 = i + k /\ i + k \in 0 .. len
          /\ i - 1 \in 0 .. len
      BY <2>1
    <3>2. SumUpTo(w)[i + (k + 1)] = SumUpTo(w)[i + k] + w[i + (k + 1)]
      BY <1>0, <3>1
    <3>3. w[i + (k + 1)] \in Nat
      BY <3>1
    <3>4. QED
      BY <1>0, <2>1, <3>1, <3>2, <3>3
  <2>2. QED
    BY <2>1
<1>2. 0 \in T
  <2>1. i + 0 = i /\ i - 1 \in 0 .. len
    OBVIOUS
  <2>2. QED
    BY <1>0, <2>1
<1>3. T \in SUBSET Nat
  OBVIOUS
<1>4. T = Nat
  <2> HIDE DEF T
  <2>1. QED
    BY <1>1, <1>2, <1>3, SetInduction
<1>5. len - i \in Nat /\ i + (len - i) = len
  OBVIOUS
<1>6. Len(w) = len
  BY SumSteps
<1>7. len - i \in T
  BY <1>4, <1>5
<1>8. SumUpTo(w)[len] > SumUpTo(w)[i - 1]
  BY <1>5, <1>7
<1>9. SumUpTo(w)[len] \in Nat /\ SumUpTo(w)[i - 1] \in Nat
  BY <1>0
<1>10. QED
  BY <1>6, <1>8, <1>9 DEF Sum

\* Strings of ASCII have as many units and as many bytes as characters.
LEMMA AsciiSize ==
  ASSUME NEW string \in Seq(Char), \A k \in DOMAIN string : string[k] = "ascii"
  PROVE  length(string) = Len(string) /\ encode(string) = Len(string)
<1> DEFINE len == Len(string)
           units == [i \in DOMAIN string |-> Units(string[i])]
           bytes == [i \in DOMAIN string |-> Utf8(string[i])]
<1>1. len \in Nat /\ DOMAIN string = 1 .. len
  BY LenProperties
<1>2. \A k \in 1 .. len : Units(string[k]) = 1 /\ Utf8(string[k]) = 1
  BY <1>1 DEF Units, Utf8
<1>3. /\ units \in [1 .. len -> Nat] /\ \A k \in 1 .. len : units[k] = 1
      /\ bytes \in [1 .. len -> Nat] /\ \A k \in 1 .. len : bytes[k] = 1
  BY <1>1, <1>2
<1> HIDE DEF len, units, bytes
<1>4. Sum(units) = len /\ Sum(bytes) = len
  BY <1>1, <1>3, SumOfOnes
<1>5. QED
  BY <1>4 DEF length, encode, len, units, bytes

\* Strings that end in a NUL.
LEMMA TerminatedTexts ==
  ASSUME NEW texts \in Seq(Seq(Char))
  PROVE  /\ Terminated(texts) \in Seq(Seq(Char)) /\ Len(Terminated(texts)) = Len(texts)
         /\ DOMAIN Terminated(texts) = DOMAIN texts
         /\ \A i \in DOMAIN texts :
              /\ Terminated(texts)[i] = Append(texts[i], NUL)
              /\ Len(Terminated(texts)[i]) = Len(texts[i]) + 1
         /\ Ascii(texts) => Ascii(Terminated(texts))
<1> DEFINE len == Len(texts)
<1>1. len \in Nat /\ DOMAIN texts = 1 .. len /\ \A i \in 1 .. len : texts[i] \in Seq(Char)
  BY LenProperties, ElementOfSeq
<1>2. ASSUME NEW i \in 1 .. len
      PROVE  /\ Append(texts[i], NUL) \in Seq(Char)
             /\ Len(Append(texts[i], NUL)) = Len(texts[i]) + 1
             /\ \A k \in 1 .. Len(texts[i]) : Append(texts[i], NUL)[k] = texts[i][k]
             /\ Append(texts[i], NUL)[Len(texts[i]) + 1] = "ascii"
  <2>1. texts[i] \in Seq(Char) /\ NUL \in Char
    BY <1>1 DEF NUL, Char
  <2>2. QED
    BY <2>1, AppendProperties DEF NUL
<1>3. /\ Terminated(texts) \in [1 .. len -> Seq(Char)]
      /\ \A i \in 1 .. len : Terminated(texts)[i] = Append(texts[i], NUL)
  BY <1>1, <1>2 DEF Terminated
<1> HIDE DEF len
<1>4. Terminated(texts) \in Seq(Seq(Char))
  <2> DEFINE S == Seq(Char)
             t == Terminated(texts)
  <2>1. t \in [1 .. len -> S] /\ len \in Nat
    BY <1>1, <1>3 DEF len
  <2> HIDE DEF S, t, len
  <2>2. t \in Seq(S)
    BY <2>1, SeqDef
  <2>3. QED
    BY <2>2 DEF S, t
<1>5. DOMAIN Terminated(texts) = 1 .. len /\ Len(Terminated(texts)) = len
  BY <1>1, <1>3, <1>4, LenProperties
<1>6. ASSUME Ascii(texts), NEW i \in 1 .. len, NEW k \in DOMAIN Terminated(texts)[i]
      PROVE  Terminated(texts)[i][k] = "ascii"
  <2>1. /\ Len(texts[i]) \in Nat /\ DOMAIN texts[i] = 1 .. Len(texts[i])
        /\ DOMAIN Append(texts[i], NUL) = 1 .. Len(texts[i]) + 1
    BY <1>1, <1>2, LenProperties
  <2>2. CASE k \in 1 .. Len(texts[i])
    BY <1>1, <1>2, <1>3, <1>6, <2>1, <2>2 DEF Ascii
  <2>3. CASE k = Len(texts[i]) + 1
    BY <1>2, <1>3, <2>3
  <2>4. QED
    BY <1>3, <2>1, <2>2, <2>3
<1>7. QED
  BY <1>1, <1>2, <1>3, <1>4, <1>5, <1>6 DEF Ascii, len

\* What is placed fits what was counted, when each string is counted with the bytes it has
\* and has any.
LEMMA PlacedFits ==
  ASSUME NEW len \in Nat, NEW entries, DOMAIN entries = 1 .. len,
         NEW counts \in [1 .. len -> Nat],
         \A i \in 1 .. len : encode(entries[i]) = counts[i] /\ counts[i] > 0
  PROVE  /\ Placed(entries).next = Sum(counts)
         /\ DOMAIN Placed(entries).at = 1 .. len
         /\ \A i \in 1 .. len : Placed(entries).at[i] < Sum(counts)
<1> DEFINE sizes == [i \in DOMAIN entries |-> encode(entries[i])]
<1>1. sizes = counts
  OBVIOUS
<1>2. /\ Placed(entries).next = Sum(sizes)
      /\ Placed(entries).at = [i \in 1 .. len |-> SumUpTo(sizes)[i - 1]]
  BY DEF Placed
<1> HIDE DEF sizes
<1>3. \A i \in 1 .. len : SumUpTo(counts)[i - 1] < Sum(counts)
  BY SumBefore
<1>4. QED
  BY <1>1, <1>2, <1>3

\* Before main runs nothing is placed; then everything is, within its room.
EnvironInv ==
  /\ strings.args \in Seq(Seq(Char))
  /\ \E env \in Environments : strings.environ = envEntries(env)
  /\ StringsFit

LEMMA EnvironInit == EInit => EnvironInv
<1> SUFFICES ASSUME EInit PROVE EnvironInv
  OBVIOUS
<1>1. /\ strings.args = Args /\ \E env \in Environments : strings.environ = envEntries(env)
      /\ \A kind \in {"args", "environ"} :
           size[kind] = 0 /\ written[kind] = 0 /\ DOMAIN pointers[kind] = {}
  BY DEF EInit
<1>2. QED
  BY <1>1, StringsAssumption DEF EnvironInv, StringsFit

LEMMA EnvironStay == EnvironInv /\ UNCHANGED evars => EnvironInv'
  BY DEF EnvironInv, StringsFit, evars

LEMMA ArgsFit ==
  ASSUME NEW args \in Seq(Seq(Char)), Ascii(args)
  PROVE  /\ args_get(args).next = args_sizes_get(args)
         /\ \A i \in DOMAIN args_get(args).at : args_get(args).at[i] < args_sizes_get(args)
<1> DEFINE len == Len(args)
           counts == [i \in DOMAIN args |-> length(args[i]) + 1]
<1>1. len \in Nat /\ DOMAIN args = 1 .. len /\ \A i \in 1 .. len : args[i] \in Seq(Char)
  BY LenProperties, ElementOfSeq
<1>2. /\ DOMAIN Terminated(args) = 1 .. len /\ Ascii(Terminated(args))
      /\ \A i \in 1 .. len : /\ Terminated(args)[i] \in Seq(Char)
                            /\ Len(Terminated(args)[i]) = Len(args[i]) + 1
  BY <1>1, TerminatedTexts, ElementOfSeq
<1>3. ASSUME NEW i \in 1 .. len
      PROVE  /\ length(args[i]) = Len(args[i]) /\ Len(args[i]) \in Nat
             /\ encode(Terminated(args)[i]) = Len(args[i]) + 1
  BY <1>1, <1>2, AsciiSize, LenProperties DEF Ascii
<1>4. counts \in [1 .. len -> Nat] /\ \A i \in 1 .. len : counts[i] = Len(args[i]) + 1
  BY <1>1, <1>3
<1>5. args_sizes_get(args) = Sum(counts)
  BY DEF args_sizes_get
<1> HIDE DEF len, counts
<1>6. \A i \in 1 .. len : encode(Terminated(args)[i]) = counts[i] /\ counts[i] > 0
  BY <1>3, <1>4
<1> DEFINE ended == Terminated(args)
<1>7. DOMAIN ended = 1 .. len /\ \A i \in 1 .. len : encode(ended[i]) = counts[i] /\ counts[i] > 0
  BY <1>2, <1>6
<1>8. args_get(args) = Placed(ended)
  BY DEF args_get
<1> HIDE DEF ended
<1>9. /\ Placed(ended).next = Sum(counts) /\ DOMAIN Placed(ended).at = 1 .. len
      /\ \A i \in 1 .. len : Placed(ended).at[i] < Sum(counts)
  BY ONLY <1>1, <1>4, <1>7, PlacedFits
<1>10. QED
  BY <1>5, <1>8, <1>9

LEMMA BindingsFit ==
  ASSUME NEW env \in Seq(Seq(Char)), NEW entries, entries = envEntries(env), Ascii(entries)
  PROVE  /\ environ_get(entries).next = environ_sizes_get(entries)
         /\ \A i \in DOMAIN environ_get(entries).at :
              environ_get(entries).at[i] < environ_sizes_get(entries)
<1> DEFINE len == Len(env)
           counts == [i \in DOMAIN entries |-> length(entries[i])]
<1>1. len \in Nat /\ DOMAIN env = 1 .. len /\ \A i \in 1 .. len : env[i] \in Seq(Char)
  BY LenProperties, ElementOfSeq
<1>2. /\ DOMAIN entries = 1 .. len
      /\ \A i \in 1 .. len : entries[i] \in Seq(Char) /\ Len(entries[i]) = Len(env[i]) + 1
  BY <1>1, TerminatedTexts, ElementOfSeq DEF envEntries
<1>3. ASSUME NEW i \in 1 .. len
      PROVE  /\ length(entries[i]) = Len(env[i]) + 1 /\ Len(env[i]) \in Nat
             /\ encode(entries[i]) = Len(env[i]) + 1
  BY <1>1, <1>2, AsciiSize, LenProperties DEF Ascii
<1> HIDE DEF len
<1>4. counts \in [1 .. len -> Nat] /\ \A i \in 1 .. len : counts[i] = Len(env[i]) + 1
  <2>1. DOMAIN counts = 1 .. len /\ \A i \in 1 .. len : counts[i] = length(entries[i])
    BY <1>2
  <2>2. \A i \in 1 .. len : length(entries[i]) \in Nat
    BY <1>3
  <2>3. counts = [i \in 1 .. len |-> length(entries[i])]
    BY <1>2
  <2> HIDE DEF counts
  <2>4. QED
    BY <1>3, <2>1, <2>2, <2>3
<1>5. environ_sizes_get(entries) = Sum(counts)
  BY DEF environ_sizes_get
<1> HIDE DEF counts
<1>6. \A i \in 1 .. len : encode(entries[i]) = counts[i] /\ counts[i] > 0
  BY <1>3, <1>4
<1>7. /\ Placed(entries).next = Sum(counts) /\ DOMAIN Placed(entries).at = 1 .. len
      /\ \A i \in 1 .. len : Placed(entries).at[i] < Sum(counts)
  BY ONLY <1>1, <1>2, <1>4, <1>6, PlacedFits
<1>8. QED
  BY <1>5, <1>7 DEF environ_get

LEMMA EnvironStep == EnvironInv /\ PassStrings => EnvironInv'
<1> SUFFICES ASSUME EnvironInv, PassStrings PROVE EnvironInv'
  OBVIOUS
<1>1. PICK env \in Environments : strings.environ = envEntries(env)
  BY DEF EnvironInv
<1>2. env \in Seq(Seq(Char)) /\ strings.args \in Seq(Seq(Char)) /\ strings' = strings
  BY StringsAssumption DEF EnvironInv, PassStrings
<1>3. /\ size'.args = args_sizes_get(strings.args)
      /\ size'.environ = environ_sizes_get(strings.environ)
      /\ pointers'.args = args_get(strings.args).at
      /\ pointers'.environ = environ_get(strings.environ).at
      /\ written'.args = args_get(strings.args).next
      /\ written'.environ = environ_get(strings.environ).next
  BY DEF PassStrings
<1>4. ASSUME Ascii(strings.args)
      PROVE  /\ written'.args = size'.args
             /\ \A i \in DOMAIN pointers'.args : pointers'.args[i] < size'.args
  BY <1>2, <1>3, <1>4, ArgsFit
<1>5. ASSUME Ascii(strings.environ)
      PROVE  /\ written'.environ = size'.environ
             /\ \A i \in DOMAIN pointers'.environ : pointers'.environ[i] < size'.environ
  BY <1>1, <1>2, <1>3, <1>5, BindingsFit
<1>6. StringsFit'
  BY <1>2, <1>4, <1>5 DEF StringsFit
<1>7. QED
  BY <1>1, <1>2, <1>6 DEF EnvironInv

-----------------------------------------------------------------------------
(* The atoms. *)

\* An atom made has the index it got, and no other atom's index changes.
LEMMA MadeAtom ==
  ASSUME NEW table \in Seq(AtomNames), NEW str \in AtomNames
  PROVE  /\ Inserted(table, str) \in Seq(AtomNames)
         /\ Len(Inserted(table, str)) >= Len(table)
         /\ \A k \in 1 .. Len(table) : Inserted(table, str)[k] = table[k]
         /\ MadeIndex(table, str) \in 0 .. Len(Inserted(table, str)) - 1
         /\ Named(Inserted(table, str), MadeIndex(table, str)) = str
<1>1. CASE Known(table, str)
  <2>1. PICK k \in 1 .. Len(table) : table[k] = str
    BY <1>1 DEF Known
  <2> DEFINE c == CHOOSE j \in DOMAIN table : table[j] = str
  <2>2. c \in 1 .. Len(table) /\ table[c] = str
    BY <2>1
  <2>3. MadeIndex(table, str) = c - 1 /\ Inserted(table, str) = table
    BY <1>1 DEF MadeIndex, IndexOf, Inserted
  <2>4. QED
    BY <2>2, <2>3 DEF Named
<1>2. CASE ~Known(table, str)
  BY <1>2 DEF MadeIndex, Inserted, Named
<1>3. QED
  BY <1>1, <1>2

LEMMA Def == Len(def) = 3 /\ \A i \in 1 .. 3 : def[i].str \in AtomNames
<1>1. Len(def) = 3 /\ DOMAIN def = 1 .. 3
  BY DEF def
<1>2. QED
  BY <1>1, TablesAssumption

\* The atoms made so far have the indices of their constants.
AtomsInv ==
  /\ base \in Nat /\ atoms \in Seq(AtomNames)
  /\ next \in 1 .. 4 /\ apc \in {"init", "done", "abort"}
  /\ \A i \in 1 .. next - 1 : INDEX(i) < Len(atoms) /\ Named(atoms, INDEX(i)) = def[i].str
  /\ apc = "done" => next = 4

LEMMA AtomsInit == AInit => AtomsInv
  BY TablesAssumption DEF AInit, AtomsInv

\* A table that grows keeps the indices.
LEMMA AtomsGrow ==
  ASSUME AtomsInv, NEW str \in AtomNames, atoms' = Inserted(atoms, str), base' = base
  PROVE  /\ atoms' \in Seq(AtomNames)
         /\ \A i \in 1 .. next - 1 :
              INDEX(i)' < Len(atoms') /\ Named(atoms', INDEX(i)') = def[i].str
<1>1. /\ atoms' \in Seq(AtomNames) /\ Len(atoms') >= Len(atoms)
      /\ \A k \in 1 .. Len(atoms) : atoms'[k] = atoms[k]
  BY MadeAtom DEF AtomsInv
<1>2. ASSUME NEW i \in 1 .. next - 1
      PROVE  INDEX(i)' < Len(atoms') /\ Named(atoms', INDEX(i)') = def[i].str
  <2>1. INDEX(i)' = INDEX(i) /\ INDEX(i) \in Nat /\ i \in Nat
    BY <1>2 DEF INDEX, AtomsInv
  <2>2. INDEX(i) < Len(atoms) /\ atoms[INDEX(i) + 1] = def[i].str
    BY <1>2 DEF AtomsInv, Named
  <2>3. INDEX(i) + 1 \in 1 .. Len(atoms)
    BY <2>1, <2>2 DEF AtomsInv
  <2>4. QED
    BY <1>1, <2>1, <2>2, <2>3 DEF Named, AtomsInv
<1>3. QED
  BY <1>1, <1>2

LEMMA AtomStep == AtomsInv /\ (MakePlatformAtom \/ AtomsMade) => AtomsInv'
<1> SUFFICES ASSUME AtomsInv, MakePlatformAtom \/ AtomsMade PROVE AtomsInv'
  OBVIOUS
<1>1. CASE MakePlatformAtom
  <2> DEFINE str == def[next].str
  <2>1. next \in 1 .. 3 /\ str \in AtomNames /\ base' = base
    BY <1>1, Def DEF MakePlatformAtom, AtomsInv
  <2>2. CASE atoms' = atoms /\ next' = next /\ apc' = "abort"
    BY <2>1, <2>2 DEF AtomsInv, INDEX, Named
  <2>3. CASE atoms' = Inserted(atoms, str)
    <3>1. /\ atoms' \in Seq(AtomNames)
          /\ \A i \in 1 .. next - 1 :
               INDEX(i)' < Len(atoms') /\ Named(atoms', INDEX(i)') = def[i].str
      BY <2>1, <2>3, AtomsGrow
    <3>2. CASE next' = next /\ apc' \in {"init", "abort"}
      BY <2>1, <3>1, <3>2 DEF AtomsInv
    <3>3. CASE next' = next + 1 /\ apc' = apc /\ MadeIndex(atoms, str) = INDEX(next)
      <4>1. /\ MadeIndex(atoms, str) < Len(atoms')
            /\ Named(atoms', MadeIndex(atoms, str)) = str
        <5> HIDE DEF str
        <5>1. str \in AtomNames /\ atoms \in Seq(AtomNames)
          BY <2>1 DEF AtomsInv
        <5>2. /\ MadeIndex(atoms, str) \in 0 .. Len(atoms') - 1
              /\ Named(atoms', MadeIndex(atoms, str)) = str
          BY <2>3, <5>1, MadeAtom
        <5>3. Len(atoms') \in Nat
          BY <3>1
        <5>4. QED
          BY <5>2, <5>3
      <4>2. INDEX(next)' = INDEX(next) + 1 /\ next' - 1 = next
        BY <2>1, <3>3 DEF INDEX, AtomsInv
      <4>3. ASSUME NEW i \in 1 .. next' - 1
            PROVE  INDEX(i)' < Len(atoms') /\ Named(atoms', INDEX(i)') = def[i].str
        <5>1. CASE i \in 1 .. next - 1
          BY <3>1, <5>1
        <5>2. CASE i = next
          BY <2>1, <3>3, <4>1, <5>2 DEF INDEX
        <5>3. QED
          BY <2>1, <4>2, <4>3, <5>1, <5>2
      <4>4. apc' = "init"
        BY <1>1, <3>3 DEF MakePlatformAtom
      <4>5. QED
        BY <2>1, <3>1, <3>3, <4>3, <4>4 DEF AtomsInv
    <3>4. QED
      BY <1>1, <2>1, <2>3, <3>2, <3>3 DEF MakePlatformAtom, AtomsInv
  <2>4. QED
    BY <1>1, <2>2, <2>3 DEF MakePlatformAtom
<1>2. CASE AtomsMade
  BY <1>2, Def DEF AtomsMade, AtomsInv, INDEX, Named
<1>3. QED
  BY <1>1, <1>2

LEMMA OsAtomsStep == AtomsInv /\ MakeOsAtoms => AtomsInv'
<1> SUFFICES ASSUME AtomsInv, MakeOsAtoms PROVE AtomsInv'
  OBVIOUS
<1> DEFINE one == Inserted(atoms, "unix")
<1>1. "unix" \in AtomNames /\ "linux" \in AtomNames /\ atoms \in Seq(AtomNames)
  BY TablesAssumption DEF AtomsInv
<1>2. /\ one \in Seq(AtomNames) /\ Len(one) >= Len(atoms)
      /\ \A k \in 1 .. Len(atoms) : one[k] = atoms[k]
  BY <1>1, MadeAtom
<1>3. /\ atoms' \in Seq(AtomNames) /\ Len(atoms') >= Len(one)
      /\ \A k \in 1 .. Len(one) : atoms'[k] = one[k]
  BY <1>1, <1>2, MadeAtom DEF MakeOsAtoms
<1>4. Len(one) \in Nat /\ Len(atoms) \in Nat /\ Len(atoms') \in Nat
  BY <1>1, <1>2, <1>3
<1>5. \A k \in 1 .. Len(atoms) : atoms'[k] = atoms[k] /\ k <= Len(atoms')
  BY <1>2, <1>3, <1>4
<1>6. base' = base /\ next' = next /\ apc' = apc
  BY DEF MakeOsAtoms
<1>7. ASSUME NEW i \in 1 .. next - 1
      PROVE  INDEX(i)' < Len(atoms') /\ Named(atoms', INDEX(i)') = def[i].str
  <2>1. INDEX(i)' = INDEX(i) /\ INDEX(i) \in Nat
    BY <1>6, <1>7 DEF INDEX, AtomsInv
  <2>2. INDEX(i) < Len(atoms) /\ atoms[INDEX(i) + 1] = def[i].str
    BY <1>7 DEF AtomsInv, Named
  <2>3. INDEX(i) + 1 \in 1 .. Len(atoms)
    BY <1>4, <2>1, <2>2
  <2>4. QED
    BY <1>4, <1>5, <2>1, <2>2, <2>3 DEF Named
<1>8. QED
  BY <1>3, <1>6, <1>7 DEF AtomsInv

LEMMA AtomsStay == AtomsInv /\ UNCHANGED avars => AtomsInv'
  BY DEF AtomsInv, avars, INDEX, Named

-----------------------------------------------------------------------------
(* strong_rand_bytes. *)

\* While the loop runs, what lies below its offset is written and nothing else.
RandInv ==
  /\ warmup \in BOOLEAN
  /\ rpc \in {"out", "called", "fill"} \union Outcomes
  /\ n \in Int /\ off \in Nat
  /\ rpc = "called" => off = 0 /\ filled = {}
  /\ rpc = "fill" => n >= 0 /\ filled = {k \in 0 .. n - 1 : k < off} /\ (warmup => off = 0)
  /\ RandomOrRaised

LEMMA RandInit == RInit => RandInv
  BY DEF RInit, RandInv, RandomOrRaised, Outcomes

LEMMA RandStay == RandInv /\ UNCHANGED rvars => RandInv'
  BY DEF RandInv, rvars, RandomOrRaised, BadSize

LEMMA RandCalled == RandInv /\ CallRand => RandInv'
  BY Constants DEF RandInv, CallRand, RandomOrRaised, BadSize, Outcomes

LEMMA RandStepSafe == RandInv /\ RandStep => RandInv'
<1> SUFFICES ASSUME RandInv, RandStep PROVE RandInv'
  OBVIOUS
<1>1. CASE CheckSize
  BY <1>1 DEF CheckSize, RandInv, RandomOrRaised, BadSize, Outcomes
<1>2. CASE Fill
  <2>1. rpc = "fill" /\ off < n /\ warmup' = warmup /\ n' = n
    BY <1>2 DEF Fill
  <2>2. CASE EntropyFails(ChunkSize) /\ rpc' = "badarg" /\ off' = off /\ filled' = filled
    <3>1. ChunkSize <= EntropyCap
      BY <2>1, Constants DEF ChunkSize, RandInv
    <3>2. warmup
      BY <2>2, <3>1, Constants DEF EntropyFails, ChunkSize, RandInv
    <3>3. QED
      BY <2>1, <2>2, <3>2 DEF RandInv, RandomOrRaised, Outcomes
  <2>3. CASE /\ ~EntropyFails(ChunkSize)
             /\ filled' = filled \union (off .. off + ChunkSize - 1)
             /\ off' = off + Chunk /\ rpc' = rpc
    <3>1. ~warmup
      BY <2>3 DEF EntropyFails
    <3>2. n \in Nat /\ off \in Nat /\ filled = {k \in 0 .. n - 1 : k < off}
      BY <2>1 DEF RandInv
    <3>3. filled' = {k \in 0 .. n - 1 : k < off'}
      BY <2>1, <2>3, <3>2, Constants DEF ChunkSize
    <3>4. QED
      BY <2>1, <2>3, <3>1, <3>2, <3>3, Constants DEF RandInv, RandomOrRaised, Outcomes
  <2>4. QED
    BY <1>2, <2>2, <2>3 DEF Fill
<1>3. CASE ReturnBytes
  <2>1. n \in Nat /\ off >= n /\ filled = {k \in 0 .. n - 1 : k < off} /\ (warmup => n = 0)
    BY <1>3 DEF ReturnBytes, RandInv
  <2>2. filled = 0 .. n - 1
    BY <2>1 DEF RandInv
  <2>3. QED
    BY <1>3, <2>1, <2>2 DEF ReturnBytes, RandInv, RandomOrRaised, Outcomes
<1>4. QED
  BY <1>1, <1>2, <1>3 DEF RandStep

-----------------------------------------------------------------------------
(* The steps of the platform, by what they touch. *)

LEMMA Touches ==
  ASSUME [PNext]_pvars
  PROVE  /\ PassStrings \/ UNCHANGED evars
         /\ MakePlatformAtom \/ AtomsMade \/ MakeOsAtoms \/ UNCHANGED avars
         /\ CallRand \/ RandStep \/ UNCHANGED rvars
<1>1. CASE Start
  BY <1>1 DEF Start
<1>2. CASE platform_defaultatoms_init
  BY <1>2 DEF platform_defaultatoms_init
<1>3. CASE sys_init_platform
  BY <1>3 DEF sys_init_platform
<1>4. CASE sys_poll_events \/ UpdateTimers \/ NothingToRun
  BY <1>4 DEF sys_poll_events, UpdateTimers, NothingToRun
<1>5. ASSUME NEW p \in Procs, RunProcess(p)
      PROVE  /\ UNCHANGED evars
             /\ MakePlatformAtom \/ AtomsMade \/ MakeOsAtoms \/ UNCHANGED avars
             /\ CallRand \/ RandStep \/ UNCHANGED rvars
  BY <1>5 DEF RunProcess, Wait, nif_os_type, nif_crypto_strong_rand_bytes, End
<1>6. CASE InRandBytes
  BY <1>6 DEF InRandBytes
<1>7. CASE sys_free_platform
  BY <1>7 DEF sys_free_platform
<1>8. CASE Tick \/ SetBack \/ Ended \/ UNCHANGED pvars
  BY <1>8 DEF Tick, SetBack, Ended, pvars
<1>9. QED
  BY <1>1, <1>2, <1>3, <1>4, <1>5, <1>6, <1>7, <1>8 DEF PNext, Thread

\* wasi-libc reserves what the host then writes, byte by byte, and every pointer lies in it,
\* for all arguments and bindings of ASCII (StringsFit; index.js:50, 72-91, 100-119).
THEOREM StringsAlwaysFit == PSpec => []StringsFit
<1>1. PInit => EnvironInv
  BY EnvironInit DEF PInit
<1>2. EnvironInv /\ [PNext]_pvars => EnvironInv'
  BY Touches, EnvironStep, EnvironStay
<1>3. EnvironInv => StringsFit
  BY DEF EnvironInv
<1>4. QED
  BY <1>1, <1>2, <1>3, PTL DEF PSpec

\* Every constant of the C code is its atom's index, for every table AtomVM starts the
\* platform with, however it overlaps with the platform's atoms (platform_defaultatoms.c:22-31).
THEOREM ConstantsAreAtoms == PSpec => []AtomsAreTheirConstants
<1>1. PInit => AtomsInv
  BY AtomsInit DEF PInit
<1>2. AtomsInv /\ [PNext]_pvars => AtomsInv'
  BY Touches, AtomStep, OsAtomsStep, AtomsStay
<1>3. AtomsInv => AtomsAreTheirConstants
  <2>1. Len(def) = 3 /\ DOMAIN def = 1 .. 3 /\ def[1].str = "wasi"
    BY DEF def
  <2>2. QED
    BY <2>1 DEF AtomsInv, AtomsAreTheirConstants, WASI_ATOM, nif_atomvm_platform
<1>4. QED
  BY <1>1, <1>2, <1>3, PTL DEF PSpec

\* strong_rand_bytes returns random bytes only, all that were asked for, or raises, for every
\* argument, every chunk and every cap of getentropy (platform_nifs.c:103-130).
THEOREM BytesAreRandom == PSpec => []RandomOrRaised
<1>1. PInit => RandInv
  BY RandInit DEF PInit
<1>2. RandInv /\ [PNext]_pvars => RandInv'
  BY Touches, RandCalled, RandStepSafe, RandStay
<1>3. RandInv => RandomOrRaised
  BY DEF RandInv
<1>4. QED
  BY <1>1, <1>2, <1>3, PTL DEF PSpec

-----------------------------------------------------------------------------
(* Time. *)

\* What a division takes apart.
LEMMA DivMod ==
  ASSUME NEW t \in Nat, NEW d \in Nat, d > 0
  PROVE  (t \div d) * d + (t % d) = t
  OBVIOUS

\* The clock's reading survives being split into seconds and nanoseconds.
LEMMA Reading ==
  ASSUME now \in Nat
  PROVE  sys_monotonic_time_u64 = now * NsPerMs
<1> DEFINE ns == now * NsPerMs
<1>1. ns \in Nat
  BY Constants
<1>2. sys_monotonic_time_u64 = (ns \div NsPerSec) * NsPerSec + (ns % NsPerSec)
  BY DEF sys_monotonic_time_u64, sys_monotonic_time, clock_time_get
<1> HIDE DEF ns
<1>3. sys_monotonic_time_u64 = ns
  BY <1>1, <1>2, DivMod, Constants
<1>4. QED
  BY <1>3 DEF ns

\* What is due has waited.
LEMMA Waited ==
  ASSUME NEW t \in Nat, NEW from \in Nat, NEW ms \in Nat,
         (from + ms) * NsPerMs <= t * NsPerMs
  PROVE  t - from >= ms
<1>1. from + ms <= t
  BY Constants
<1>2. QED
  BY <1>1

\* A waiting process is due when the time it waits for is over, in nanoseconds.
TimerInv ==
  /\ PTypeOK
  /\ \A p \in Procs : state[p] = "waiting" => expiry[p] = (since[p].now + since[p].ms) * NsPerMs

LEMMA TimerInit == PInit => TimerInv
  BY Constants DEF PInit, TimerInv, PTypeOK, NotWaiting

LEMMA TimerStep == TimerInv /\ [PNext]_pvars => TimerInv'
<1> SUFFICES ASSUME TimerInv, [PNext]_pvars PROVE TimerInv'
  OBVIOUS
<1> USE DEF TimerInv, PTypeOK
<1>1. CASE Start \/ sys_init_platform \/ sys_poll_events \/ NothingToRun \/ sys_free_platform
  BY <1>1 DEF Start, sys_init_platform, sys_poll_events, NothingToRun, sys_free_platform,
       InLoop, clock, sched
<1>2. CASE platform_defaultatoms_init
  BY <1>2 DEF platform_defaultatoms_init, MakePlatformAtom, AtomsMade, clock, sched
<1>3. CASE UpdateTimers
  <2>1. /\ state' = [p \in Procs |-> IF Due(p) THEN "ready" ELSE state[p]]
        /\ expiry' = [p \in Procs |-> IF Due(p) THEN 0 ELSE expiry[p]]
        /\ since' = [p \in Procs |-> IF Due(p) THEN NotWaiting ELSE since[p]]
        /\ step' = "run" /\ UNCHANGED <<now, back, phase, platform>>
    BY <1>3 DEF UpdateTimers, clock
  <2>2. NotWaiting \in [now : Nat, ms : Nat]
    BY DEF NotWaiting
  <2>3. QED
    BY <2>1, <2>2
<1>4. ASSUME NEW p \in Procs, RunProcess(p) PROVE TimerInv'
  <2>1. CASE nif_os_type \/ nif_crypto_strong_rand_bytes
    BY <2>1 DEF nif_os_type, nif_crypto_strong_rand_bytes, clock, sched
  <2>2. CASE End(p)
    BY <2>2 DEF End, clock
  <2>3. ASSUME NEW ms \in Timeouts, Wait(p, ms) PROVE TimerInv'
    <3> DEFINE due == sys_monotonic_time_u64 + sys_monotonic_time_ms_to_u64(ms)
    <3>1. /\ state' = [state EXCEPT ![p] = "waiting"]
          /\ since' = [since EXCEPT ![p] = [now |-> now, ms |-> ms]]
          /\ expiry' = [expiry EXCEPT ![p] = due]
          /\ step' = "poll" /\ UNCHANGED <<now, back, phase, platform>>
      BY <2>3 DEF Wait, clock
    <3>2. now \in Nat /\ ms \in Nat
      BY Constants
    <3>3. due = now * NsPerMs + ms * NsPerMs
      BY <3>2, Reading DEF sys_monotonic_time_ms_to_u64
    <3>4. due = (now + ms) * NsPerMs /\ due \in Nat
      BY <3>2, <3>3, Constants
    <3> HIDE DEF due
    <3>5. QED
      BY <3>1, <3>2, <3>4
  <2>4. QED
    BY <1>4, <2>1, <2>2, <2>3 DEF RunProcess
<1>5. CASE InRandBytes
  BY <1>5 DEF InRandBytes, clock
<1>6. CASE Tick \/ SetBack
  BY <1>6, Constants DEF Tick, SetBack, sched
<1>7. CASE Ended \/ UNCHANGED pvars
  BY <1>7 DEF Ended, pvars, clock, sched
<1>8. QED
  BY <1>1, <1>2, <1>3, <1>4, <1>5, <1>6, <1>7 DEF PNext, Thread

\* The types of the platform's state (sys.c:33-52, index.js:92).
THEOREM PlatformTypeCorrect == PSpec => []PTypeOK
<1>1. TimerInv => PTypeOK
  BY DEF TimerInv
<1>2. QED
  BY <1>1, TimerInit, TimerStep, PTL DEF PSpec

\* Only the timers' step makes a waiting process ready, and only one that has waited.
LEMMA FiresInTime ==
  ASSUME TimerInv, [PNext]_pvars, NEW p \in Procs, Fires(p)
  PROVE  ~Early(p)
<1> USE DEF TimerInv, PTypeOK
<1>1. state[p] = "waiting" /\ state'[p] = "ready"
  BY DEF Fires
<1>2. CASE UpdateTimers
  <2>1. Due(p)
    BY <1>1, <1>2 DEF UpdateTimers
  <2>2. now \in Nat /\ since[p].now \in Nat /\ since[p].ms \in Nat
    BY Constants
  <2>3. (since[p].now + since[p].ms) * NsPerMs <= now * NsPerMs
    BY <1>1, <2>1, <2>2, Reading DEF Due
  <2>4. now - since[p].now >= since[p].ms
    BY <2>2, <2>3, Waited
  <2>5. QED
    BY <2>2, <2>4 DEF Early
<1>3. ASSUME NEW q \in Procs, RunProcess(q) PROVE FALSE
  <2>1. state[q] = "ready"
    BY <1>3 DEF RunProcess
  <2>2. state'[p] = "waiting"
    BY <1>1, <1>3, <2>1 DEF RunProcess, Wait, End, nif_os_type, nif_crypto_strong_rand_bytes, sched
  <2>3. QED
    BY <1>1, <2>2
<1>4. CASE state' = state
  BY <1>1, <1>4
<1>5. QED
  BY <1>2, <1>3, <1>4
     DEF PNext, Thread, Start, platform_defaultatoms_init, sys_init_platform, sys_poll_events,
         NothingToRun, InRandBytes, sys_free_platform, Tick, SetBack, Ended, pvars, sched

\* No timer fires before the worker's clock has shown its time to have passed, for every
\* length of a millisecond and a second, and with the clock set back at any time.
THEOREM TimersAreNeverEarly == PSpec => NeverEarly
<1>1. TimerInv /\ [PNext]_pvars => [\A p \in Procs : Fires(p) => ~Early(p)]_pvars
  BY FiresInTime
<1>2. QED
  BY <1>1, TimerInit, TimerStep, PTL DEF PSpec, NeverEarly
=============================================================================
