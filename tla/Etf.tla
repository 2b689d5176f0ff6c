--------------------------------- MODULE Etf ---------------------------------
(***************************************************************************)
(* The worker's decoder beside AtomVM's, on bytes neither of them wrote:   *)
(* encodings that were cut or changed.                                     *)
(***************************************************************************)
EXTENDS Wire

ASSUME WireAssumption ==
  /\ Damage \subseteq Byte
  /\ \A r \in WireInputs : r.status \in 0 .. MaxInt /\ r.headers \in Headers /\ r.body \in Texts

\* "the subset the bridge exchanges: tuples, proper lists, binaries and integers"
\* (index.js:338-339), as AtomVM has them, with at most d of them inside one another.
Exchanged[d \in Nat] ==
  IF d = 0 THEN {}
  ELSE [type : {"integer"}, value : Int] \union [type : {"binary"}, value : Seq(Byte)]
         \union [type : {"tuple", "list"}, value : Seq(Exchanged[d - 1])]

\* The worker's arrays for such terms.
AsArrays[d \in Nat] ==
  [t \in Exchanged[d] |->
     IF t.type \in {"tuple", "list"}
     THEN Term("array", [i \in DOMAIN t.value |-> AsArrays[d - 1][t.value[i]]])
     ELSE t]

\* On what the bridge exchanges, the worker's decoder reads any bytes the way AtomVM does,
\* also bytes that are cut short or damaged but still such a term.
DecodersAgree ==
  kind = "wire" =>
    LET erl == BinaryToTerm(input)
        d   == Len(input)
    IN  erl.ok /\ erl.term \in Exchanged[d] =>
          DecodeEtf(input) = Got(AsArrays[d][erl.term], erl.next)
=============================================================================
