---------------------------------- MODULE Wire ----------------------------------
(***************************************************************************)
(* The two ends of the wire between the worker and the guest, in Erlang's  *)
(* External Term Format: the worker's encodeRequest and decodeEtf          *)
(* (index.js:336-435), and the bridge's check of a request                 *)
(* (glowvm_bridge_ffi.erl).  AtomVM's binary_to_term and term_to_binary    *)
(* are external.                                                           *)
(*                                                                         *)
(* Bytes are numbers below 256.  A string stands for its UTF-8 bytes.      *)
(* A term is a pair of a type and a value; the worker's arrays, which      *)
(* stand for tuples and lists alike, have a type of their own.             *)
(***************************************************************************)
EXTENDS Integers, Sequences

CONSTANTS
  RequestInputs,   \* [method, url, headers, body, warmup]: what encodeRequest is called with
  ResponseInputs,  \* [status, headers, body]: a handler's responses
  WireInputs,      \* responses whose encodings are cut or changed
  Damage           \* the bytes they are changed with

Byte == 0 .. 255

\* The largest number INTEGER_EXT holds; no text and no list in memory is longer.
MaxInt  == ((127 * 256 + 255) * 256 + 255) * 256 + 255
Texts   == {s \in Seq(Byte) : Len(s) <= MaxInt}
Headers == {hs \in Seq(Texts \X Texts) : Len(hs) <= MaxInt}

ASSUME RequestsAssumption ==
  \A r \in RequestInputs :
    r.method \in Texts /\ r.url \in Texts /\ r.headers \in Headers /\ r.body \in Texts

ASSUME ResponsesAssumption ==
  \A r \in ResponseInputs :
    r.status \in 0 .. MaxInt /\ r.headers \in Headers /\ r.body \in Texts

VARIABLES kind, input

vars == <<kind, input>>

-----------------------------------------------------------------------------
Version      == 131
SmallInteger == 97
Integer32    == 98
SmallTuple   == 104
SmallAtom == 119
Nil       == 106
List      == 108
Binary    == 109

Warmup == <<119, 97, 114, 109, 117, 112>>   \* "warmup"

U32(n) ==
  LET n1 == n \div 256
      n2 == n1 \div 256
  IN  <<n2 \div 256, n2 % 256, n1 % 256, n % 256>>

\* getUint32 and getInt32 at offset o; what lies beyond the end is caught by the caller.
GetUint32(b, o) == ((b[o + 1] * 256 + b[o + 2]) * 256 + b[o + 3]) * 256 + b[o + 4]
GetInt32(b, o)  ==
  LET high == IF b[o + 1] < 128 THEN b[o + 1] ELSE b[o + 1] - 256
  IN  ((high * 256 + b[o + 2]) * 256 + b[o + 3]) * 256 + b[o + 4]

Term(type, value) == [type |-> type, value |-> value]

-----------------------------------------------------------------------------
(* encodeRequest *)

EncodeBinary(b) == <<Binary>> \o U32(Len(b)) \o b
EncodeHeader(h) == <<SmallTuple, 2>> \o EncodeBinary(h[1]) \o EncodeBinary(h[2])

\* The first k of the headers, for every k.
FirstHeaders(hs) ==
  LET first[k \in 0 .. Len(hs)] == IF k = 0 THEN <<>> ELSE first[k - 1] \o EncodeHeader(hs[k])
  IN  first

\* Mutant: the nil that ends a list is only written for the empty one.
EncodeHeadersNoTail(hs) ==
  IF hs = <<>> THEN <<Nil>> ELSE <<List>> \o U32(Len(hs)) \o FirstHeaders(hs)[Len(hs)]

EncodeHeaders(hs) ==
  (IF hs = <<>> THEN <<>> ELSE <<List>> \o U32(Len(hs)) \o FirstHeaders(hs)[Len(hs)])
  \o <<Nil>>

EncodeRequest(r) ==
  <<Version, SmallTuple>>
  \o (IF r.warmup THEN <<5, SmallAtom, Len(Warmup)>> \o Warmup ELSE <<4>>)
  \o EncodeBinary(r.method) \o EncodeBinary(r.url)
  \o EncodeHeaders(r.headers) \o EncodeBinary(r.body)

-----------------------------------------------------------------------------
(* AtomVM's term_to_binary, for #(Status, Headers, Body). *)

EncodeInteger(n) == IF n \in Byte THEN <<SmallInteger, n>> ELSE <<Integer32>> \o U32(n)

EncodeResponse(r) ==
  <<Version, SmallTuple, 3>>
  \o EncodeInteger(r.status) \o EncodeHeaders(r.headers) \o EncodeBinary(r.body)

-----------------------------------------------------------------------------
(* decodeEtf: reading at offset o gives a term and the offset after it, or *)
(* throws.  below says what is read where inside a tuple or a list.        *)

Throw        == [ok |-> FALSE]
Got(t, o)    == [ok |-> TRUE, term |-> t, next |-> o]
Undefined    == Term("undefined", 0)     \* bytes[o] beyond the end
ByteAt(b, o) == IF o < Len(b) THEN b[o + 1] ELSE -1
Fits(b, o, n) == o + n <= Len(b)

\* The first k terms from o on, for k up to n.
FirstItems(below, n, o) ==
  LET first[k \in 0 .. n] ==
        IF k = 0 THEN Got(<<>>, o)
        ELSE LET items == first[k - 1]
                 item  == below[items.next]
             IN  IF items.ok /\ item.ok THEN Got(Append(items.term, item.term), item.next)
                 ELSE Throw
  IN  first

\* n terms from o on.  More terms than bytes would run out of bytes.
Items(b, below, n, o) ==
  IF n > Len(b) THEN Throw
  ELSE IF n <= 0 THEN Got(<<>>, o) ELSE FirstItems(below, n, o)[n]

Typed(type, items) == IF items.ok THEN Got(Term(type, items.term), items.next) ELSE Throw

\* Mutant: the list is taken to end after its last element.
ReadListNoTail(b, below, o) ==
  IF ~Fits(b, o, 4) THEN Throw ELSE Typed("array", Items(b, below, GetUint32(b, o), o + 4))

\* LIST_EXT: the elements, then a nil.
ReadList(b, below, o) ==
  IF ~Fits(b, o, 4) THEN Throw
  ELSE LET list == Items(b, below, GetUint32(b, o), o + 4)
       IN  IF list.ok /\ ByteAt(b, list.next) = Nil
           THEN Got(Term("array", list.term), list.next + 1) ELSE Throw

\* Mutant: the offset is moved past the bytes, but not past their length.
ReadBinaryShort(b, o) ==
  IF ~Fits(b, o, 4) THEN Throw
  ELSE LET n   == GetUint32(b, o)
           end == IF Fits(b, o + 4, n) THEN o + 4 + n ELSE Len(b)
       IN  Got(Term("binary", SubSeq(b, o + 5, end)), o + n)

\* BINARY_EXT: slice stops at the end of the bytes without a complaint.
ReadBinary(b, o) ==
  IF ~Fits(b, o, 4) THEN Throw
  ELSE LET n   == GetUint32(b, o)
           end == IF Fits(b, o + 4, n) THEN o + 4 + n ELSE Len(b)
       IN  Got(Term("binary", SubSeq(b, o + 5, end)), o + 4 + n)

ReadTerm(b, below, o) ==
  LET tag == ByteAt(b, o) IN
  CASE tag = SmallInteger ->
         Got(IF Fits(b, o, 2) THEN Term("integer", ByteAt(b, o + 1)) ELSE Undefined, o + 2)
    [] tag = Integer32 ->
         IF Fits(b, o, 5) THEN Got(Term("integer", GetInt32(b, o + 1)), o + 5) ELSE Throw
    [] tag = SmallTuple -> Typed("array", Items(b, below, ByteAt(b, o + 1), o + 2))
    [] tag = Nil        -> Got(Term("array", <<>>), o + 1)
    [] tag = List       -> ReadList(b, below, o + 1)
    [] tag = Binary     -> ReadBinary(b, o + 1)
    [] OTHER            -> Throw

-----------------------------------------------------------------------------
(* AtomVM's binary_to_term, for the terms the two ends exchange. *)

ErlTuple(b, below, o) ==
  IF Fits(b, o, 1) THEN Typed("tuple", Items(b, below, ByteAt(b, o), o + 1)) ELSE Throw

ErlList(b, below, o) ==
  IF ~Fits(b, o, 4) THEN Throw
  ELSE LET list == Items(b, below, GetUint32(b, o), o + 4)
       IN  IF list.ok /\ ByteAt(b, list.next) = Nil
           THEN Got(Term("list", list.term), list.next + 1) ELSE Throw

ErlBytes(b, type, n, o) ==
  IF Fits(b, o, n) THEN Got(Term(type, SubSeq(b, o + 1, o + n)), o + n) ELSE Throw

ErlTerm(b, below, o) ==
  LET tag == ByteAt(b, o) IN
  CASE tag = SmallInteger /\ Fits(b, o, 2) -> Got(Term("integer", ByteAt(b, o + 1)), o + 2)
    [] tag = Integer32 /\ Fits(b, o, 5)    -> Got(Term("integer", GetInt32(b, o + 1)), o + 5)
    [] tag = SmallTuple                    -> ErlTuple(b, below, o + 1)
    [] tag = Nil                           -> Got(Term("list", <<>>), o + 1)
    [] tag = List                          -> ErlList(b, below, o + 1)
    [] tag = Binary /\ Fits(b, o, 5)       -> ErlBytes(b, "binary", GetUint32(b, o + 1), o + 5)
    [] tag = SmallAtom /\ Fits(b, o, 2)    -> ErlBytes(b, "atom", ByteAt(b, o + 1), o + 2)
    [] OTHER                               -> Throw

-----------------------------------------------------------------------------
(* Both decoders call themselves for the terms inside a term, which begin  *)
(* after it does, so that there are never more than Len(b) inside one      *)
(* another.                                                                *)

Read(end, b, below, o) == IF end = "guest" THEN ErlTerm(b, below, o) ELSE ReadTerm(b, below, o)

\* What a decoder reads at each offset, with at most d terms inside one another.
Reads(end, b) ==
  LET reads[d \in Nat] == IF d = 0 THEN [o \in Nat |-> Throw]
                          ELSE [o \in Nat |-> Read(end, b, reads[d - 1], o)]
  IN  reads

Decode(end, b) == IF ByteAt(b, 0) # Version THEN Throw ELSE Reads(end, b)[Len(b)][1]

DecodeEtf(b)    == Decode("worker", b)
BinaryToTerm(b) == Decode("guest", b)

-----------------------------------------------------------------------------
\* parseOutput's destructuring and header texts; TextDecoder takes undefined for no bytes.
Malformed == [ok |-> FALSE]
Item(t, i) == IF i \in DOMAIN t.value THEN t.value[i] ELSE Undefined
Text(t)    == IF t.type = "binary" THEN t.value ELSE <<>>

ParseResponse(b) ==
  LET d       == DecodeEtf(b)
      headers == Item(d.term, 2).value
  IN  IF /\ d.ok /\ d.term.type = "array" /\ Item(d.term, 2).type = "array"
         /\ \A i \in DOMAIN headers :
              /\ headers[i].type = "array"
              /\ \A k \in {1, 2} : Item(headers[i], k).type \in {"binary", "undefined"}
      THEN [ok |-> TRUE, status |-> Item(d.term, 1), body |-> Item(d.term, 3),
            headers |-> [i \in DOMAIN headers |->
                           <<Text(Item(headers[i], 1)), Text(Item(headers[i], 2))>>]]
      ELSE Malformed

-----------------------------------------------------------------------------
(* glowvm_bridge_ffi:decode_request/1 *)

IsBinary(t) == t.type = "binary"
IsHeader(t) == t.type = "tuple" /\ Len(t.value) = 2 /\ IsBinary(t.value[1]) /\ IsBinary(t.value[2])

Validate(purpose, method, url, headers, body) ==
  IF /\ IsBinary(method) /\ IsBinary(url) /\ headers.type = "list" /\ IsBinary(body)
     /\ \A i \in DOMAIN headers.value : IsHeader(headers.value[i])
  THEN [ok |-> TRUE, purpose |-> purpose, method |-> method.value, url |-> url.value,
        headers |-> [i \in DOMAIN headers.value |->
                       <<headers.value[i].value[1].value, headers.value[i].value[2].value>>],
        body |-> body.value]
  ELSE Malformed

DecodeRequest(b) ==
  LET d == BinaryToTerm(b)
      v == d.term.value
  IN  CASE d.ok /\ d.term.type = "tuple" /\ Len(v) = 4 -> Validate("serve", v[1], v[2], v[3], v[4])
        [] d.ok /\ d.term.type = "tuple" /\ Len(v) = 5 /\ v[1] = Term("atom", Warmup) ->
             Validate("warmup", v[2], v[3], v[4], v[5])
        [] OTHER -> Malformed

-----------------------------------------------------------------------------
\* An encoding cut anywhere, or with one byte changed.
Damaged(e) ==
  {SubSeq(e, 1, n) : n \in 0 .. Len(e)}
    \union {[e EXCEPT ![i] = d] : i \in DOMAIN e, d \in Damage}

Init ==
  \/ kind = "request"  /\ input \in RequestInputs
  \/ kind = "response" /\ input \in ResponseInputs
  \/ kind = "wire"     /\ \E r \in WireInputs : input \in Damaged(EncodeResponse(r))

\* The codecs are pure: an input is all there is.
Next == UNCHANGED vars

Spec == Init /\ [][Next]_vars

-----------------------------------------------------------------------------
\* A request reaches the bridge as the worker was given it, whatever bytes a client puts
\* into method, URL, headers and body, and it is taken for a warm-up only when the worker
\* says so: "which a client or binding can't forge" (bridge.gleam:59-62, index.js:350-351).
RequestArrives ==
  kind = "request" =>
    DecodeRequest(EncodeRequest(input)) =
      [ok |-> TRUE, purpose |-> IF input.warmup THEN "warmup" ELSE "serve",
       method |-> input.method, url |-> input.url, headers |-> input.headers,
       body |-> input.body]

\* A response reaches the worker as the bridge encoded it, status, header texts and body,
\* also when the body holds bytes that look like terms (bridge.gleam:150-159,
\* index.js:314-320).
ResponseArrives ==
  kind = "response" =>
    ParseResponse(EncodeResponse(input)) =
      [ok |-> TRUE, status |-> Term("integer", input.status),
       body |-> Term("binary", input.body), headers |-> input.headers]
=============================================================================
