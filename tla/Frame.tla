-------------------------------- MODULE Frame --------------------------------
(***************************************************************************)
(* The response frame in the guest's stdout.  The bridge ends its output   *)
(* with the payload, the payload's length as a big-endian u32 and a marker *)
(* (bridge.gleam:36-41); the worker looks for the last marker and cuts the *)
(* payload out from the length before it (index.js:276, 306-334).          *)
(*                                                                         *)
(* A byte is a digit below Base (256), so that the four bytes of the       *)
(* length are what they are in the code: four digits that may look like    *)
(* anything else, the marker included.                                     *)
(***************************************************************************)
EXTENDS Integers, Sequences

CONSTANTS
  Base,      \* values of a byte: 256
  Sentinel,  \* the marker: "\n__GLOWVM__"
  Payloads   \* the byte strings decodeEtf and the destructuring after it accept

Byte  == 0 .. Base - 1
Bytes == Seq(Byte)

\* The marker's first byte, the newline, occurs in it only once: a copy of the marker
\* cannot overlap another one.
ASSUME BaseAssumption     == Base \in Nat /\ Base > 1
ASSUME SentinelAssumption ==
  /\ Sentinel \in Bytes /\ Len(Sentinel) > 0
  /\ \A j \in 2 .. Len(Sentinel) : Sentinel[j] # Sentinel[1]
ASSUME PayloadsAssumption == Payloads \subseteq Bytes

-----------------------------------------------------------------------------
\* The lengths four bytes can hold.
Limit == Base * Base * Base * Base

\* <<Size:32>>: the low four bytes of n, the most significant first.
U32(n) ==
  << (((n \div Base) \div Base) \div Base) % Base,
     ((n \div Base) \div Base) % Base,
     (n \div Base) % Base,
     n % Base >>

\* getUint32 of the four bytes after the first k of s.
GetU32(s, k) == ((s[k + 1] * Base + s[k + 2]) * Base + s[k + 3]) * Base + s[k + 4]

\* bridge.frame
MakeFrame(payload) == payload \o U32(Len(payload)) \o Sentinel

-----------------------------------------------------------------------------
\* needle occurs in haystack after its first i elements.
OccursAt(haystack, needle, i) ==
  /\ i + Len(needle) <= Len(haystack)
  /\ \A j \in 1 .. Len(needle) : haystack[i + j] = needle[j]

Occurrences(haystack, needle) ==
  {i \in 0 .. Len(haystack) - Len(needle) : OccursAt(haystack, needle, i)}

\* The marker is nowhere in s.
NoMarker(s) == Occurrences(s, Sentinel) = {}

\* Mutant: the search runs from the front.
FirstIndexOf(haystack, needle) ==
  LET at == Occurrences(haystack, needle)
  IN  IF at = {} THEN -1 ELSE CHOOSE i \in at : \A k \in at : k >= i

\* The offset of the last occurrence, or -1: the loop counts down from the last place
\* needle fits and returns the first match.
LastIndexOf(haystack, needle) ==
  LET at == Occurrences(haystack, needle)
  IN  IF at = {} THEN -1 ELSE CHOOSE i \in at : \A k \in at : k <= i

\* What runWasm returns: the response whose encoding is payload, or one of two errors.
Response(payload) == [kind |-> "response", payload |-> payload]
NoOutput  == [kind |-> "no output", payload |-> <<>>]
Malformed == [kind |-> "malformed output", payload |-> <<>>]

\* decodeEtf and the catch around it.
Decode(bytes) == IF bytes \in Payloads THEN Response(bytes) ELSE Malformed

ParseOutput(out) ==
  LET end   == LastIndexOf(out, Sentinel)
      start == end - 4 - GetU32(out, end - 4)
  IN  CASE end < 4   -> NoOutput
        [] end >= 4 /\ start < 0 -> Malformed
        [] end >= 4 /\ start >= 0 -> Decode(SubSeq(out, start + 1, end - 4))
=============================================================================
