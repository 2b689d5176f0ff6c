------------------------------- MODULE Base64 -------------------------------
(***************************************************************************)
(* The base64 shim (base64.erl).  A character of the alphabet in use,      *)
(* standard or urlsafe, is its index in table_for(Mode); padding, white    *)
(* space and every other character have numbers above.                     *)
(***************************************************************************)
EXTENDS Integers, SequencesExt, Trial

Pad     == 64
Blank   == 65   \* space, tab, CR, LF
Foreign == 66

IsEncodable(x) == x.bytes \in Seq(0 .. 255) /\ x.padding \in BOOLEAN /\ x.at \in Nat

ASSUME Base64Assumption == "base64" \in DOMAIN Inputs => \A x \in Inputs["base64"] : IsEncodable(x)

Badarg == [ok |-> FALSE]
Ok(b)  == [ok |-> TRUE, bytes |-> b]

\* s in pieces of n, of which the last may be shorter.
Pieces(s, n) ==
  [k \in 1 .. (Len(s) + n - 1) \div n |->
     SubSeq(s, n * (k - 1) + 1, IF n * k <= Len(s) THEN n * k ELSE Len(s))]

\* The elements of s that are in S, by a binary comprehension.
Only(s, S) == FlattenSeq([i \in DOMAIN s |-> IF s[i] \in S THEN <<s[i]>> ELSE <<>>])

-----------------------------------------------------------------------------
(* Encoding *)

EncodeTriple(a, b, c) ==
  LET n == (a * 256 + b) * 256 + c
      m == n \div 64
      k == m \div 64
  IN  <<k \div 64, k % 64, m % 64, n % 64>>

EncodeGroup(b) ==
  CASE Len(b) = 3 -> EncodeTriple(b[1], b[2], b[3])
    [] Len(b) = 2 -> SubSeq(EncodeTriple(b[1], b[2], 0), 1, 3) \o <<Pad>>
    [] Len(b) = 1 -> SubSeq(EncodeTriple(b[1], 0, 0), 1, 2) \o <<Pad, Pad>>

EncodeGroups(b) ==
  FlattenSeq([k \in DOMAIN Pieces(b, 3) |-> EncodeGroup(Pieces(b, 3)[k])])

StripPadding(c) == SubSeq(c, 1, SelectLastInSeq(c, LAMBDA x : x # Pad))

Base64Encode(b, padding) == IF padding THEN EncodeGroups(b) ELSE StripPadding(EncodeGroups(b))

-----------------------------------------------------------------------------
(* Decoding *)

InTable(cs) == \A i \in DOMAIN cs : cs[i] < Pad

\* The bytes of a group of the given characters: the bits that do not fill a byte are dropped.
GroupBytes(cs) ==
  LET n == ((cs[1] * 64 + cs[2]) * 64 + (IF Len(cs) > 2 THEN cs[3] ELSE 0)) * 64
             + (IF Len(cs) > 3 THEN cs[4] ELSE 0)
      m == n \div 256
  IN  SubSeq(<<m \div 256, m % 256, n % 256>>, 1, Len(cs) - 1)

\* The characters of the group c before its padding, by the order of the clauses.
Filled(c) ==
  SubSeq(c, 1, CASE c[3] = Pad /\ c[4] = Pad -> 2
                 [] c[4] = Pad /\ c[3] # Pad -> 3
                 [] OTHER -> 4)

\* decode_groups: padding ends a group, and the next one follows.
DecodeGroups(c) ==
  LET groups == Pieces(c, 4) IN
  IF \A k \in DOMAIN groups : Len(groups[k]) = 4 /\ InTable(Filled(groups[k]))
  THEN Ok(FlattenSeq([k \in DOMAIN groups |-> GroupBytes(Filled(groups[k]))]))
  ELSE Badarg

\* Mutant: the missing characters are counted the wrong way round.
DecodeBinPadsShort(c, requirePadding) ==
  LET n == Len(c) % 4 IN
  CASE n = 0 -> DecodeGroups(c)
    [] n # 0 /\ requirePadding -> Badarg
    [] OTHER -> DecodeGroups(c \o [i \in 1 .. n |-> Pad])

\* decode_bin: a short last group is padded, or an error.
DecodeBin(c, requirePadding) ==
  LET n == Len(c) % 4 IN
  CASE n = 0 -> DecodeGroups(c)
    [] n # 0 /\ requirePadding -> Badarg
    [] OTHER -> DecodeGroups(c \o [i \in 1 .. 4 - n |-> Pad])

\* decode/2, after strip_ws.
Base64Decode(c, requirePadding) == DecodeBin(Only(c, (0 .. Foreign) \ {Blank}), requirePadding)

\* mime_decode/2: whatever is not of the alphabet or padding is dropped.
MimeDecode(c) == DecodeBin(Only(c, 0 .. Pad), FALSE)

-----------------------------------------------------------------------------
\* input: [bytes, padding, at].  What encode makes of some bytes, with padding or without,
\* decode reads back, with a blank put anywhere into it too.  Another character is refused by
\* decode and dropped by mime_decode, and a text without its padding is refused by a decode
\* that requires it (base64.erl:117-119, 156-157).
Base64ReadsBack ==
  shim = "base64" =>
    LET text    == Base64Encode(input.bytes, input.padding)
        With(c) == InsertAt(text, 1 + (input.at % (Len(text) + 1)), c)
        whole   == Len(text) % 4 = 0
    IN  /\ Base64Decode(With(Blank), FALSE) = Ok(input.bytes)
        /\ Base64Decode(With(Blank), TRUE) = IF whole THEN Ok(input.bytes) ELSE Badarg
        /\ Base64Decode(With(Foreign), FALSE) = Badarg
        /\ MimeDecode(With(Foreign)) = Ok(input.bytes)

\* input: characters.  "RFC 4648 strict decoding (anything unexpected is badarg)"
\* (base64.erl:118-119): nothing but padding follows padding in what decode accepts.
PaddingEnds ==
  shim = "base64 text" /\ Base64Decode(input, TRUE).ok =>
    \A i \in DOMAIN input : input[i] = Pad => \A j \in i .. Len(input) : input[j] = Pad
=============================================================================
