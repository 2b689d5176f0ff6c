-------------------------------- MODULE Json --------------------------------
(***************************************************************************)
(* The json shim (json.erl).  A value has a type; an object is a function  *)
(* from its keys, and a float is named by its literal.  Every error the    *)
(* decoder raises is NoJson.                                               *)
(***************************************************************************)
EXTENDS Erl, Trial

CONSTANTS
  MaxDepth,      \* MAX_DEPTH, 32 in the code
  MaxJsonSize    \* MAX_JSON_SIZE, 10 MiB in the code

ASSUME LimitsAssumption == MaxDepth \in Nat /\ MaxJsonSize \in Nat

Quote       == 34
Backslash   == 92
Comma       == 44
OpenArray   == 91
CloseArray  == 93
OpenObject  == 123
CloseObject == 125
LetterU     == 117
Blanks      == {9, 10, 13, 32}

Typed(type, v) == [type |-> type, value |-> v]

\* What a function of the decoder returns: a value and the position after it, or an error, or
\* that it calls itself again, with what it has so far.
NoJson     == [open |-> FALSE, ok |-> FALSE]
Json(v, p) == [open |-> FALSE, ok |-> TRUE, value |-> v, pos |-> p]
Open(v, p) == [open |-> TRUE, ok |-> FALSE, value |-> v, pos |-> p]

-----------------------------------------------------------------------------
(* Encoding *)

\* Mutant: the backslash goes out as it is.
EscapeByteKeepsBackslash(c) ==
  CASE c = Quote -> <<Backslash, Quote>>
    [] c = 10    -> <<Backslash, 110>>
    [] c = 13    -> <<Backslash, 114>>
    [] c = 9     -> <<Backslash, 116>>
    [] c < 32 /\ c \notin {9, 10, 13} -> <<Backslash, LetterU, 48, 48, HexDigit(c \div 16), HexDigit(c % 16)>>
    [] OTHER     -> <<c>>

EscapeByte(c) ==
  CASE c \in {Quote, Backslash} -> <<Backslash, c>>
    [] c = 10 -> <<Backslash, 110>>
    [] c = 13 -> <<Backslash, 114>>
    [] c = 9  -> <<Backslash, 116>>
    [] c < 32 /\ c \notin {9, 10, 13} -> <<Backslash, LetterU, 48, 48, HexDigit(c \div 16), HexDigit(c % 16)>>
    [] OTHER  -> <<c>>

EncodeBinary(b) == <<Quote>> \o FlattenSeq([i \in DOMAIN b |-> EscapeByte(b[i])]) \o <<Quote>>

-----------------------------------------------------------------------------
(* Strings *)

\* hex_to_int/3 of the four bytes at p, or -1.
HexToInt(b, p) ==
  LET digit(i) == Hex(At(b, p + i))
  IN  IF \E i \in 0 .. 3 : digit(i) < 0 THEN -1
      ELSE ((digit(0) * 16 + digit(1)) * 16 + digit(2)) * 16 + digit(3)

HighSurrogates == 55296 .. 56319

\* A high surrogate takes the escape after it along, whatever that is.
DecUnicode(b, p) ==
  LET cp  == HexToInt(b, p)
      low == HexToInt(b, p + 6)
  IN  CASE cp < 0 -> NoJson
        [] cp >= 0 /\ cp \notin HighSurrogates -> Json(cp, p + 4)
        [] cp \in HighSurrogates ->
             IF At(b, p + 4) = Backslash /\ At(b, p + 5) = LetterU
             THEN IF low < 0 THEN NoJson ELSE Json(65536 + (cp - 55296) * 1024 + low - 56320, p + 10)
             ELSE IF p + 4 >= Len(b) \/ (At(b, p + 4) = Backslash /\ p + 5 >= Len(b)) THEN NoJson
                  ELSE Json(65533, p + 4)

ShortEscapes ==
  [c \in {Quote, Backslash, 47, 110, 114, 116, 98, 102} |->
     CASE c \in {Quote, Backslash, 47} -> c
       [] c = 110 -> 10
       [] c = 114 -> 13
       [] c = 116 -> 9
       [] c = 98  -> 8
       [] c = 102 -> 12]

DecEsc(b, p) ==
  CASE At(b, p) \in DOMAIN ShortEscapes -> Json(ShortEscapes[At(b, p)], p + 1)
    [] At(b, p) = LetterU               -> DecUnicode(b, p + 1)
    [] OTHER                            -> NoJson

\* A call of dec_str/3, whose arguments are s.  list_to_binary, at the closing quote, takes no
\* element above 255.
NextChar(b, s) ==
  LET c   == At(b, s.pos)
      esc == DecEsc(b, s.pos + 1)
  IN  CASE c = Quote /\ (\A i \in DOMAIN s.value : s.value[i] < 256) ->
             Json(Typed("string", s.value), s.pos + 1)
        [] c = Backslash /\ esc.ok         -> Open(Append(s.value, esc.value), esc.pos)
        [] c \notin {Quote, Backslash, -1} -> Open(Append(s.value, c), s.pos + 1)
        [] OTHER                           -> NoJson

\* What the first k calls come to.  Each takes a byte at least: there are no more of them
\* than bytes, and one for the end.
StringCalls(b, p) ==
  LET call[k \in Nat] ==
        IF k = 0 THEN Open(<<>>, p)
        ELSE LET s == call[k - 1] IN IF s.open THEN NextChar(b, s) ELSE s
  IN  call

DecStr(b, p) == StringCalls(b, p)[Len(b) + 1]

-----------------------------------------------------------------------------
(* Numbers: where a literal ends, and whether it is a float *)

\* The first position from p on whose byte is not in S.
Past(b, p, S) ==
  CHOOSE q \in p .. p + Len(b) : At(b, q) \notin S /\ \A r \in p .. q - 1 : At(b, r) \in S

SkipWs(b, p)    == Past(b, p, Blanks)
DigitsEnd(b, p) == Past(b, p, Digits)

CollectExp(b, p) == IF At(b, p) \in {43, 45} \union Digits THEN DigitsEnd(b, p + 1) ELSE p

\* A minus only at the start; a point only once, and not in the exponent.
CollectNum(b, p) ==
  LET point    == DigitsEnd(b, IF At(b, p) = 45 THEN p + 1 ELSE p)
      fraction == At(b, point) = 46
      exp      == IF fraction THEN DigitsEnd(b, point + 1) ELSE point
  IN  IF At(b, exp) \in {69, 101} THEN [end |-> CollectExp(b, exp + 1), isFloat |-> TRUE]
      ELSE [end |-> exp, isFloat |-> fraction]

DecodeNumber(b, p) ==
  LET n    == CollectNum(b, p)
      text == SubSeq(b, p + 1, n.end)
  IN  CASE n.isFloat /\ IsFloat(text)    -> Json(Typed("float", text), n.end)
        [] ~n.isFloat /\ IsInteger(text) -> Json(Typed("integer", BinaryToInteger(text)), n.end)
        [] OTHER                         -> NoJson

-----------------------------------------------------------------------------
(* Arrays and objects.  below says what value is read where inside them.   *)

\* Mutant: the end of the text closes an array.
NextItemOpenEnd(b, below, s) ==
  LET v     == below[s.pos]
      q     == SkipWs(b, v.pos)
      items == Append(s.value, v.value)
  IN  CASE v.ok /\ At(b, q) = Comma              -> Open(items, q + 1)
        [] v.ok /\ At(b, q) \in {CloseArray, -1} -> Json(Typed("array", items), q + 1)
        [] OTHER                                 -> NoJson

\* A call of decode_items/4.
NextItem(b, below, s) ==
  LET v     == below[s.pos]
      q     == SkipWs(b, v.pos)
      items == Append(s.value, v.value)
  IN  CASE v.ok /\ At(b, q) = Comma      -> Open(items, q + 1)
        [] v.ok /\ At(b, q) = CloseArray -> Json(Typed("array", items), q + 1)
        [] OTHER                         -> NoJson

\* maps:put/3.
Put(map, k, v) == [x \in DOMAIN map \union {k} |-> IF x = k THEN v ELSE map[x]]

\* The rest of decode_pairs/4 after a key: one byte is skipped for the colon, whichever it is.
PairAfter(key, b, below, s) ==
  LET v     == below[SkipWs(b, key.pos) + 1]
      q     == SkipWs(b, v.pos)
      pairs == Put(s.value, key.value.value, v.value)
  IN  CASE key.ok /\ v.ok /\ At(b, q) = Comma       -> Open(pairs, q + 1)
        [] key.ok /\ v.ok /\ At(b, q) = CloseObject -> Json(Typed("object", pairs), q + 1)
        [] OTHER                                    -> NoJson

\* A call of decode_pairs/4.  One byte is skipped for the quote before the key, whichever it is.
NextPair(b, below, s) == PairAfter(DecStr(b, SkipWs(b, s.pos) + 1), b, below, s)

NextEntry(type, b, below, s) ==
  IF type = "array" THEN NextItem(b, below, s) ELSE NextPair(b, below, s)

\* What the first k calls come to, of which each takes a byte at least.
EntryCalls(type, b, below, p) ==
  LET call[k \in Nat] ==
        IF k = 0 THEN Open(<<>>, p)
        ELSE LET s == call[k - 1] IN IF s.open THEN NextEntry(type, b, below, s) ELSE s
  IN  call

DecodeEntries(type, close, b, below, p) ==
  LET q == SkipWs(b, p) IN
  CASE At(b, q) = close -> Json(Typed(type, <<>>), q + 1)
    [] At(b, q) = -1    -> NoJson
    [] OTHER            -> EntryCalls(type, b, below, q)[Len(b) + 1]

DecodeArray(b, below, p)  == DecodeEntries("array", CloseArray, b, below, p)
DecodeObject(b, below, p) == DecodeEntries("object", CloseObject, b, below, p)

\* Literals are told by their first letter.
DecodeValue(b, below, p) ==
  LET q == SkipWs(b, p)
      c == At(b, q)
  IN  CASE c = OpenObject -> DecodeObject(b, below, q + 1)
        [] c = OpenArray  -> DecodeArray(b, below, q + 1)
        [] c = Quote      -> DecStr(b, q + 1)
        [] c = 116        -> Json(Typed("atom", "true"), q + 4)
        [] c = 102        -> Json(Typed("atom", "false"), q + 5)
        [] c = 110        -> Json(Typed("atom", "null"), q + 4)
        [] c \in {45} \union Digits -> DecodeNumber(b, q)
        [] OTHER          -> NoJson

\* What is read at each position, with at most n values inside one another.
Decoded(b) ==
  LET decoded[n \in Nat] == IF n = 0 THEN [p \in Nat |-> NoJson]
                            ELSE [p \in Nat |-> DecodeValue(b, decoded[n - 1], p)]
  IN  decoded

\* decode/1: whatever follows the value is not looked at.
DecodeJson(b) == IF Len(b) > MaxJsonSize THEN NoJson ELSE Decoded(b)[MaxDepth + 1][0]

-----------------------------------------------------------------------------
(* Documents: what gleam_json writes, with blanks where JSON allows them   *)

Plain ==
  [type : {"integer"}, value : Int] \union [type : {"atom"}, value : {"true", "false", "null"}]
    \union [type : {"float"}, value : {t \in Seq(Byte) : IsFloat(t) /\ t[1] # 43}]

\* The documents with at most n values inside one another; an object is the sequence of its
\* pairs, of which several may have the same key.
Documents[n \in Nat] ==
  IF n = 0 THEN {}
  ELSE Plain \union [type : {"string"}, value : Seq(Byte)]
         \union [type : {"array"}, value : Seq(Documents[n - 1])]
         \union [type : {"object"}, value : Seq([key : Seq(Byte), value : Documents[n - 1]])]

AtomTexts == [true |-> <<116, 114, 117, 101>>, false |-> <<102, 97, 108, 115, 101>>,
              null |-> <<110, 117, 108, 108>>]

\* Texts between brackets, with commas in between.
Enclosed(open, texts, close, blank) ==
  <<open>> \o (IF texts = <<>> THEN blank \o <<close>>
               ELSE FlattenSeq([i \in DOMAIN texts |->
                      texts[i] \o <<IF i = Len(texts) THEN close ELSE Comma>>]))

\* The text of a document, given those of the documents inside.
TextOf(v, inside, blank) ==
  LET Item(i) == blank \o inside[v.value[i]] \o blank
      Pair(i) == blank \o EncodeBinary(v.value[i].key) \o blank \o <<58>>
                   \o blank \o inside[v.value[i].value] \o blank
  IN  CASE v.type = "string"  -> EncodeBinary(v.value)
        [] v.type = "integer" -> IntegerToBinary(v.value)
        [] v.type = "float"   -> v.value
        [] v.type = "atom"    -> AtomTexts[v.value]
        [] v.type = "array"   -> Enclosed(OpenArray, [i \in DOMAIN v.value |-> Item(i)], CloseArray, blank)
        [] v.type = "object"  -> Enclosed(OpenObject, [i \in DOMAIN v.value |-> Pair(i)], CloseObject, blank)

Printings(blank) ==
  LET text[n \in Nat] == [v \in Documents[n] |-> TextOf(v, text[n - 1], blank)]
  IN  text

\* What a document means: of two values for a key the later one.
MeaningOf(v, inside) ==
  LET keys    == {v.value[i].key : i \in DOMAIN v.value}
      Latest(k) == CHOOSE i \in DOMAIN v.value :
                   /\ v.value[i].key = k
                   /\ \A j \in DOMAIN v.value : v.value[j].key = k => j <= i
  IN  CASE v.type = "array"  -> Typed("array", [i \in DOMAIN v.value |-> inside[v.value[i]]])
        [] v.type = "object" -> Typed("object", [k \in keys |-> inside[v.value[Latest(k)].value]])
        [] v.type \notin {"array", "object"} -> v

Meanings[n \in Nat] == [v \in Documents[n] |-> MeaningOf(v, Meanings[n - 1])]

-----------------------------------------------------------------------------
IsDocument(x) == x.n \in Nat /\ x.value \in Documents[x.n] /\ x.blank \in Seq(Blanks)

ASSUME JsonAssumption == "json" \in DOMAIN Inputs => \A x \in Inputs["json"] : IsDocument(x)

Printed(x) == x.blank \o Printings(x.blank)[x.n][x.value] \o x.blank

ReadsAs(got, value) == got.ok /\ got.value = value

\* input: [n, value, blank], a document with up to n values inside one another.  A printed
\* document is read back, strings of any bytes included, exactly when it is within the limits
\* on size and depth (json.erl:16-17, 20, 97).
IsReadWithinLimits(text, x) ==
  IF Len(text) <= MaxJsonSize /\ x.value \in Documents[MaxDepth + 1]
  THEN ReadsAs(DecodeJson(text), Meanings[x.n][x.value])
  ELSE ~DecodeJson(text).ok

JsonReadsBack == shim = "json" => IsReadWithinLimits(Printed(input), input)

RefusedWhenCut(text, end) == \A n \in 0 .. end - 1 : ~DecodeJson(SubSeq(text, 1, n)).ok

\* A string, array or object that is cut short is an error, wherever the cut is: no value is
\* made of a part of a document (json.erl:26-45).
CutsAreRefused ==
  shim = "json" /\ input.value.type \in {"string", "array", "object"} =>
    RefusedWhenCut(Printed(input), Len(Printed(input)) - Len(input.blank))

\* The UTF-8 bytes of a code point, and its escapes, a surrogate pair above U+FFFF.
Utf8(cp) ==
  CASE cp < 128   -> <<cp>>
    [] cp \in 128 .. 2047 -> <<192 + cp \div 64, 128 + (cp % 64)>>
    [] cp \in 2048 .. 65535 -> <<224 + cp \div 4096, 128 + ((cp \div 64) % 64), 128 + (cp % 64)>>
    [] cp > 65535 -> <<240 + cp \div 262144, 128 + ((cp \div 4096) % 64),
                       128 + ((cp \div 64) % 64), 128 + (cp % 64)>>

Escape(u) ==
  <<Backslash, LetterU, HexDigit(u \div 4096), HexDigit((u \div 256) % 16),
    HexDigit((u \div 16) % 16), HexDigit(u % 16)>>

Escaped(cp) ==
  IF cp < 65536 THEN Escape(cp)
  ELSE Escape(55296 + (cp - 65536) \div 1024) \o Escape(56320 + (cp % 1024))

\* input: a code point.  "AtomVM-compatible shim for OTP 27's json module" (json.erl:3): an
\* escaped character is read as the character itself, in UTF-8.
EscapesAreCharacters ==
  shim = "escape" =>
    ReadsAs(DecodeJson(<<Quote>> \o Escaped(input) \o <<Quote>>), Typed("string", Utf8(input)))
=============================================================================
