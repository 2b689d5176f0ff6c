------------------------------ MODULE UriString ------------------------------
(***************************************************************************)
(* The uri_string shim (uri_string.erl).  A part that may be undefined is  *)
(* a sequence of at most one element.                                      *)
(***************************************************************************)
EXTENDS Erl, Trial

Hash      == 35
Percent   == 37
Ampersand == 38
Plus      == 43
Slash     == 47
Colon    == 58
Equals   == 61
Question == 63
AtSign   == 64
Space    == 32

None    == <<>>
Some(v) == <<v>>

\* A query is made of pairs that are not empty, joined by one ampersand or more.
IsPairs(x) ==
  /\ x.pairs \in Seq(Seq(Byte) \X Seq(Seq(Byte)))
  /\ \A i \in DOMAIN x.pairs : Len(x.pairs[i][2]) <= 1 /\ x.pairs[i] # <<<<>>, None>>
  /\ x.joint \in Seq({Ampersand}) /\ x.joint # <<>>

ASSUME QueriesAssumption ==
  "query" \in DOMAIN Inputs => \A x \in Inputs["query"] : IsPairs(x)

Optional(S) == {part \in Seq(S) : Len(part) <= 1}

Without(b, bytes) == \A i \in DOMAIN b : b[i] \notin bytes

SchemeBytes == (97 .. 122) \union (65 .. 90) \union Digits \union {43, 45, 46}

IsScheme(b) == b # <<>> /\ \A i \in DOMAIN b : b[i] \in SchemeBytes

\* The parts that RFC 3986 lets a URI or a relative reference have, but for a host with a
\* colon in it (an IP literal) and a port without digits.
IsUri(x) ==
  /\ {x.scheme, x.userinfo, x.host, x.query, x.fragment} \subseteq Optional(Seq(Byte))
  /\ x.port \in Optional(Seq(Digits)) /\ x.path \in Seq(Byte)
  /\ x.scheme = None \/ IsScheme(x.scheme[1])
  /\ x.userinfo = None \/ Without(x.userinfo[1], {AtSign, Slash, Question, Hash})
  /\ x.host = None \/ Without(x.host[1], {AtSign, Colon, Slash, Question, Hash})
  /\ x.port = None \/ x.port[1] # <<>>
  /\ Without(x.path, {Question, Hash})
  /\ x.query = None \/ Without(x.query[1], {Hash})
  /\ x.host # None => At(x.path, 0) \in {Slash, -1}
  /\ x.host = None => x.userinfo = None /\ x.port = None
                        /\ ~(At(x.path, 0) = Slash /\ At(x.path, 1) = Slash)
  /\ x.scheme = None /\ x.host = None =>
       \A i \in DOMAIN x.path : x.path[i] = Colon => \E k \in 1 .. i - 1 : x.path[k] = Slash

ASSUME UrisAssumption == "uri" \in DOMAIN Inputs => \A x \in Inputs["uri"] : IsUri(x)

-----------------------------------------------------------------------------
(* Query strings *)

\* A call of percent_decode/2 is what is left of the binary and what has been decoded.
Call(rest, acc) == [rest |-> rest, acc |-> acc]

\* Mutant: a plus sign is left alone.
NextCallKeepsPlus(call) ==
  LET b == call.rest IN
  CASE b = <<>> -> call
    [] b # <<>> /\ b[1] = Percent /\ Len(b) >= 3 ->
         Call(From(b, 3), Append(call.acc, 16 * Hex(b[2]) + Hex(b[3])))
    [] OTHER -> Call(From(b, 1), Append(call.acc, b[1]))

\* A percent sign without two digits keeps the two bytes behind it as they are.
NextCall(call) ==
  LET b == call.rest IN
  CASE b = <<>> -> call
    [] b # <<>> /\ b[1] = Percent /\ Len(b) >= 3 ->
         Call(From(b, 3), IF Hex(b[2]) >= 0 /\ Hex(b[3]) >= 0
                          THEN Append(call.acc, 16 * Hex(b[2]) + Hex(b[3]))
                          ELSE call.acc \o SubSeq(b, 1, 3))
    [] b # <<>> /\ b[1] = Plus -> Call(From(b, 1), Append(call.acc, Space))
    [] OTHER -> Call(From(b, 1), Append(call.acc, b[1]))

\* The first calls for b; every one but the last takes a byte at least.
Calls(b) ==
  LET call[k \in 0 .. Len(b)] == IF k = 0 THEN Call(b, <<>>) ELSE NextCall(call[k - 1])
  IN  call

PercentDecode(b) == Calls(b)[Len(b)].acc

\* A key and its value; a part without "=" has none (the code's true).
KeyValue(part) ==
  LET kv == Split(part, Equals)
  IN  <<PercentDecode(kv[1]), IF Len(kv) = 2 THEN Some(PercentDecode(kv[2])) ELSE None>>

\* filtermap: a part that is empty gives nothing.
DissectQuery(query) ==
  LET parts == SplitAll(query, Ampersand)
  IN  FlattenSeq([i \in DOMAIN parts |-> IF parts[i] = <<>> THEN <<>> ELSE <<KeyValue(parts[i])>>])

-----------------------------------------------------------------------------
(* URIs *)

SplitScheme(b) ==
  LET parts == Split(b, Colon)
  IN  IF Len(parts) = 2 /\ IsScheme(parts[1])
      THEN [scheme |-> Some(parts[1]), rest |-> parts[2]]
      ELSE [scheme |-> None, rest |-> b]

SplitFirst(b, c) ==
  LET parts == Split(b, c)
  IN  [before |-> parts[1], after |-> IF Len(parts) = 2 THEN Some(parts[2]) ELSE None]

\* Mutant: the query is split off before the fragment.
SplitTailQueryFirst(b) ==
  LET q == SplitFirst(b, Question)
      f == SplitFirst(q.before, Hash)
  IN  [rest |-> f.before, query |-> q.after, fragment |-> f.after]

\* The fragment is split off before the query.
SplitTail(b) ==
  LET f == SplitFirst(b, Hash)
      q == SplitFirst(f.before, Question)
  IN  [rest |-> q.before, query |-> q.after, fragment |-> f.after]

SplitAuthority(b) ==
  IF ~(At(b, 0) = Slash /\ At(b, 1) = Slash) THEN [authority |-> None, path |-> b]
  ELSE LET rest == From(b, 2)
           i    == SelectInSeq(rest, LAMBDA x : x = Slash)
       IN  IF i = 0 THEN [authority |-> Some(rest), path |-> <<>>]
           ELSE [authority |-> Some(SubSeq(rest, 1, i - 1)), path |-> From(rest, i - 1)]

\* What follows the first colon is a port if it reads as an integer.
SplitPort(b) ==
  LET parts == Split(b, Colon)
  IN  IF Len(parts) = 2 /\ IsInteger(parts[2])
      THEN [host |-> parts[1], port |-> Some(BinaryToInteger(parts[2]))]
      ELSE [host |-> b, port |-> None]

\* The map, and the pairs whose value is not undefined.
AddOptional(map, pairs) ==
  [k \in DOMAIN map \union {k \in DOMAIN pairs : pairs[k] # None} |->
     IF k \in DOMAIN map THEN map[k] ELSE pairs[k][1]]

ParseUri(s) ==
  LET top       == SplitScheme(s)
      tail      == SplitTail(top.rest)
      a         == SplitAuthority(tail.rest)
      authority == Split(a.authority[1], AtSign)
      userinfo  == IF Len(authority) = 2 THEN Some(authority[1]) ELSE None
      hp        == SplitPort(authority[Len(authority)])
  IN  IF a.authority = None
      THEN AddOptional([path |-> a.path],
                       [scheme |-> top.scheme, query |-> tail.query, fragment |-> tail.fragment])
      ELSE AddOptional([host |-> hp.host, path |-> a.path],
                       [scheme |-> top.scheme, userinfo |-> userinfo, port |-> hp.port,
                        query |-> tail.query, fragment |-> tail.fragment])

-----------------------------------------------------------------------------
\* application/x-www-form-urlencoded: letters stand for themselves, a space is a plus.
FormByte(c) ==
  CASE c = Space       -> <<Plus>>
    [] c \in 97 .. 122 -> <<c>>
    [] OTHER           -> <<Percent, HexDigit(c \div 16), HexDigit(c % 16)>>

FormEncoded(b) == FlattenSeq([i \in DOMAIN b |-> FormByte(b[i])])

\* A pair in a query; its value may be missing.
FormPair(kv) == FormEncoded(kv[1]) \o (IF kv[2] = None THEN <<>> ELSE <<Equals>> \o FormEncoded(kv[2][1]))

\* input: [pairs, joint], keys with values or without.  dissect_query finds the pairs of an
\* encoded query in their order, whatever bytes keys and values have, and takes no empty part
\* for one (uri_string.erl:22-33).
QueriesReadBack ==
  shim = "query" =>
    DissectQuery(FlattenSeq([i \in DOMAIN input.pairs |-> input.joint \o FormPair(input.pairs[i])]))
      = input.pairs

-----------------------------------------------------------------------------
Text(part, before, after) == IF part = None THEN <<>> ELSE before \o part[1] \o after

\* RFC 3986, 3.2 and 5.3: the authority, and the text of the URI that has the parts x.
AuthorityText(x) ==
  Text(x.userinfo, <<>>, <<AtSign>>) \o (x.host[1] \o Text(x.port, <<Colon>>, <<>>))

HierarchyText(x) ==
  IF x.host = None THEN x.path ELSE (<<Slash, Slash>> \o AuthorityText(x)) \o x.path

UriText(x) ==
  Text(x.scheme, <<>>, <<Colon>>)
    \o ((HierarchyText(x) \o Text(x.query, <<Question>>, <<>>)) \o Text(x.fragment, <<Hash>>, <<>>))

\* What OTP's parse/1 makes of them: the parts there are, the port as a number.
PortNumber(port) == IF port = None THEN None ELSE Some(BinaryToInteger(port[1]))

Present(parts) == [k \in {k \in DOMAIN parts : parts[k] # None} |-> parts[k][1]]

UriMap(x) ==
  Present([scheme |-> x.scheme, userinfo |-> x.userinfo, host |-> x.host,
           port |-> PortNumber(x.port), path |-> Some(x.path),
           query |-> x.query, fragment |-> x.fragment])

\* input: the parts of a URI.  parse finds in its text exactly these parts: none is missed, none
\* that is missing is taken to be there, not even as an empty one, and each has the bytes that
\* it was given, although a delimiter of one part is an ordinary byte of another
\* ("covers RFC 3986 well enough for http(s) request URLs", uri_string.erl:10-13).
PartsAreTheUris == shim = "uri" => ParseUri(UriText(input)) = UriMap(input)
=============================================================================
