------------------------------- MODULE MCShims -------------------------------
(* Inputs for the shims: bytes that need escapes, delimiters in every place.   *)
EXTENDS Shims

MCBase64 == [bytes : UNION {[1 .. n -> {0, 1, 190, 255}] : n \in 0 .. 4},
             padding : BOOLEAN, at : 0 .. 4]

MCTexts == {<<>>, <<97>>, <<38, 61>>, <<32, 43>>, <<37, 52, 49>>, <<200>>}
MCPairs == ({k \in MCTexts : k # <<>>} \X {None}) \union (MCTexts \X {<<t>> : t \in MCTexts})
MCQueries == [pairs : UNION {[1 .. n -> MCPairs] : n \in 0 .. 2},
              joint : {<<Ampersand>>, <<Ampersand, Ampersand>>}]

\* Parts that are missing, empty, or hold delimiters of other parts.
MCMaybe(S) == {None} \union {Some(t) : t \in S}
MCUris ==
  {x \in [scheme   : MCMaybe({<<97>>, <<56, 43>>}),
          userinfo : MCMaybe({<<>>, <<97, Colon>>}),
          host     : MCMaybe({<<>>, <<97>>, <<56>>}),
          port     : MCMaybe({<<56>>, <<48, 56>>}),
          path     : {<<>>, <<97>>, <<Slash>>, <<97, Colon>>, <<Slash, Colon, 56>>, <<Slash, Slash>>,
                      <<97, Slash, Slash, AtSign, Colon>>, <<Slash, 97, Slash, Slash, AtSign>>},
          query    : MCMaybe({<<>>, <<Colon, 56>>, <<Question, Slash, AtSign>>}),
          fragment : MCMaybe({<<>>, <<Colon>>, <<Question, Hash, Slash>>})] : IsUri(x)}

MCStrings == [type : {"string"},
              value : {<<>>} \union {<<a>> : a \in 0 .. 255}
                        \union [1 .. 2 -> {0, 9, 10, 31, 34, 47, 92, 110, 117, 226}]]
MCScalars ==
  [type : {"integer"}, value : {0, 7, -12, 305}]
    \union [type : {"atom"}, value : {"true", "false", "null"}]
    \union [type : {"float"}, value : {<<48, 46, 53>>, <<45, 49, 46, 50, 101, 45, 51>>}]
    \union [type : {"string"}, value : {<<>>, <<34, 93>>}]
MCKeys == {<<>>, <<34, 58>>}

MCUpToTwo(S)  == UNION {[1 .. n -> S] : n \in 0 .. 2}
MCArrays(vs)  == [type : {"array"}, value : MCUpToTwo(vs)]
MCObjects(vs) == [type : {"object"}, value : MCUpToTwo([key : MCKeys, value : vs])]
MCFlat   == MCArrays(MCScalars) \union MCObjects(MCScalars)
MCNested == LET few    == {Typed("integer", 7), Typed("array", <<>>), Typed("object", <<>>)}
                two    == MCArrays(few) \union MCObjects(few)
                in1(v) == {Typed("array", <<v>>), Typed("object", <<[key |-> <<>>, value |-> v]>>)}
            IN  UNION {in1(v) \union UNION {in1(w) : w \in in1(v)} : v \in two}

\* The deepest of them have four values inside one another.
MCJson == [n : {4}, value : MCStrings \union MCScalars \union MCFlat \union MCNested,
           blank : {<<>>, <<32>>, <<9, 10>>}]

\* Words of 4 bits: one draw up to 16, two up to 64.
MCRand == 1 .. 64

MCInputs == ("base64" :> MCBase64) @@ ("query" :> MCQueries) @@ ("uri" :> MCUris)
              @@ ("json" :> MCJson) @@ ("rand" :> MCRand)

MCEscapes     == "escape" :> {65, 233, 8364, 128512}
MCBase64Texts == "base64 text" :> UNION {[1 .. n -> {0, 17, Pad}] : n \in 0 .. 8}
=============================================================================
