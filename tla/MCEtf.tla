-------------------------------- MODULE MCEtf --------------------------------
(* Requests and responses whose parts look like terms.                         *)
EXTENDS Etf

MCTexts   == {<<>>, <<109, 0>>, <<104, 5, 119, 6>>}
MCHeaders == {<<>>} \union {<<<<k, v>>>> : k, v \in MCTexts}
               \union {<<<<<<1>>, <<106>>>>, <<<<2>>, <<>>>>>>}

MCRequests ==
  [method : {<<71>>, Warmup}, url : MCTexts, headers : MCHeaders, body : MCTexts,
   warmup : BOOLEAN]

MCResponses ==
  [status : {0, 200, 255, 256, 404, 599}, headers : MCHeaders, body : MCTexts]

MCWireInputs ==
  [status : {100, 300}, headers : {<<>>, <<<<<<1>>, <<106>>>>>>}, body : {<<>>, <<97, 1>>}]

MCDamage == {0, 1, 2, 3, 97, 98, 104, 106, 109}
=============================================================================
