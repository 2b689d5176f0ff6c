------------------------------- MODULE MCGuest -------------------------------
(* Bytes are bits and the marker is 10, so that payloads, lengths and prints  *)
(* run into it all the time; Decode knows six payloads.                       *)
EXTENDS Guest

MCSentinel == <<1, 0>>
MCInvalid  == <<0>>
MCBad      == <<1>>
MCNoCont   == <<1, 1>>
MCFiles    == <<0, 1>>
MCAnswers  == {<<1, 0>>, <<1, 0, 0>>}
MCPayloads == {MCInvalid, MCBad, MCNoCont, MCFiles} \union MCAnswers

MCRequests ==
  {[purpose |-> "serve", form |-> f, answers |-> MCAnswers] :
     f \in {"ok", "invalid payload", "bad method"}}
  \union {[purpose |-> "warmup", form |-> "ok", answers |-> {}]}

MCPrints   == {<<1, 0>>, <<0>>}
MCLate     == {<<0>>}
MCTrailer  == <<0, 1>>
=============================================================================
