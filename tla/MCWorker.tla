------------------------------ MODULE MCWorker ------------------------------
(* Two fetches whose handlers answer differently, of every kind of body       *)
(* around a limit of one.                                                     *)
EXTENDS Worker

CONSTANTS f1, f2

MCSentinel == <<1, 0>>
MCInvalid  == <<0>>
MCBad      == <<1>>
MCNoCont   == <<1, 1>>
MCFiles    == <<0, 1>>
MCOf1      == {<<1, 0>>, <<0, 0>>}
MCOf2      == {<<1, 0, 0>>}
MCPayloads == {MCInvalid, MCBad, MCNoCont, MCFiles} \union MCOf1 \union MCOf2

Serving(as) == [purpose |-> "serve", form |-> "ok", answers |-> as]
MCWarmup    == [purpose |-> "warmup", form |-> "ok", answers |-> {}]
MCFetches   == {f1, f2}
MCRequestOf == [f \in MCFetches |-> IF f = f1 THEN Serving(MCOf1) ELSE Serving(MCOf2)]
MCRequests  == {MCWarmup, Serving(MCOf1), Serving(MCOf2)}

Message(b, d, n) == [hasBody |-> b, declared |-> d, size |-> n]
MCMessages  ==
  {Message(FALSE, -1, 0), Message(TRUE, 2, 2), Message(TRUE, -1, 2), Message(TRUE, 1, 1)}

MCRejected == {<<0, 0>>}
MCNullBody == {<<1, 1>>} \union MCOf2
MCPrints   == {<<1, 0>>}
MCLate     == {<<0>>}
MCTrailer  == <<0, 1>>
=============================================================================
