------------------------------ MODULE Exchange ------------------------------
(***************************************************************************)
(* What one run of the guest promises the worker: one outcome, and if it   *)
(* is a response, one the bridge may give to that request.  A run may      *)
(* instead fail (runWasm throws), or end without a readable frame.         *)
(***************************************************************************)
EXTENDS Bridge

VARIABLES req, outcome

Allowed(r) == {Throws, NoOutput, Malformed} \union {Response(p) : p \in AnswersTo(r)}

Init == req \in Requests /\ outcome = Pending

Conclude ==
  /\ outcome = Pending
  /\ outcome' \in Allowed(req)
  /\ UNCHANGED req

Spec == Init /\ [][Conclude]_<<req, outcome>>
=============================================================================
