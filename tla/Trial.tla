-------------------------------- MODULE Trial --------------------------------
(***************************************************************************)
(* The frame in which the pure shims are looked at: a shim, and one of the *)
(* inputs it is tried with, are all the state there is.                    *)
(***************************************************************************)
CONSTANT Inputs   \* for each shim under test, the inputs to try

VARIABLES shim, input

vars == <<shim, input>>

Init == shim \in DOMAIN Inputs /\ input \in Inputs[shim]

\* The shims are pure.
Next == UNCHANGED vars

Spec == Init /\ [][Next]_vars
=============================================================================
