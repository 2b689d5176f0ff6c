-------------------------------- MODULE Shims --------------------------------
(***************************************************************************)
(* The pure shims together, each with inputs of its own.                   *)
(***************************************************************************)
EXTENDS Base64, UriString, Json, Rand
=============================================================================
