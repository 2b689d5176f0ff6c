------------------------------ MODULE MCPlatform -----------------------------
(* Chunks of 2, sizes of up to 5 bytes; a second has 2 ms of 3 ns; two processes. *)
(* AtomVM's own atoms may already hold one of the platform's.                     *)
EXTENDS Platform

A == "ascii"

MCArgs == << <<A, A>>, <<A>> >>
MCEnvironments == { << <<A, A>>, <<A>> >>, << <<A, "latin">>, <<"emoji">> >> }

MCAtomNames == {"ok", "wasi", "http_request", "http_response", "unix", "linux"}
MCDefaultTables == { <<"ok", "wasi">>, <<"ok", "linux">> }

MCArguments == {-1, 0, 5}
MCTimeouts  == {0, 2}
=============================================================================
