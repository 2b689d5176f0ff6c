--------------------------- MODULE MCReadStdinHost --------------------------
(* Capacities 2, 4, 8 and a limit of 10: like 4096 * 2^k against 10 MiB, the  *)
(* limit lies between two capacities.  The host reads in chunks of 4.         *)
EXTENDS ReadStdinHost

MCSizes == 0 .. 13
=============================================================================
