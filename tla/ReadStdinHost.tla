--------------------------- MODULE ReadStdinHost ----------------------------
(***************************************************************************)
(* host_io:read_stdin/0 twice over the same stdin: the NIF (ReadStdin) and *)
(* the Erlang body that takes its place on the host (host_io.erl:22-41),   *)
(* there called "a faithful re-implementation of the C behaviour".         *)
(***************************************************************************)
EXTENDS ReadStdin

CONSTANT HostChunk   \* what one file:read asks for: 65536

ASSUME HostChunkAssumption == HostChunk \in Nat \ {0}

VARIABLES
  acc,      \* byte_size(Acc)
  hpc,      \* "read", or how the function was left: "ok", "refused"
  hfailed   \* file:read has returned an error

hvars == <<acc, hpc, hfailed>>

HInit == Init /\ acc = 0 /\ hpc = "read" /\ hfailed = FALSE

\* Mutant: the limit is tested on what was read before this chunk.
HostReadTestsFirst ==
  /\ hpc = "read" /\ acc < total
  /\ \E n \in 1 .. Least(HostChunk, total - acc) : acc' = acc + n
  /\ hpc' = IF acc > MaxInput THEN "refused" ELSE "read"
  /\ UNCHANGED <<vars, hfailed>>

\* {ok, Bin}: between one byte and a whole chunk; input_too_large over the limit.
HostRead ==
  /\ hpc = "read" /\ acc < total
  /\ \E n \in 1 .. Least(HostChunk, total - acc) : acc' = acc + n
  /\ hpc' = IF acc' > MaxInput THEN "refused" ELSE "read"
  /\ UNCHANGED <<vars, hfailed>>

HostEof ==
  /\ hpc = "read" /\ acc = total
  /\ hpc' = "ok"
  /\ UNCHANGED <<vars, acc, hfailed>>

\* {error, _} ends the loop like eof: what was read so far is the result.
HostReadError ==
  /\ hpc = "read"
  /\ hpc' = "ok" /\ hfailed' = TRUE
  /\ UNCHANGED <<vars, acc>>

NifStep ==
  /\ \/ Malloc \/ CallFread \/ FreadFromBuffer \/ FreadFromHost
     \/ AfterFread \/ Grow \/ MakeTerm
  /\ UNCHANGED hvars

BothOver == Returned /\ hpc # "read" /\ UNCHANGED <<vars, hvars>>

HNext == NifStep \/ HostRead \/ HostEof \/ HostReadError \/ BothOver

HSpec == HInit /\ [][HNext]_<<vars, hvars>>

\* One thread runs the NIF to its end: it never pauses while a step is possible.
HFairSpec == HSpec /\ WF_<<vars, hvars>>(NifStep)

-----------------------------------------------------------------------------
\* Neither was refused memory or failed to read.
Undisturbed == Returned /\ hpc # "read" /\ ~denied /\ ~hfailed

\* Whatever the two do is the same for a stdin of at most half the limit, and over the
\* limit both refuse: a test that passes on the host holds for the guest there
\* (host_io.erl:10-11).
TwinsAgree ==
  Undisturbed =>
    /\ 2 * total <= MaxInput => pc = "done" /\ hpc = "ok" /\ len = total /\ acc = total
    /\ total > MaxInput      => pc = "oom" /\ hpc = "refused"

\* host_io.erl:10-11, "a faithful re-implementation of the C behaviour", with the "10 MB
\* limit" of host_io.erl:7: the same stdin is accepted by both or refused by both.
SameVerdict == Undisturbed => (pc = "done" <=> hpc = "ok")
=============================================================================
