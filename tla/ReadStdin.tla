------------------------------ MODULE ReadStdin ------------------------------
(***************************************************************************)
(* host_io:read_stdin/0 on AtomVM: nif_wasi_read_stdin reads the whole     *)
(* request from stdin into a growing buffer (platform_nifs.c:37-80).  Each *)
(* fread is served by wasi-libc's stdin FILE, which refills itself through *)
(* the worker's fd_read on file descriptor 0 (index.js:135-161).           *)
(*                                                                         *)
(* Bytes are counted, not named: stdin, the FILE's buffer and the NIF's    *)
(* buffer each hold an interval of the input, and what can go wrong is an  *)
(* interval that is cut short, skipped or never finished.                  *)
(***************************************************************************)
EXTENDS Wasi

CONSTANTS
  InitCap,     \* first capacity of the buffer: 4096
  MaxInput,    \* MAX_INPUT_SIZE: 10 MiB
  StdioBuf,    \* size of the stdin FILE's own buffer
  Sizes        \* the sizes of stdin considered

ASSUME InitCapAssumption  == InitCap \in Nat \ {0}
ASSUME MaxInputAssumption == MaxInput \in Nat /\ InitCap <= MaxInput
ASSUME StdioBufAssumption == StdioBuf \in Nat \ {0}
ASSUME SizesAssumption    == Sizes \subseteq Nat

VARIABLES
  total,     \* stdinBytes.length, fixed for a run
  stdinPos,  \* the worker's read position in stdin
  avail,     \* bytes the FILE has read ahead and not yet handed out
  eof,       \* the FILE's end-of-file flag
  capacity,  \* local of the NIF: size of buf
  len,       \* local of the NIF: bytes of earlier freads
  want,      \* bytes the current fread still has to deliver
  got,       \* bytes the current fread has delivered (its result n)
  buf,       \* ownership of the malloc'd buffer
  denied,    \* an allocation has failed
  pc

host   == <<total, stdinPos>>
file   == <<avail, eof>>
locals == <<capacity, len>>
call   == <<want, got>>
vars   == <<total, stdinPos, avail, eof, capacity, len, want, got, buf, denied, pc>>

Init ==
  /\ total \in Sizes
  /\ stdinPos = 0
  /\ avail = 0 /\ eof = FALSE
  /\ capacity = InitCap /\ len = 0
  /\ want = 0 /\ got = 0
  /\ buf = "none" /\ denied = FALSE
  /\ pc = "malloc"

-----------------------------------------------------------------------------
\* Leaving the NIF: with the term, or by RAISE_ERROR(OUT_OF_MEMORY_ATOM).
FreeAndRaise == pc' = "oom" /\ buf' = "freed"

Malloc ==
  /\ pc = "malloc"
  /\ \/ buf' = "live" /\ pc' = "loop" /\ denied' = FALSE
     \/ buf' = "none" /\ pc' = "oom" /\ denied' = TRUE
  /\ UNCHANGED <<host, file, locals, call>>

\* fread(buf + len, 1, capacity - len, stdin)
CallFread ==
  /\ pc = "loop"
  /\ want' = capacity - len /\ got' = 0
  /\ pc' = "fread"
  /\ UNCHANGED <<host, file, locals, buf, denied>>

\* fread first empties the FILE's buffer ...
FreadFromBuffer ==
  /\ pc = "fread" /\ want > 0 /\ avail > 0
  /\ LET k == Least(avail, want)
     IN  avail' = avail - k /\ got' = got + k /\ want' = want - k
  /\ UNCHANGED <<host, eof, locals, buf, denied, pc>>

\* Mutant: what was read ahead counts as delivered.
FreadFromHostCountsAhead ==
  /\ pc = "fread" /\ want > 0 /\ avail = 0
  /\ LET cnt == FdRead(total - stdinPos, want - 1, StdioBuf) IN
       /\ stdinPos' = stdinPos + cnt
       /\ eof' = (cnt = 0)
       /\ got' = got + cnt /\ want' = IF cnt = 0 THEN 0 ELSE want - cnt
       /\ avail' = cnt - Least(cnt, want)
  /\ UNCHANGED <<total, locals, buf, denied, pc>>

\* ... and then reads into the caller's memory and, as a second iovec, ahead into its own
\* buffer, of which the last byte of the request is taken.  A read of nothing is the end.
FreadFromHost ==
  /\ pc = "fread" /\ want > 0 /\ avail = 0
  /\ LET cnt == FdRead(total - stdinPos, want - 1, StdioBuf) IN
       /\ stdinPos' = stdinPos + cnt
       /\ eof' = (cnt = 0)
       /\ IF cnt = 0
          THEN want' = 0 /\ UNCHANGED <<got, avail>>
          ELSE LET k == Least(cnt, want)
               IN  got' = got + k /\ want' = want - k /\ avail' = cnt - k
  /\ UNCHANGED <<total, locals, buf, denied, pc>>

\* Mutant: only an empty read ends the loop, without a look at len against capacity.
AfterFreadNoFullTest ==
  /\ pc = "fread" /\ want = 0
  /\ len' = len + got
  /\ pc' = IF got = 0 \/ eof THEN "term" ELSE "loop"
  /\ UNCHANGED <<host, file, capacity, call, buf, denied>>

\* Mutant: only the test for a full buffer is left.
AfterFreadMissesEnd ==
  /\ pc = "fread" /\ want = 0
  /\ len' = len + got
  /\ pc' = IF len + got = capacity THEN "grow" ELSE "loop"
  /\ UNCHANGED <<host, file, capacity, call, buf, denied>>

\* len += n, the break, and the test for a full buffer.
AfterFread ==
  /\ pc = "fread" /\ want = 0
  /\ len' = len + got
  /\ pc' = IF got = 0 \/ eof THEN "term"
           ELSE IF len + got = capacity THEN "grow" ELSE "loop"
  /\ UNCHANGED <<host, file, capacity, call, buf, denied>>

\* Mutant: the doubled capacity is doubled again before it is compared.
GrowDoublesFirst ==
  /\ pc = "grow"
  /\ \/ /\ capacity * 2 * 2 > MaxInput
        /\ FreeAndRaise /\ UNCHANGED <<capacity, denied>>
     \/ /\ capacity * 2 * 2 <= MaxInput
        /\ capacity' = capacity * 2 /\ pc' = "loop" /\ UNCHANGED <<buf, denied>>
  /\ UNCHANGED <<host, file, len, call>>

\* The test against the limit, then realloc.
Grow ==
  /\ pc = "grow"
  /\ \/ /\ capacity * 2 > MaxInput
        /\ FreeAndRaise /\ UNCHANGED <<capacity, denied>>
     \/ /\ capacity * 2 <= MaxInput
        /\ capacity' = capacity * 2 /\ pc' = "loop" /\ UNCHANGED <<buf, denied>>
     \/ /\ capacity * 2 <= MaxInput
        /\ FreeAndRaise /\ denied' = TRUE /\ UNCHANGED capacity
  /\ UNCHANGED <<host, file, len, call>>

\* Mutant: the early return forgets the buffer.
MakeTermLeaks ==
  /\ pc = "term"
  /\ \/ buf' = "freed" /\ pc' = "done" /\ UNCHANGED denied
     \/ pc' = "oom" /\ denied' = TRUE /\ UNCHANGED buf
  /\ UNCHANGED <<host, file, locals, call>>

\* memory_ensure_free, then the copy into a binary of len bytes; buf is freed either way.
MakeTerm ==
  /\ pc = "term"
  /\ \/ buf' = "freed" /\ pc' = "done" /\ UNCHANGED denied
     \/ FreeAndRaise /\ denied' = TRUE
  /\ UNCHANGED <<host, file, locals, call>>

Returned == pc \in {"done", "oom"}

\* The NIF is called once per run, so nothing follows its return.
Idle == Returned /\ UNCHANGED vars

Next ==
  \/ Malloc \/ CallFread \/ FreadFromBuffer \/ FreadFromHost
  \/ AfterFread \/ Grow \/ MakeTerm \/ Idle

Spec == Init /\ [][Next]_vars

-----------------------------------------------------------------------------
PCs == {"malloc", "loop", "fread", "grow", "term", "done", "oom"}

\* The types of the state (platform_nifs.c:41-44, index.js:42).
TypeOK ==
  /\ total \in Sizes
  /\ stdinPos \in Nat /\ avail \in Nat /\ eof \in BOOLEAN
  /\ capacity \in Nat /\ len \in Nat
  /\ want \in Nat /\ got \in Nat
  /\ buf \in {"none", "live", "freed"} /\ denied \in BOOLEAN
  /\ pc \in PCs

\* No byte is lost, duplicated or written past the end of the buffer while it moves from
\* the worker through the FILE's read-ahead into buf (platform_nifs.c:50-51,
\* index.js:152-157).
NothingLost ==
  /\ stdinPos <= total
  /\ pc = "fread" => len + got + avail = stdinPos /\ len + got + want <= capacity
  /\ pc \in {"loop", "grow", "term"} => len + avail = stdinPos /\ len <= capacity

\* The guest never sees a truncated request: read_stdin either raises or returns all of
\* stdin.  A request of exactly the capacity must not be taken for a finished one
\* (platform_nifs.c:52-54: the break on n = 0 and feof).
WholeRequest == pc = "done" => len = total

\* out_of_memory without a failed allocation means the input reached the last capacity
\* that still fits the limit: no input of at most half of MAX_INPUT_SIZE is refused
\* (platform_nifs.c:55-59).
RefusedOnlyWhenFull ==
  pc = "oom" /\ ~denied => total >= capacity /\ capacity * 2 > MaxInput

\* The buffer never outgrows MAX_INPUT_SIZE, and no way out of the NIF leaks it or uses it
\* after it was freed (platform_nifs.c:45-47, 56-59, 62-66, 72-79).
BufferSafe ==
  /\ capacity <= MaxInput
  /\ (buf = "live") <=> (pc \in {"loop", "fread", "grow", "term"})

\* The loop ends for every size of stdin (platform_nifs.c:49-69).
ReadReturns == <>Returned
=============================================================================
