--------------------------- MODULE ReadStdinProofs ---------------------------
(***************************************************************************)
(* read_stdin for every size of stdin, every first capacity, limit and     *)
(* FILE buffer: the request is whole or refused, and a refusal has a       *)
(* cause.  NothingLost and WholeRequest are not inductive: they rest on    *)
(* every fread being asked for at least one byte (len < capacity at the    *)
(* head of the loop), so that an empty one can only mean the end of stdin. *)
(* Then where the NIF and its stand-in on the host agree: up to half the   *)
(* limit, and over it.  Between the two they need not.                     *)
(***************************************************************************)
EXTENDS ReadStdinHost, TLAPS

\* What each program point knows of the loop.
LoopInv ==
  /\ pc = "malloc" => len = 0 /\ stdinPos = 0 /\ avail = 0 /\ capacity = InitCap
  /\ pc \in {"malloc", "loop", "grow"} => ~eof
  /\ pc = "loop" => len < capacity
  /\ pc = "fread" => len < capacity
  /\ pc = "fread" /\ ~eof => len + got + want = capacity
  /\ pc = "fread" /\ eof => want = 0
  /\ pc = "grow" => len = capacity
  /\ pc = "term" => eof
  /\ eof => stdinPos = total /\ avail = 0
  /\ capacity > 0
  /\ denied => pc = "oom"

IInv ==
  /\ TypeOK /\ NothingLost /\ LoopInv /\ WholeRequest /\ RefusedOnlyWhenFull
  /\ BufferSafe

ConstantAssumptions ==
  /\ InitCap \in Nat \ {0}
  /\ MaxInput \in Nat /\ InitCap <= MaxInput
  /\ StdioBuf \in Nat \ {0}
  /\ Sizes \subseteq Nat

LEMMA Constants == ConstantAssumptions
BY InitCapAssumption, MaxInputAssumption, StdioBufAssumption, SizesAssumption
   DEF ConstantAssumptions

\* fd_read delivers what is there and no more, and nothing only at the end of stdin.
LEMMA FdReadBounds ==
  ASSUME NEW rest \in Nat, NEW l0 \in Nat, NEW l1 \in Nat \ {0}
  PROVE  /\ FdRead(rest, l0, l1) \in Nat
         /\ FdRead(rest, l0, l1) <= rest
         /\ FdRead(rest, l0, l1) = 0 => rest = 0
BY DEF FdRead, Least

LEMMA InitIInv == Init => IInv
<1> SUFFICES ASSUME Init PROVE IInv
  OBVIOUS
<1>1. TypeOK
  BY Constants DEF Init, TypeOK, PCs, ConstantAssumptions
<1>2. LoopInv
  BY Constants DEF Init, LoopInv, ConstantAssumptions
<1>3. NothingLost /\ WholeRequest /\ RefusedOnlyWhenFull /\ BufferSafe
  BY Constants
     DEF Init, NothingLost, WholeRequest, RefusedOnlyWhenFull, BufferSafe,
         ConstantAssumptions
<1>4. QED
  BY <1>1, <1>2, <1>3 DEF IInv

LEMMA StepIInv == IInv /\ [Next]_vars => IInv'
<1> SUFFICES ASSUME IInv, [Next]_vars PROVE IInv'
  OBVIOUS
<1> USE Constants DEF ConstantAssumptions, IInv, PCs, TypeOK
<1>1. CASE Malloc
  <2> USE <1>1 DEF Malloc, host, file, locals, call
  <2>1. TypeOK' /\ LoopInv'
    BY DEF LoopInv
  <2>2. NothingLost' /\ WholeRequest' /\ RefusedOnlyWhenFull' /\ BufferSafe'
    BY DEF LoopInv, NothingLost, WholeRequest, RefusedOnlyWhenFull, BufferSafe
  <2>3. QED
    BY <2>1, <2>2
<1>2. CASE CallFread
  <2> USE <1>2 DEF CallFread, host, file, locals
  <2>1. TypeOK' /\ LoopInv'
    BY DEF LoopInv
  <2>2. NothingLost' /\ WholeRequest' /\ RefusedOnlyWhenFull' /\ BufferSafe'
    BY DEF LoopInv, NothingLost, WholeRequest, RefusedOnlyWhenFull, BufferSafe
  <2>3. QED
    BY <2>1, <2>2
<1>3. CASE FreadFromBuffer
  <2> USE <1>3 DEF FreadFromBuffer, host, locals, Least
  <2>1. TypeOK' /\ LoopInv'
    BY DEF LoopInv
  <2>2. NothingLost' /\ WholeRequest' /\ RefusedOnlyWhenFull' /\ BufferSafe'
    BY DEF LoopInv, NothingLost, WholeRequest, RefusedOnlyWhenFull, BufferSafe
  <2>3. QED
    BY <2>1, <2>2
<1>4. CASE FreadFromHost
  <2> DEFINE cnt == FdRead(total - stdinPos, want - 1, StdioBuf)
  <2>1. /\ cnt \in Nat /\ cnt <= total - stdinPos
        /\ cnt = 0 => stdinPos = total
    <3>1. total - stdinPos \in Nat /\ want - 1 \in Nat
      BY <1>4 DEF FreadFromHost, NothingLost
    <3>2. QED
      BY <3>1, FdReadBounds
  <2> HIDE DEF cnt
  <2>2. /\ pc = "fread" /\ want > 0 /\ avail = 0
        /\ stdinPos' = stdinPos + cnt /\ eof' = (cnt = 0)
        /\ UNCHANGED <<total, capacity, len, buf, denied, pc>>
    BY <1>4 DEF FreadFromHost, locals, cnt
  <2>3. CASE cnt = 0
    <3>1. want' = 0 /\ eof' = TRUE /\ UNCHANGED <<got, avail>>
      BY <1>4, <2>3 DEF FreadFromHost, cnt
    <3>2. TypeOK' /\ LoopInv'
      BY <2>1, <2>2, <2>3, <3>1 DEF LoopInv
    <3>3. NothingLost' /\ WholeRequest' /\ RefusedOnlyWhenFull' /\ BufferSafe'
      BY <2>1, <2>2, <2>3, <3>1
         DEF NothingLost, WholeRequest, RefusedOnlyWhenFull, BufferSafe
    <3>4. QED
      BY <3>2, <3>3
  <2>4. CASE cnt # 0
    <3> DEFINE k == Least(cnt, want)
    <3>0. k \in Nat /\ k <= cnt /\ k <= want
      BY <2>1 DEF Least
    <3>1. /\ got' = got + k /\ want' = want - k /\ avail' = cnt - k
          /\ eof' = FALSE
      BY <1>4, <2>4 DEF FreadFromHost, cnt
    <3> HIDE DEF k
    <3>2. TypeOK' /\ LoopInv'
      BY <2>1, <2>2, <2>4, <3>0, <3>1 DEF LoopInv
    <3>3. NothingLost' /\ WholeRequest' /\ RefusedOnlyWhenFull' /\ BufferSafe'
      BY <2>1, <2>2, <2>4, <3>0, <3>1
         DEF LoopInv, NothingLost, WholeRequest, RefusedOnlyWhenFull, BufferSafe
    <3>4. QED
      BY <3>2, <3>3
  <2>5. QED
    BY <2>3, <2>4
<1>5. CASE AfterFread
  <2> USE <1>5 DEF AfterFread, host, file, call
  <2>0. ~eof => len + got = capacity /\ got # 0
    BY DEF LoopInv
  <2>1. TypeOK' /\ LoopInv'
    <3>1. CASE eof
      BY <3>1 DEF LoopInv
    <3>2. CASE ~eof
      BY <2>0, <3>2 DEF LoopInv
    <3>3. QED
      BY <3>1, <3>2
  <2>2. NothingLost' /\ WholeRequest' /\ RefusedOnlyWhenFull' /\ BufferSafe'
    BY DEF LoopInv, NothingLost, WholeRequest, RefusedOnlyWhenFull, BufferSafe
  <2>3. QED
    BY <2>1, <2>2
<1>6. CASE Grow
  <2> USE <1>6 DEF Grow, FreeAndRaise, host, file, call
  <2>1. TypeOK' /\ LoopInv'
    <3>1. TypeOK'
      <4>1. denied' \in BOOLEAN
        OBVIOUS
      <4>2. capacity' \in Nat /\ buf' \in {"none", "live", "freed"} /\ pc' \in PCs
        OBVIOUS
      <4>3. QED
        BY <4>1, <4>2
    <3>2. LoopInv'
      BY DEF LoopInv
    <3>3. QED
      BY <3>1, <3>2
  <2>2. NothingLost' /\ WholeRequest' /\ RefusedOnlyWhenFull' /\ BufferSafe'
    BY DEF LoopInv, NothingLost, WholeRequest, RefusedOnlyWhenFull, BufferSafe
  <2>3. QED
    BY <2>1, <2>2
<1>7. CASE MakeTerm
  <2> USE <1>7 DEF MakeTerm, FreeAndRaise, host, file, locals, call
  <2>1. TypeOK' /\ LoopInv'
    <3>1. denied' \in BOOLEAN
      OBVIOUS
    <3>2. TypeOK'
      BY <3>1
    <3>3. LoopInv'
      BY DEF LoopInv
    <3>4. QED
      BY <3>2, <3>3
  <2>2. NothingLost' /\ WholeRequest' /\ RefusedOnlyWhenFull' /\ BufferSafe'
    BY DEF LoopInv, NothingLost, WholeRequest, RefusedOnlyWhenFull, BufferSafe
  <2>3. QED
    BY <2>1, <2>2
<1>8. CASE UNCHANGED vars
  BY <1>8 DEF vars, LoopInv, NothingLost, WholeRequest, RefusedOnlyWhenFull, BufferSafe
<1>9. QED
  BY <1>1, <1>2, <1>3, <1>4, <1>5, <1>6, <1>7, <1>8 DEF Next, Idle

LEMMA Inductive == Spec => []IInv
BY InitIInv, StepIInv, PTL DEF Spec

\* The state keeps its types (platform_nifs.c:41-44).
THEOREM TypeCorrect == Spec => []TypeOK
BY Inductive, PTL DEF IInv

\* No byte of stdin is lost, duplicated or written past the buffer
\* (platform_nifs.c:50-51, index.js:152-157).
THEOREM NothingIsLost == Spec => []NothingLost
BY Inductive, PTL DEF IInv

\* read_stdin never returns a truncated request (platform_nifs.c:52-54).
THEOREM RequestIsWhole == Spec => []WholeRequest
BY Inductive, PTL DEF IInv

\* The buffer is within MAX_INPUT_SIZE and freed exactly on the ways out
\* (platform_nifs.c:55-79).
THEOREM BufferIsSafe == Spec => []BufferSafe
BY Inductive, PTL DEF IInv

\* A refusal without a failed allocation means the input filled the last capacity
\* (platform_nifs.c:55-59).
THEOREM RefusalHasCause == Spec => []RefusedOnlyWhenFull
BY Inductive, PTL DEF IInv

\* Out of memory while every allocation succeeded.
Refused == pc = "oom" /\ ~denied

\* In particular an input of at most half of MAX_INPUT_SIZE is never refused for its size,
\* so no request the worker lets through is (index.js:467: a body of at most 1 MiB).
THEOREM HalfTheLimitIsAccepted == Spec => [](total * 2 <= MaxInput => ~Refused)
<1>1. IInv => (total * 2 <= MaxInput => ~Refused)
  BY Constants DEF IInv, TypeOK, RefusedOnlyWhenFull, Refused, ConstantAssumptions
<1>2. QED
  BY <1>1, Inductive, PTL

-----------------------------------------------------------------------------
(* The NIF beside its stand-in on the host. *)

\* The host has read a part of stdin, all of it when it met its end, and gave up only when
\* the part exceeded the limit.
HostInv ==
  /\ acc \in Nat /\ acc <= total
  /\ hpc \in {"read", "ok", "refused"}
  /\ hpc \in {"read", "ok"} => acc <= MaxInput
  /\ hpc = "refused" => acc > MaxInput
  /\ hpc = "ok" => acc = total \/ hfailed

\* A request that was returned fits the buffer it was read into.
FitsBuffer == pc = "done" => len <= capacity

BothInv == IInv /\ HostInv /\ FitsBuffer

LEMMA InitBoth == HInit => BothInv
<1> SUFFICES ASSUME HInit PROVE BothInv
  OBVIOUS
<1>1. IInv
  BY InitIInv DEF HInit
<1>2. HostInv
  BY Constants DEF HInit, Init, HostInv, ConstantAssumptions
<1>3. FitsBuffer
  BY DEF HInit, Init, FitsBuffer
<1>4. QED
  BY <1>1, <1>2, <1>3 DEF BothInv

LEMMA StepBoth == BothInv /\ [HNext]_<<vars, hvars>> => BothInv'
<1> SUFFICES ASSUME BothInv, [HNext]_<<vars, hvars>> PROVE BothInv'
  OBVIOUS
<1> USE DEF BothInv
<1>1. CASE NifStep
  <2>1. Next /\ UNCHANGED <<total, hvars>>
    BY <1>1 DEF NifStep, Next, Malloc, CallFread, FreadFromBuffer, FreadFromHost,
         AfterFread, Grow, MakeTerm, host
  <2>2. IInv'
    BY <2>1, StepIInv
  <2>3. HostInv'
    BY <2>1 DEF HostInv, hvars
  <2>4. FitsBuffer'
    BY <1>1 DEF FitsBuffer, IInv, NothingLost, NifStep, Malloc, CallFread, FreadFromBuffer,
         FreadFromHost, AfterFread, Grow, MakeTerm, FreeAndRaise, locals
  <2>5. QED
    BY <2>2, <2>3, <2>4
<1>2. CASE UNCHANGED vars
  <2>1. IInv' /\ FitsBuffer'
    BY <1>2, StepIInv DEF FitsBuffer, vars
  <2>2. total \in Nat /\ total' = total /\ MaxInput \in Nat
    BY <1>2, Constants DEF IInv, TypeOK, ConstantAssumptions, vars
  <2>3. CASE HostRead
    <3>1. PICK n \in 1 .. Least(HostChunk, total - acc) : acc' = acc + n
      BY <2>3 DEF HostRead
    <3>2. acc \in Nat /\ acc < total
      BY <2>3 DEF HostRead, HostInv
    <3>3. acc' \in Nat /\ acc' <= total
      BY <2>2, <3>1, <3>2, HostChunkAssumption DEF Least
    <3>4. \/ acc' > MaxInput /\ hpc' = "refused"
          \/ ~(acc' > MaxInput) /\ hpc' = "read"
      BY <2>3 DEF HostRead
    <3>5. HostInv'
      BY <2>2, <3>3, <3>4 DEF HostInv
    <3>6. QED
      BY <2>1, <3>5
  <2>4. CASE HostEof \/ HostReadError
    BY <2>1, <2>2, <2>4 DEF HostEof, HostReadError, HostInv
  <2>5. CASE UNCHANGED hvars
    BY <2>1, <2>2, <2>5 DEF HostInv, hvars
  <2>6. QED
    BY <2>3, <2>4, <2>5, <1>2 DEF HNext, BothOver, NifStep
<1>3. QED
  BY <1>1, <1>2 DEF HNext, HostRead, HostEof, HostReadError, BothOver

\* The twins give the same verdict on every stdin of at most half the limit, and both
\* refuse one over the limit (TwinsAgree; platform_nifs.c:55-59, host_io.erl:31-41).
THEOREM TwinsAlwaysAgree == HSpec => []TwinsAgree
<1>1. BothInv => TwinsAgree
  <2> SUFFICES ASSUME BothInv, Undisturbed PROVE TwinsAgree
    BY DEF TwinsAgree
  <2>1. /\ pc \in {"done", "oom"} /\ ~denied /\ ~hfailed /\ hpc \in {"ok", "refused"}
        /\ total \in Nat /\ MaxInput \in Nat /\ capacity \in Nat
    BY Constants
       DEF BothInv, HostInv, IInv, TypeOK, Undisturbed, Returned, ConstantAssumptions
  <2>2. pc = "done" => len = total /\ total <= capacity /\ capacity <= MaxInput
    BY <2>1 DEF BothInv, FitsBuffer, IInv, WholeRequest, BufferSafe
  <2>3. pc = "oom" => total >= capacity /\ capacity * 2 > MaxInput
    BY <2>1 DEF BothInv, IInv, RefusedOnlyWhenFull
  <2>4. /\ acc \in Nat /\ acc <= total
        /\ hpc = "ok" => acc = total /\ acc <= MaxInput
        /\ hpc = "refused" => acc > MaxInput
    BY <2>1 DEF BothInv, HostInv
  <2>5. 2 * total <= MaxInput => pc = "done" /\ hpc = "ok" /\ len = total /\ acc = total
    BY <2>1, <2>2, <2>3, <2>4
  <2>6. total > MaxInput => pc = "oom" /\ hpc = "refused"
    BY <2>1, <2>2, <2>4
  <2>7. QED
    BY <2>5, <2>6 DEF TwinsAgree
<1>2. QED
  BY <1>1, InitBoth, StepBoth, PTL DEF HSpec
=============================================================================
