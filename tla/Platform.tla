------------------------------ MODULE Platform ------------------------------
(***************************************************************************)
(* AtomVM on this platform, from _start to its end: the strings the host   *)
(* passes (Environ), the atoms (DefaultAtoms), the platform data, and the  *)
(* scheduler's loop over the functions of sys.c, with processes that wait  *)
(* for a time, draw random bytes (RandBytes) or ask for the OS.  There is  *)
(* one thread: sys_poll_events does nothing, so the loop runs on while all *)
(* processes wait, and time is what the worker's clock says.               *)
(***************************************************************************)
EXTENDS Environ, DefaultAtoms, RandBytes

CONSTANTS
  Procs, Main,      \* the guest's processes, and the one whose end ends the run
  NsPerMs, NsPerSec,
  Timeouts,         \* what a process may wait for, in ms
  MaxNow, MaxBack   \* bounds: the clock's last reading, and how often it goes back

ASSUME ProcsAssumption == Main \in Procs
ASSUME TimeAssumption ==
  /\ NsPerMs \in Nat \ {0} /\ NsPerSec \in Nat \ {0} /\ NsPerSec % NsPerMs = 0
  /\ Timeouts \subseteq Nat /\ MaxNow \in Nat \ {0} /\ MaxBack \in Nat

VARIABLES
  now, back,   \* Date.now() in ms, and how often it went back
  phase,       \* "libc", "atoms", "malloc", "loop", "freed" or "aborted"
  platform,    \* the platform data: "none", "live", "freed"
  step,        \* of the scheduler's loop: "poll", "timers", "run"
  state,       \* of each process: "ready", "waiting" or "ended"
  expiry,      \* of each waiting process: when its timer is due, in ns
  since        \* of each waiting process: now, and the ms to wait, when it began

clock == <<now, back>>
sched == <<step, state, expiry, since>>
pvars == <<evars, avars, rvars, clock, phase, platform, sched>>

NotWaiting == [now |-> 0, ms |-> 0]

PInit ==
  /\ EInit /\ AInit /\ RInit
  /\ now \in 0 .. 1 /\ back = 0
  /\ phase = "libc" /\ platform = "none" /\ step = "poll"
  /\ state = [p \in Procs |-> "ready"]
  /\ expiry = [p \in Procs |-> 0]
  /\ since = [p \in Procs |-> NotWaiting]

-----------------------------------------------------------------------------
(* The host's clock: Date.now() in steps of a millisecond, on its own. *)

Tick ==
  /\ now < MaxNow
  /\ now' = now + 1
  /\ UNCHANGED <<evars, avars, rvars, back, phase, platform, sched>>

\* Date.now() is the time of day, which may be set back.
SetBack ==
  /\ back < MaxBack /\ now > 0
  /\ now' = now - 1 /\ back' = back + 1
  /\ UNCHANGED <<evars, avars, rvars, phase, platform, sched>>

clock_time_get == now * NsPerMs

\* clock_gettime(CLOCK_MONOTONIC) of wasi-libc.
sys_monotonic_time == [tv_sec  |-> clock_time_get \div NsPerSec,
                       tv_nsec |-> clock_time_get % NsPerSec]

sys_monotonic_time_u64 ==
  sys_monotonic_time.tv_sec * NsPerSec + sys_monotonic_time.tv_nsec

sys_monotonic_time_ms_to_u64(ms) == ms * NsPerMs

-----------------------------------------------------------------------------
(* From _start to the scheduler. *)

Start ==
  /\ phase = "libc"
  /\ PassStrings
  /\ phase' = "atoms"
  /\ UNCHANGED <<avars, rvars, clock, platform, sched>>

\* platform_defaultatoms_init, at the end of AtomVM's own.
platform_defaultatoms_init ==
  /\ phase = "atoms"
  /\ MakePlatformAtom \/ AtomsMade
  /\ phase' = CASE apc' = "init" -> "atoms" [] apc' = "done" -> "malloc" [] apc' = "abort" -> "aborted"
  /\ UNCHANGED <<evars, rvars, clock, platform, sched>>

\* Mutant: the allocation is taken to have succeeded.
sys_init_platform_unchecked ==
  /\ phase = "malloc"
  /\ platform' \in {"live", "none"} /\ phase' = "loop"
  /\ UNCHANGED <<evars, avars, rvars, clock, sched>>

sys_init_platform ==
  /\ phase = "malloc"
  /\ \/ platform' = "live" /\ phase' = "loop"
     \/ phase' = "aborted" /\ UNCHANGED platform
  /\ UNCHANGED <<evars, avars, rvars, clock, sched>>

-----------------------------------------------------------------------------
(* The scheduler of AtomVM, as the platform's functions let it run. *)

InLoop(s) == phase = "loop" /\ step = s

\* Mutant: the thread stays in poll until a process has something to do.
sys_poll_events_waits ==
  /\ InLoop("poll") /\ state[Main] # "ended"
  /\ step' = IF \E p \in Procs : state[p] = "ready" THEN "timers" ELSE "poll"
  /\ UNCHANGED <<evars, avars, rvars, clock, phase, platform, state, expiry, since>>

\* A no-op, whatever the timeout.
sys_poll_events ==
  /\ InLoop("poll") /\ state[Main] # "ended"
  /\ step' = "timers"
  /\ UNCHANGED <<evars, avars, rvars, clock, phase, platform, state, expiry, since>>

Due(p) == state[p] = "waiting" /\ expiry[p] <= sys_monotonic_time_u64

UpdateTimers ==
  /\ InLoop("timers")
  /\ state'  = [p \in Procs |-> IF Due(p) THEN "ready" ELSE state[p]]
  /\ expiry' = [p \in Procs |-> IF Due(p) THEN 0 ELSE expiry[p]]
  /\ since'  = [p \in Procs |-> IF Due(p) THEN NotWaiting ELSE since[p]]
  /\ step' = "run"
  /\ UNCHANGED <<evars, avars, rvars, clock, phase, platform>>

NothingToRun ==
  /\ InLoop("run") /\ \A p \in Procs : state[p] # "ready"
  /\ step' = "poll"
  /\ UNCHANGED <<evars, avars, rvars, clock, phase, platform, state, expiry, since>>

\* receive after Ms, or erlang:send_after; bounded so that the clock gets there.
Wait(p, ms) ==
  /\ now + ms <= MaxNow
  /\ state' = [state EXCEPT ![p] = "waiting"]
  /\ since' = [since EXCEPT ![p] = [now |-> now, ms |-> ms]]
  /\ expiry' = [expiry EXCEPT ![p] = sys_monotonic_time_u64 + sys_monotonic_time_ms_to_u64(ms)]
  /\ step' = "poll"
  /\ UNCHANGED <<evars, avars, rvars, clock, phase, platform>>

\* os:type/0 raises before it makes an atom, or makes both.
nif_os_type ==
  /\ MakeOsAtoms \/ UNCHANGED avars
  /\ step' = "poll"
  /\ UNCHANGED <<evars, rvars, clock, phase, platform, state, expiry, since>>

nif_crypto_strong_rand_bytes ==
  /\ CallRand
  /\ UNCHANGED <<evars, avars, clock, phase, platform, sched>>

End(p) ==
  /\ state' = [state EXCEPT ![p] = "ended"]
  /\ step' = "poll"
  /\ UNCHANGED <<evars, avars, rvars, clock, phase, platform, expiry, since>>

RunProcess(p) ==
  /\ InLoop("run") /\ ~InNif /\ state[p] = "ready"
  /\ \/ \E ms \in Timeouts : Wait(p, ms)
     \/ nif_os_type
     \/ nif_crypto_strong_rand_bytes
     \/ End(p)

\* A NIF runs to its end before the scheduler goes on.
InRandBytes ==
  /\ InLoop("run")
  /\ RandStep
  /\ step' = IF rpc' \in Outcomes THEN "poll" ELSE "run"
  /\ UNCHANGED <<evars, avars, clock, phase, platform, state, expiry, since>>

\* globalcontext_run returns when the main process has ended; main destroys the context.
sys_free_platform ==
  /\ InLoop("poll") /\ state[Main] = "ended"
  /\ platform' = "freed" /\ phase' = "freed"
  /\ UNCHANGED <<evars, avars, rvars, clock, sched>>

Thread ==
  \/ Start \/ platform_defaultatoms_init \/ sys_init_platform
  \/ sys_poll_events \/ UpdateTimers \/ NothingToRun
  \/ \E p \in Procs : RunProcess(p)
  \/ InRandBytes
  \/ sys_free_platform

Ended == phase \in {"freed", "aborted"} /\ UNCHANGED pvars

PNext == Thread \/ Tick \/ SetBack \/ Ended

PSpec == PInit /\ [][PNext]_pvars

\* The thread never pauses.  The clock owes nothing: Date.now() may stand still for a whole run.
PFairSpec == PSpec /\ WF_pvars(Thread)

-----------------------------------------------------------------------------
\* The types of the platform's own state (sys.c:33-52, index.js:92).
PTypeOK ==
  /\ now \in 0 .. MaxNow /\ back \in 0 .. MaxBack
  /\ phase \in {"libc", "atoms", "malloc", "loop", "freed", "aborted"}
  /\ platform \in {"none", "live", "freed"} /\ (phase = "loop" => platform = "live")
  /\ step \in {"poll", "timers", "run"}
  /\ state \in [Procs -> {"ready", "waiting", "ended"}]
  /\ expiry \in [Procs -> Nat]
  /\ since \in [Procs -> [now : Nat, ms : Nat]]

Fires(p) == state[p] = "waiting" /\ state'[p] = "ready"
Early(p) == now - since[p].now < since[p].ms

\* A timer fires never before the worker's clock has shown its time to have passed, so never in
\* a run in which the clock stands still unless it waits for 0 ms; and it fires once the clock
\* shows that and is not set back again, although no poll ever waits for a timer: the units of
\* Date.now(), clock_time_get, timespec, and sys_monotonic_time_u64 fit (sys.c:64-76, 117-148,
\* index.js:92).
NeverEarly == [][\A p \in Procs : Fires(p) => ~Early(p)]_pvars
TimersKept ==
  /\ NeverEarly
  /\ \A p \in Procs : Due(p) ~> ~Due(p) \/ phase = "freed"
=============================================================================
