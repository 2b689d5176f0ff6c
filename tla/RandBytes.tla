------------------------------ MODULE RandBytes -----------------------------
(***************************************************************************)
(* crypto:strong_rand_bytes/1, the NIF (platform_nifs.c:103-130): a binary *)
(* that is not initialised is filled by getentropy in chunks.  getentropy  *)
(* takes no more than a cap at a time, and fails while the worker warms    *)
(* up, when its random_get refuses (index.js:228-234).                     *)
(***************************************************************************)
EXTENDS Integers

CONSTANTS
  Chunk,        \* what the loop asks for at most: 256
  EntropyCap,   \* what getentropy gives at most: 256
  Arguments     \* what callers may pass; -1 is any term that is not an integer

ASSUME ChunkAssumption == Chunk \in Nat \ {0} /\ EntropyCap \in Nat /\ Chunk <= EntropyCap
ASSUME ArgumentsAssumption == Arguments \subseteq Int

VARIABLES
  warmup,   \* the run is the worker's warm-up
  rpc,      \* "out" of the NIF, "called", in the loop "fill", or its outcome
  n, off,   \* n: the size asked for, off: the loop's variable
  filled    \* the offsets getentropy has written to

rvars == <<warmup, rpc, n, off, filled>>

RInit ==
  /\ warmup \in BOOLEAN
  /\ rpc = "out" /\ n = 0 /\ off = 0 /\ filled = {}

Outcomes == {"ok", "badarg", "oom"}
InNif == rpc \in {"called", "fill"}

CallRand ==
  /\ ~InNif
  /\ n' \in Arguments
  /\ rpc' = "called" /\ off' = 0 /\ filled' = {}
  /\ UNCHANGED warmup

BadSize == n < 0

CheckSize ==
  /\ rpc = "called"
  /\ \/ BadSize /\ rpc' = "badarg"
     \/ ~BadSize /\ rpc' \in {"fill", "oom"}
  /\ UNCHANGED <<warmup, n, off, filled>>

ChunkSize == IF n - off < Chunk THEN n - off ELSE Chunk

\* getentropy(buf + off, len) through wasi-libc and random_get.
EntropyFails(len) == len > EntropyCap \/ warmup

\* Mutant: what getentropy returns is not looked at.
FillUnchecked ==
  /\ rpc = "fill" /\ off < n
  /\ filled' = IF EntropyFails(ChunkSize) THEN filled
               ELSE filled \union (off .. off + ChunkSize - 1)
  /\ off' = off + Chunk
  /\ UNCHANGED <<warmup, n, rpc>>

Fill ==
  /\ rpc = "fill" /\ off < n
  /\ \/ EntropyFails(ChunkSize)
        /\ rpc' = "badarg" /\ UNCHANGED <<off, filled>>
     \/ ~EntropyFails(ChunkSize)
        /\ filled' = filled \union (off .. off + ChunkSize - 1)
        /\ off' = off + Chunk /\ UNCHANGED rpc
  /\ UNCHANGED <<warmup, n>>

ReturnBytes ==
  /\ rpc = "fill" /\ off >= n
  /\ rpc' = "ok"
  /\ UNCHANGED <<warmup, n, off, filled>>

RandStep == CheckSize \/ Fill \/ ReturnBytes

-----------------------------------------------------------------------------
\* The caller gets as many random bytes as it asked for, each written and none beyond the
\* binary, or an error: never the bytes of an uninitialised binary, and in the warm-up none
\* at all ("Fail loudly rather than hand out predictable bytes", index.js:229-230).  Outside
\* the warm-up a size that fits the memory is never refused (platform_nifs.c:119-127).
RandomOrRaised ==
  /\ rpc = "ok" => filled = 0 .. n - 1 /\ (warmup => n = 0)
  /\ rpc = "fill" => filled \subseteq 0 .. n - 1
  /\ rpc = "badarg" => BadSize \/ warmup
=============================================================================
