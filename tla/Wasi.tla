-------------------------------- MODULE Wasi --------------------------------
(***************************************************************************)
(* What the WASI host of one run (mkWasi, index.js:41-267) does to the     *)
(* state it keeps for the guest: read positions, the table of open files   *)
(* and the stdout buffer.  Byte contents are left out; lengths and         *)
(* positions decide every branch.                                          *)
(***************************************************************************)
EXTENDS Integers, Sequences, FiniteSetsExt

Least(a, b) == IF a <= b THEN a ELSE b

\* Mutant: the second iovec is read from where the first one began.
FdReadNotAdvanced(rest, l0, l1) ==
  LET n0 == Least(l0, rest)
  IN  IF n0 < l0 THEN n0 ELSE n0 + Least(l1, rest)

\* fd_read over two iovecs of l0 and l1 bytes, with rest bytes after the read position:
\* the number of bytes delivered.  It stops at the first iovec it cannot fill.
FdRead(rest, l0, l1) ==
  LET n0 == Least(l0, rest)
  IN  IF n0 < l0 THEN n0 ELSE n0 + Least(l1, rest - n0)

-----------------------------------------------------------------------------
(* The table of open files: [open : descriptor -> [size, pos], next : nextFd]. *)

NoOpenFiles == [open |-> <<>>, next |-> 4]

\* path_open on a file of the given size; the caller has found it in `files`.
PathOpen(t, size) ==
  [open |-> [f \in DOMAIN t.open \union {t.next} |->
               IF f = t.next THEN [size |-> size, pos |-> 0] ELSE t.open[f]],
   next |-> t.next + 1]

\* fd_seek: the new position is neither checked nor clamped.
FdSeek(t, fd, off, whence) ==
  [open |-> [t.open EXCEPT ![fd].pos = CASE whence = "set" -> off
                                         [] whence = "cur" -> @ + off
                                         [] whence = "end" -> t.open[fd].size + off],
   next |-> t.next]

FdRest(t, fd) == t.open[fd].size - t.open[fd].pos

FdClose(t, fd) ==
  [open |-> [f \in DOMAIN t.open \ {fd} |-> t.open[f]], next |-> t.next]

-----------------------------------------------------------------------------
(* The stdout buffer: [data |-> stdoutBuf up to stdoutLen, size |-> stdoutBuf.length].  *)
(* What lies beyond stdoutLen is never looked at.  File descriptors 1 and 2 both write   *)
(* to it.                                                                               *)

NoOutputYet(size) == [data |-> <<>>, size |-> size]

\* stdout(): what runWasm parses.
Written(o) == o.data

\* What k doublings make of 1.
doubled[k \in Nat] == IF k = 0 THEN 1 ELSE 2 * doubled[k - 1]

\* The first doubling of size that holds need bytes.
Grown(size, need) == Min({s \in {size * doubled[k] : k \in 1 .. need} : s >= need})

\* Mutant: one doubling is taken to be enough.
FdWriteDoublesOnce(o, data) ==
  LET need == Len(o.data) + Len(data)
  IN  [data |-> o.data \o data, size |-> IF need > o.size THEN 2 * o.size ELSE o.size]

\* fd_write of one iovec: grow by doubling, keep what was there, append.
FdWrite(o, data) ==
  LET need == Len(o.data) + Len(data)
  IN  [data |-> o.data \o data,
       size |-> IF need > o.size THEN Grown(o.size, need) ELSE o.size]
=============================================================================
