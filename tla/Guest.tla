-------------------------------- MODULE Guest --------------------------------
(***************************************************************************)
(* One VM run: runWasm (index.js:278-304) around the guest's main, the     *)
(* app's start/0, and the bridge it calls (bridge.gleam:23-167).           *)
(*                                                                         *)
(* Output reaches the worker by two ways: stdout passes through a stdio    *)
(* buffer that libc empties when it likes and on fflush, stderr does not,  *)
(* and both end in the same buffer of the worker.  The app prints whatever *)
(* it wants before, inside and after its handler, may crash anywhere, and  *)
(* the instance may trap anywhere.                                         *)
(***************************************************************************)
EXTENDS Bridge, Wasi

CONSTANTS
  Prints,      \* what the app may print up to the frame
  LatePrints,  \* what it may print after it
  Trailer,     \* AtomVM's "Return value: ..."
  MaxPrints,   \* bound: prints of one run
  OutCap       \* first size of the worker's stdout buffer: 65536

ASSUME PrintsAssumption == Prints \subseteq Bytes /\ LatePrints \subseteq Bytes
ASSUME TrailerAssumption == Trailer \in Bytes
\* A payload fits the guest's memory, so its length fits a u32.
ASSUME PayloadSizeAssumption == \A p \in Payloads : Len(p) < Limit
ASSUME OutCapAssumption == OutCap \in Nat \ {0}
ASSUME MaxPrintsAssumption == MaxPrints \in Nat

VARIABLES
  req,      \* the request encoded into stdin
  pc,
  pending,  \* the guest's stdio buffer of stdout
  out,      \* the worker's stdout buffer
  prints,   \* prints so far
  encoded,  \* the payload handle/2 returned
  framed,   \* the frame has been written
  late,     \* what reached the worker after the frame
  drew,     \* the bridge's calls to strong_random_bytes
  called,   \* calls of the app's handler
  outcome   \* what runWasm returns

output == <<pending, out, late>>
bridge == <<encoded, framed, drew, called>>
gvars  == <<req, pc, pending, out, prints, encoded, framed, late, drew, called, outcome>>

Init ==
  /\ req \in Requests
  /\ pc = "boot"
  /\ pending = <<>> /\ out = NoOutputYet(OutCap) /\ prints = 0
  /\ encoded = <<>> /\ framed = FALSE /\ late = <<>> /\ drew = 0 /\ called = 0
  /\ outcome = Pending

-----------------------------------------------------------------------------
(* Output *)

\* data reaches the worker.
Deliver(data) ==
  /\ out' = FdWrite(out, data)
  /\ late' = IF framed THEN late \o data ELSE late

\* What may be printed now: by the app while it runs, or by a process it has spawned, which
\* the scheduler may run while the bridge is at work.
Printable ==
  CASE pc \in {"start", "decode", "secret", "handler", "write"} -> Prints
    [] pc = "after" -> LatePrints
    [] OTHER -> {}

\* To stdout: kept in the stdio buffer, or flushed with all of it.
PrintOut ==
  /\ prints < MaxPrints
  /\ \E c \in Printable :
       \/ pending' = pending \o c /\ UNCHANGED <<out, late>>
       \/ pending' = <<>> /\ Deliver(pending \o c)
  /\ prints' = prints + 1
  /\ UNCHANGED <<req, pc, bridge, outcome>>

\* To stderr: past the stdio buffer.
PrintErr ==
  /\ prints < MaxPrints
  /\ \E c \in Printable : Deliver(c)
  /\ prints' = prints + 1
  /\ UNCHANGED <<req, pc, pending, bridge, outcome>>

-----------------------------------------------------------------------------
(* The run *)

\* AvmLoader: start/0 runs, or main returns EXIT_FAILURE.
Boot ==
  /\ pc = "boot"
  /\ \/ pc' = "start" /\ UNCHANGED outcome
     \/ pc' = "exited" /\ outcome' = Throws
  /\ UNCHANGED <<req, output, prints, bridge>>

\* start/0 calls glowvm.serve, which reads stdin (ReadStdin).
Serve ==
  /\ pc = "start"
  /\ pc' = "decode"
  /\ UNCHANGED <<req, output, prints, bridge, outcome>>

\* Mutant: a request that does not decode is handed to the handler.
DecodeRequestLenient ==
  /\ pc = "decode"
  /\ pc' = "secret" /\ UNCHANGED encoded
  /\ UNCHANGED <<req, output, prints, framed, drew, called, outcome>>

\* decode_request up to the secret: an error is answered without the handler.
DecodeRequest ==
  /\ pc = "decode"
  /\ \/ req.form = "invalid payload" /\ encoded' = InvalidPayload /\ pc' = "write"
     \/ req.form = "bad method" /\ encoded' = BadMethod /\ pc' = "write"
     \/ req.form = "ok" /\ pc' = "secret" /\ UNCHANGED encoded
  /\ UNCHANGED <<req, output, prints, framed, drew, called, outcome>>

\* Mutant: the secret is drawn whatever the request is for.
MakeConnectionAlwaysDraws ==
  /\ pc = "secret"
  /\ drew' = drew + 1
  /\ \/ req.purpose = "serve" /\ called' = called + 1 /\ pc' = "handler" /\ UNCHANGED encoded
     \/ req.purpose = "warmup" /\ encoded' = NoContent /\ pc' = "write" /\ UNCHANGED called
  /\ UNCHANGED <<req, output, prints, framed, outcome>>

\* The rest of decode_request and the choice of handle/2: for a served request a fresh
\* secret is drawn and the handler called, for the warm-up neither.
MakeConnection ==
  /\ pc = "secret"
  /\ \/ /\ req.purpose = "serve"
        /\ drew' = drew + 1 /\ called' = called + 1
        /\ pc' = "handler" /\ UNCHANGED encoded
     \/ /\ req.purpose = "warmup"
        /\ encoded' = NoContent /\ pc' = "write" /\ UNCHANGED <<drew, called>>
  /\ UNCHANGED <<req, output, prints, framed, outcome>>

\* The handler returns and encode_response encodes; a file body becomes a 501.
Handle ==
  /\ pc = "handler"
  /\ encoded' \in req.answers \union {FilesNotSupported}
  /\ pc' = "write"
  /\ UNCHANGED <<req, output, prints, framed, drew, called, outcome>>

\* Mutant: the frame stays in the stdio buffer.
WriteFrameNoFlush ==
  /\ pc = "write"
  /\ pending' = pending \o MakeFrame(encoded)
  /\ framed' = TRUE /\ pc' = "after"
  /\ UNCHANGED <<req, out, late, prints, encoded, drew, called, outcome>>

\* frame, then nif_wasi_write_stdout: fwrite into the stdio buffer and fflush.
WriteFrame ==
  /\ pc = "write"
  /\ pending' = <<>> /\ out' = FdWrite(out, pending \o MakeFrame(encoded))
  /\ framed' = TRUE /\ pc' = "after"
  /\ UNCHANGED <<req, late, prints, encoded, drew, called, outcome>>

\* start/0 returns, or its process dies in read_stdin, strong_random_bytes or app code;
\* either way AtomVM prints its trailer to stdout.
Finish ==
  /\ pc \in {"start", "decode", "secret", "handler", "after"}
  /\ pending' = pending \o Trailer
  /\ pc' = "return"
  /\ UNCHANGED <<req, out, late, prints, bridge, outcome>>

\* main returns and libc flushes stdout.  With exit code 0 runWasm parses the output, with
\* any other it throws.
RunWasmReturns ==
  /\ pc = "return"
  /\ pending' = <<>> /\ Deliver(pending)
  /\ pc' = "exited"
  /\ \/ outcome' = ParseOutput(Written(FdWrite(out, pending)))
     \/ outcome' = Throws
  /\ UNCHANGED <<req, prints, bridge>>

\* A trap, or an exception of an imported function: runWasm throws it on.
Trap ==
  /\ pc # "exited"
  /\ pc' = "exited" /\ outcome' = Throws
  /\ UNCHANGED <<req, output, prints, bridge>>

Over == pc = "exited" /\ UNCHANGED gvars

GuestStep ==
  \/ Trap \/ PrintOut \/ PrintErr \/ Boot \/ Serve \/ DecodeRequest \/ MakeConnection
  \/ Handle \/ WriteFrame \/ Finish \/ RunWasmReturns

Next == GuestStep \/ Over

Spec == Init /\ [][Next]_gvars
-----------------------------------------------------------------------------
TypeOK ==
  /\ req \in Requests
  /\ pc \in {"boot", "start", "decode", "secret", "handler", "write", "after", "return",
             "exited"}
  /\ pending \in Bytes
  /\ out.data \in Bytes /\ out.size \in Nat /\ Len(out.data) <= out.size
  /\ prints \in 0 .. MaxPrints
  /\ encoded \in Payloads \union {<<>>} /\ framed \in BOOLEAN
  /\ late \in Bytes /\ drew \in Nat /\ called \in Nat

\* The worker decodes exactly the payload the bridge framed, whatever the app printed
\* before it (markers included), however stdio and stderr interleaved, wherever the
\* worker's buffer grew, and whatever markerless output followed (index.js:271-276).
\* Without a frame and without a marker there is no answer to decode.
AnswerIsTheFrame ==
  outcome \notin {Pending, Throws} =>
    IF framed THEN NoMarker(late) => outcome = Response(encoded)
              ELSE NoMarker(Written(out)) => outcome = NoOutput

\* The frame is never torn or left behind in the stdio buffer: once written, the worker has
\* it in one piece, directly followed by what came later (platform_nifs.c:93-94).
FrameInOnePiece ==
  framed =>
    LET whole == MakeFrame(encoded) \o late
        start == Len(Written(out)) - Len(whole)
    IN  start >= 0 /\ SubSeq(Written(out), start + 1, Len(Written(out))) = whole

\* The warm-up runs in global scope, where random values are forbidden, and must not reach
\* the app's handler (index.js:444-446, bridge.gleam:59-63, 87-92).
WarmupIsInert == req.purpose = "warmup" => drew = 0 /\ called = 0

\* The handler runs at most once, for a request that decoded, and with a secret of its own.
HandledOnce ==
  /\ called <= 1 /\ drew <= 1
  /\ called > 0 => req.form = "ok" /\ drew = 1

\* A run keeps the promise Exchange makes to the worker.
X == INSTANCE Exchange WITH req <- req, outcome <- outcome
ImplementsExchange == X!Spec
=============================================================================
