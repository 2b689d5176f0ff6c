------------------------------- MODULE Worker -------------------------------
(***************************************************************************)
(* The worker (index.js:437-541) around the guest: the module's warm-up,   *)
(* then any number of fetches.  There is one JavaScript thread.  A run of  *)
(* the guest is synchronous and keeps it to its end; a fetch gives it up   *)
(* only at `await request.arrayBuffer()`, so that is where fetches         *)
(* interleave.  Bodies arrive, or fail to, at any time.                    *)
(***************************************************************************)
EXTENDS Guest

CONSTANTS
  Fetches, RequestOf, MaxBody, Rejected, NullBody,  \* see Service
  Messages,   \* the requests considered: [hasBody, declared, size]
  Warmup      \* the request warmUp encodes

ASSUME WorkerAssumption ==
  /\ RequestOf \in [Fetches -> {r \in Requests : r.purpose = "serve"}]
  /\ MaxBody \in Nat
  /\ Messages \subseteq [hasBody : BOOLEAN, declared : Int, size : Nat]
  /\ Warmup \in {r \in Requests : r.purpose = "warmup" /\ r.form = "ok"}
  /\ {"warm-up", "nobody"} \intersect Fetches = {}

VARIABLES
  inbox, answer,   \* see Service
  stage,           \* where each fetch is
  running,         \* who the current run is for: a fetch, "warm-up" or "nobody"
  loaded           \* the module's top level has finished

S == INSTANCE Service WITH inbox <- inbox, answer <- answer

wvars == <<inbox, answer, stage, running, loaded>>
vars  == <<gvars, wvars>>

WInit ==
  /\ Init /\ req = Warmup
  /\ inbox \in [Fetches -> Messages]
  /\ answer = [f \in Fetches |-> S!NoAnswer]
  /\ stage = [f \in Fetches |-> "unsent"]
  /\ running = "warm-up" /\ loaded = FALSE

-----------------------------------------------------------------------------
\* Mutant: the WASI host is made once and kept, with what it has in stdout.
StartRunKeepsOutput(r) ==
  /\ req' = r /\ pc' = "boot" /\ pending' = <<>> /\ prints' = 0
  /\ encoded' = <<>> /\ framed' = FALSE /\ late' = <<>> /\ drew' = 0 /\ called' = 0
  /\ outcome' = Pending
  /\ UNCHANGED out

\* runWasm's mkWasi and new instance: nothing of an earlier run is left.
StartRun(r) ==
  /\ req' = r /\ pc' = "boot" /\ pending' = <<>> /\ prints' = 0
  /\ encoded' = <<>> /\ framed' = FALSE /\ late' = <<>> /\ drew' = 0 /\ called' = 0
  /\ outcome' = Pending
  /\ out' = NoOutputYet(OutCap)

StartServing(f) ==
  /\ running' = f /\ stage' = [stage EXCEPT ![f] = "running"]
  /\ StartRun(RequestOf[f]) /\ UNCHANGED answer

Respond(f, a) ==
  /\ answer' = [answer EXCEPT ![f] = a]
  /\ stage' = [stage EXCEPT ![f] = "answered"]

Free == running = "nobody" /\ loaded

\* fetch up to the await: without a body straight to the run.
Fetch(f) ==
  /\ Free /\ stage[f] = "unsent"
  /\ LET m == inbox[f] IN
       \/ /\ m.hasBody /\ m.declared > MaxBody
          /\ Respond(f, S!TooLarge) /\ UNCHANGED <<gvars, running>>
       \/ /\ m.hasBody /\ ~(m.declared > MaxBody)
          /\ stage' = [stage EXCEPT ![f] = "awaiting"]
          /\ UNCHANGED <<gvars, running, answer>>
       \/ ~m.hasBody /\ StartServing(f)
  /\ UNCHANGED <<inbox, loaded>>

\* The promise of arrayBuffer settles, whatever the thread is doing.
BodySettles(f) ==
  /\ stage[f] = "awaiting"
  /\ \E s \in {"arrived", "failed"} : stage' = [stage EXCEPT ![f] = s]
  /\ UNCHANGED <<gvars, inbox, answer, running, loaded>>

\* Mutant: the length of the body received is not checked again.
ResumeTrusting(f) ==
  /\ Free
  /\ \/ stage[f] = "failed" /\ Respond(f, S!ServerError) /\ UNCHANGED <<gvars, running>>
     \/ stage[f] = "arrived" /\ StartServing(f)
  /\ UNCHANGED <<inbox, loaded>>

\* fetch from the await on: the length received counts, whatever was declared.
Resume(f) ==
  /\ Free
  /\ \/ stage[f] = "failed" /\ Respond(f, S!ServerError) /\ UNCHANGED <<gvars, running>>
     \/ /\ stage[f] = "arrived" /\ inbox[f].size > MaxBody
        /\ Respond(f, S!TooLarge) /\ UNCHANGED <<gvars, running>>
     \/ stage[f] = "arrived" /\ ~(inbox[f].size > MaxBody) /\ StartServing(f)
  /\ UNCHANGED <<inbox, loaded>>

\* new Response(body, ...), of which an exception becomes a 500: it rejects some statuses and
\* headers, and any body, even an empty one, on a status that forbids one.
NewResponse(p, withBody) ==
  IF p \in Rejected \/ (withBody /\ p \in NullBody) THEN S!ServerError
  ELSE [kind |-> IF withBody THEN "with body" ELSE "without body", payload |-> p]

\* Mutant: the body is passed on whatever the status.
ReplyWithBody(p) == NewResponse(p, TRUE)

Reply(p) == NewResponse(p, p \notin NullBody)

\* The run has returned to fetch: 502 for an error, 500 for an exception, else the
\* response.
RunEnds ==
  /\ running \in Fetches /\ pc = "exited"
  /\ Respond(running, CASE outcome = Throws -> S!ServerError
                        [] outcome.kind \in {"no output", "malformed output"} -> S!BadGateway
                        [] outcome.kind = "response" -> Reply(outcome.payload))
  /\ running' = "nobody"
  /\ UNCHANGED <<gvars, inbox, loaded>>

\* Mutant: an exception of the warm-up ends the module's evaluation.
WarmUpEndsUncaught ==
  /\ running = "warm-up" /\ pc = "exited" /\ outcome # Throws
  /\ running' = "nobody" /\ loaded' = TRUE
  /\ UNCHANGED <<gvars, inbox, answer, stage>>

\* warmUp drops the result and swallows the exception; the module is ready.
WarmUpEnds ==
  /\ running = "warm-up" /\ pc = "exited"
  /\ running' = "nobody" /\ loaded' = TRUE
  /\ UNCHANGED <<gvars, inbox, answer, stage>>

RunStep == running # "nobody" /\ GuestStep /\ UNCHANGED wvars

Thread == RunStep \/ RunEnds \/ WarmUpEnds \/ \E f \in Fetches : Resume(f)

WNext == Thread \/ \E f \in Fetches : Fetch(f) \/ BodySettles(f)

WSpec == WInit /\ [][WNext]_vars

\* The thread does not stop while it has work, and the platform settles every body.  Clients
\* need not send anything.
FairSpec ==
  /\ WSpec /\ WF_vars(Thread)
  /\ \A f \in Fetches : WF_vars(BodySettles(f))

-----------------------------------------------------------------------------
Stages == {"unsent", "awaiting", "arrived", "failed", "running", "answered"}

WTypeOK ==
  /\ TypeOK
  /\ inbox \in [Fetches -> Messages]
  /\ stage \in [Fetches -> Stages]
  /\ running \in Fetches \union {"warm-up", "nobody"} /\ loaded \in BOOLEAN
  /\ DOMAIN answer = Fetches

\* The guest is run for one fetch at a time, the one that is not yet answered, on its own
\* request, and never with a body over the limit, whatever length was declared for it
\* (index.js:483-497, 510-518).
RunIsForItsFetch ==
  /\ \A f \in Fetches : stage[f] = "running" <=> running = f
  /\ running \in Fetches =>
       /\ req = RequestOf[running] /\ answer[running] = S!NoAnswer
       /\ ~S!Oversize(inbox[running])

\* Every fetch is answered once and for itself: no output of one run, failed or not,
\* reaches the answer to another request, and no body over the limit is served.
KeepsServicePromise == S!Spec

\* A response that a run has brought reaches the client of that run as the handler meant it, with
\* its body or, on a status that forbids one, without: no exception of new Response, no limit and
\* no error of the worker's own takes its place, unless the platform rejects the response itself
\* (index.js:510-531).
ResponseIsDelivered ==
  [][\A f \in Fetches :
       answer'[f] # answer[f] /\ stage[f] = "running" /\ outcome # Throws /\ outcome.kind = "response"
         => answer'[f] = S!Reply(outcome.payload)]_vars

\* Every fetch that was sent is answered (index.js:469-541), and the worker comes up even
\* when its warm-up fails (index.js:456-460).
EveryFetchAnswered ==
  /\ \A f \in Fetches : stage[f] # "unsent" ~> stage[f] = "answered"
  /\ <>loaded
=============================================================================
