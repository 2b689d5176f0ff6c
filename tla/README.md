# glowvm in TLA+

glowvm runs a Gleam web application on Cloudflare Workers: the application is packed into
`app.avm`, the AtomVM virtual machine is compiled to WebAssembly, and a JavaScript worker
starts a fresh instance of that machine for every request.  This directory holds TLA+
models of that program, the TLC configurations that check them on small instances, and
proofs, checked by TLAPS, of the properties that matter most.  Paths below are relative to
the repository; `index.js` is `priv/index.js`, `bridge.gleam` is
`src/glowvm/internal/bridge.gleam`.

## 1. The system

| part | state it keeps | operations |
|---|---|---|
| **Worker entry point** (`index.js:437-541`) | none of its own between requests except the compiled module; each `fetch` keeps locals across its one `await` | `warmUp` at module scope; `fetch`: limit on the declared length, `await arrayBuffer()`, limit on the received length, run, reply |
| **runWasm** (`index.js:278-334`) | a WASI host and an instance per call | instantiate, `_start`, catch, parse the output |
| **WASI host** (`index.js:41-267`) | stdin and its position, stdout buffer and its length, open files, next descriptor | the imported functions: `fd_read`, `fd_write`, `fd_seek`, `path_open`, ... |
| **Response frame** (`bridge.gleam:36-41`, `index.js:276, 306-334`) | none | payload, length and marker; find the last marker and cut the payload out |
| **Bridge** (`bridge.gleam`, `glowvm_bridge_ffi.erl`) | none | `serve`: read, decode, choose handler or warm-up, encode, frame, write |
| **read_stdin NIF** (`native/src/platform_nifs.c:37-80`) | a growing buffer | `fread` until the end, double, refuse over the limit, make the term |
| **write_stdout NIF** (`platform_nifs.c:82-101`) | wasi-libc's stdout buffer | `fwrite`, `fflush` |
| **Host stand-in** (`src/host_io.erl`) | an accumulator | the same two functions under plain Erlang, for tests |
| **Guest main and loaders** (`native/src/main.c`, `sys.c:155-246`) | the global context, packs, modules, the main module, the open file and its data | load every argument, pick the main module, run, destroy, exit code |
| **ETF codecs** (`index.js:336-435`, `glowvm_bridge_ffi.erl`) | none | `encodeRequest`, `decodeEtf`, `decode_request` |
| **OTP shims** (`src/shims/*.erl`) | `rand` a seed in the process dictionary, the others none | `json`, `base64`, `uri_string`, `rand`, `maps`, `string`, `io_lib_format` |
| **Platform layer** (`sys.c`) | the platform data; the clock is the worker's | set up and free, poll (a no-op), monotonic time; the rest are empty functions |
| **Atoms and other NIFs** (`platform_defaultatoms.*`, `platform_nifs.c:27-35, 103-156`) | AtomVM's atom table | enter the platform's atoms and check their indices; `strong_rand_bytes/1`, `os:type/0`, `atomvm:platform/0` |
| **Tables of native functions** (`nifs_hash.h`, `bifs_hash.h`, `platform_nifs.c:159-191`) | none | look a function up by `module:name/arity` |
| **Build scripts, fixtures, smoke tests** | files | build and test |

How they interact.  `fetch` calls `runWasm` synchronously: from `_start` to its return the
one JavaScript thread belongs to the guest, and the guest calls back into the WASI host.
The guest's `main` loads `app.avm` from the WASI host's files and runs the application's
`start/0`; that calls `glowvm.serve`, which reads the request from stdin, calls the handler
and writes a frame to stdout.  Which code a call runs is decided by name when a module is
loaded: AtomVM's BIFs, its NIFs, the platform's NIFs, then the modules in the pack.  stdout is buffered by wasi-libc, stderr is not, and both end
in one buffer of the WASI host, which the worker parses when the guest is over.

What is hard about it:

* *Interleaving.*  Fetches interleave at the `await`; the body may arrive at any time, also
  during a run.  In the guest, prints of the application and of processes it has spawned
  interleave with the bridge's own output, through two channels of different buffering.
* *Failure.*  Any allocation may fail, the instance may trap anywhere, processes of the
  guest may die anywhere, `main` may return a failure, `new Response` may throw.
* *Framing.*  The frame is found by a marker that prints, payloads and lengths may contain.
* *Boundaries.*  Buffers that double (request and output), a limit between two capacities, a
  read that ends exactly at a capacity, wasi-libc's read-ahead into a second iovec.
* *Restricted phases.*  At module scope random values are forbidden, yet the warm-up runs
  the whole bridge.
* *Time.*  One thread, no poll that waits, and a clock that may stand still for a whole run
  or be set back between two readings.
* *Hand-kept agreement.*  Hash tables generated elsewhere, a list of names in C, a list of
  modules in a shell script, atom constants counted by the compiler: each has to fit code it
  never meets before run time.
* *Twins.*  `read_stdin` exists in C and in Erlang, and each is only run where the other is
  not.

What makes each part correct:

* worker: one answer per fetch, to that very request; no body over the limit served; a run
  owns the instance state alone; it comes up even when the warm-up fails;
* runWasm and bridge: the payload decoded is the payload framed; the handler is called at
  most once, never by the warm-up;
* read_stdin: the whole request or an error, no leak, an end for every size;
* main and loaders: no leak, the documented choice of the main module, a truthful exit code;
* codecs: what one end encodes the other reads, and damage is noticed alike by both;
* shims: the results of the OTP functions they replace;
* platform: a buffer the host fills is as large as it said; constants name their atoms; no
  byte of an uninitialised binary reaches a caller; no timer fires early, and none that is due
  is left waiting;
* tables: a lookup finds the names in it and no other, and every call finds its code.

## 2. Modules

```
 Wasi ----+---------------- ReadStdin -- ReadStdinHost      (MCReadStdinHost)
          |                     |              |
          |                     +-- ReadStdinProofs
          +---------------- AvmLoader                       (MCAvmLoader)
          |                     |
          |              AvmLoaderProofs
 Frame -- Bridge --+-- Guest -- Worker                      (MCGuest, MCWorker)
                   |     |         |
                   |     |         +- implements Service
                   |     |         +-- WorkerProofs (also of Frame and Guest)
                   |     +- implements Exchange
                   +- Exchange, Service

 Environ ------+
 DefaultAtoms -+-- Platform -- PlatformProofs               (MCPlatform)
 RandBytes ----+

 CString --+-- NifsHash --+
           +-- BifsHash --+-- Imports                       (MCImports)

 Wire -- Etf -- WireProofs                                  (MCEtf)

 Trial --+-- Rand --------+
         +-- Base64 ------+-- ShimProofs ---+
         +--+- UriString -+                 +-- JsonProofs
         |  |                               |
 Erl ----|--+                               |
         +--+- Json ------------------------+
             Rand, Base64, UriString, Json -- Shims         (MCShims)

 NatProofs: induction and recursion on Nat, for WorkerProofs, PlatformProofs, ShimProofs,
            WireProofs
```

* **Wasi**: the WASI host's state as values and its functions as operators.  Bytes of files
  and of stdin are counted, because only lengths and positions decide a branch; the bytes of
  stdout are kept, because the parser looks at them.  `FdWrite` grows the buffer by the
  loop of `index.js:183-184`.
* **ReadStdin**: `nif_wasi_read_stdin`, one action per step of the C loop, over wasi-libc's
  `fread` (external), which is modelled as it reaches the worker: first what the FILE has
  read ahead, then one `fd_read` with two iovecs, the caller's memory but for its last byte
  and the FILE's own buffer.  Every allocation succeeds or fails.
* **ReadStdinHost**: the NIF and `host_io:host_read_loop/1` over the same stdin, side by side.
* **AvmLoader**: `main`, `load_module`, and the two loaders of `sys.c`, which share their code
  up to the parsing of the data and therefore share actions.  An argument is a record of what
  the code finds out about a path (its extension, whether the worker has it, its size, whether
  it is valid and has a startup module).
* **Frame**: `bridge.frame`, `lastIndexOf` and `parseOutput` over bytes that are digits below
  `Base`: a length is four such digits, as in the code, and may look like part of a marker.
  Which payloads `decodeEtf` accepts is the constant `Payloads`.
* **Bridge**: what a request asks for and which payloads `handle/2` may return for it.
* **Exchange**: the abstract specification of one run: one outcome, and if it is a response,
  one that the bridge may give to that request.
* **Guest**: one run in detail.  `pc` follows `main`, `start/0`, `serve`, `handle`, `frame`,
  `write_stdout` and the return through `main` to `runWasm`.  `pending` is wasi-libc's stdout
  buffer, `out` the worker's; `framed`, `late` and `encoded` are history.
* **Service**: the abstract specification of the worker: each fetch gets at most one answer,
  from the set its own request and body permit.
* **Worker**: `warmUp` and `fetch` around Guest.  `stage` is where each fetch is, `running`
  who the thread works for; `StartRun` is `mkWasi` and the new instance.

* **Wire**: `encodeRequest`, `decodeEtf` with what `parseOutput` makes of its result, and the
  bridge's `decode_request/1`, over AtomVM's `binary_to_term` and `term_to_binary`
  (external), on bytes.  `ReadTerm` and `ErlTerm` are one call of the two decoders, given
  what the calls for the terms inside return; `Reads` ties the knot.
* **Etf**: what both decoders make of bytes neither end wrote.  `Exchanged[d]` are AtomVM's
  terms of the kinds the bridge exchanges, nested at most `d` deep, `AsArrays[d]` the worker's
  form of each.
* **Erl**: the functions of Erlang's kernel that shims call on binaries (external).
* **Base64**, **UriString**, **Json**: the shims as operators on bytes; a base64 character is
  its index in the alphabet, a JSON object a function from its keys, a float its literal.
  `MaxDepth` and `MaxJsonSize` are the decoder's limits.  A loop of the code is a function of
  the number of calls, one call an operator (`NextChar`, `NextItem`, `NextPair`).
  Each also holds its properties, and what these hold the shim against: the inverse
  `FormEncoded`; `UriText`, the text of a URI's parts after RFC 3986, 5.3; `Documents` with at most n values inside one
  another, their `Printings` and their `Meanings`.  An object of a document is a sequence of
  pairs, several of which may have the same key.
* **Trial**: the frame in which shims are looked at: a shim and one of its inputs are the
  state, and no step changes them.
* **Shims**: all of them together, each with inputs of its own.

* **Rand**: `bounded/2` of the rand shim over words of `WordBits` bits, for one word and for
  two; what the generator yields is any word.  Powers of two are shifts, as in the code
  (`Shifted`).

* **Environ**: the strings of `mkWasi`, as the host counts them (UTF-16 units) and as it
  writes them (UTF-8); a character is its kind.  `SumUpTo` goes through the values that the
  host's loops give to their totals and offsets.
* **DefaultAtoms**: the loop of `platform_defaultatoms_init` over AtomVM's atom table
  (external), and the NIFs that name or make atoms.
* **RandBytes**: `strong_rand_bytes/1` step by step, over `getentropy`, which refuses more than
  its cap and everything in the warm-up.
* **Platform**: the three composed with the functions of `sys.c` under AtomVM's scheduler
  (external): `phase` follows `_start` to the end, `step` the loop of poll, timers and run.
  The worker's clock ticks, or is set back, between any two steps.
* **CString**, **NifsHash**, **BifsHash**: the two perfect hashes with every entry, as the
  generated C computes them.
* **Imports**: what a name runs: BIF, NIF of AtomVM, NIF of the platform, or a module that is
  in the pack.  `conditional` are the entries that are NULL without a macro of AtomVM's
  configuration; a build is a set of macros.

## 3. Runs

| run | module, configuration | what it asks |
|---|---|---|
| `read_stdin` | MCReadStdinHost, MCReadStdinHost.cfg | every stdin of 0 to 13 bytes; capacities 2, 4, 8 and a limit of 10; stdio buffer of 3; the Erlang loop beside it, reading chunks of 1 to 4 |
| `host_twin_limit` | MCReadStdinHost, MCReadStdinLimit.cfg | a disagreement, see section 6 |
| `loader` | MCAvmLoader | every list of up to two of nine kinds of argument |
| `guest` | MCGuest | four kinds of request, up to three prints, markers in prints, payloads and lengths |
| `worker` | MCWorker | the warm-up and two fetches, four kinds of body each, one print per run |
| `etf` | MCEtf | 396 requests and 198 responses with parts that look like terms; eight terms, cut anywhere or with one byte changed |
| `shims` | MCShims | bytes, queries, short URIs and JSON values: see below |
| `json_escapes` | MCShims, MCJsonEscapes.cfg | a disagreement, see section 6 |
| `base64_strict` | MCShims, MCBase64Strict.cfg | a disagreement, see section 6 |
| `imports` | MCImports, MCImports.cfg | every name in the tables, near misses of them, and every call of glowvm's Erlang modules, under two builds |
| `math_nifs` | MCImports, MCImportsMath.cfg | a disagreement, see section 6 |
| `platform` | MCPlatform | a guest with two processes from `_start` to its end; two sets of bindings, two atom tables, three arguments of `strong_rand_bytes`, timeouts of 0 and 2 ms |

**read_stdin.**  `NothingLost` accounts for every byte between the worker, the FILE and the
buffer; `WholeRequest`: a request is complete or refused; `RefusedOnlyWhenFull`: a refusal
without a failed allocation means that the last capacity below the limit was filled;
`BufferSafe`: the buffer never exceeds the limit, and is owned exactly as long as it is used;
`ReadReturns`: the loop ends.  The bounds put sizes on both sides of every capacity and of the
limit, and the limit, like 10 MiB among powers of two, between two capacities.  The stdio
buffer is larger than the first capacity and smaller than the second, so that read-ahead
both covers whole `fread`s and falls short of them.

`TwinsAgree`: when nothing fails, both functions return all of a stdin of at most half the
limit and both refuse one over it.

**loader.**  `NoLeak`; `RunsFirstStartable`: the VM runs only when every argument was loaded
and then the module main.c's comment promises; `ExitCodeTruthful`; `FailureHasCause`: without a
failed allocation, a failure is due to an argument that cannot be loaded, in particular a file
that is there is read in full.  Two arguments are enough for every order of
two files to matter; the third only repeats the second, since `mainModule` and the lists are
all that is carried over (the theorems hold for every length).

**guest.**  `AnswerIsTheFrame`: whatever was printed, and wherever buffers were flushed or
grew, the worker decodes the payload that was framed, provided nothing with a marker follows
the frame; `FrameInOnePiece`; `WarmupIsInert`; `HandledOnce`; `ImplementsExchange`: the run is
a behaviour of Exchange.  A byte is a bit and the marker `10`, so that every length and most
payloads collide with it; the output buffer starts at 2 bytes, so that one write takes
several doublings.

**worker.**  `RunIsForItsFetch`: the guest runs for one unanswered fetch, on its own request,
never with a body over the limit; `KeepsServicePromise`: the
system implements Service, so no output of one run, failed or not, reaches another fetch's
answer; `ResponseIsDelivered`: a response that a run has brought reaches the client, without a
body where its status forbids one, and not as an error 500, into which an exception of
`new Response` would turn it; `EveryFetchAnswered`.  Two fetches with different answers are
enough to see one's output in the other's answer; one of them gets a response that may have no
body.  Bodies of requests are absent, declared too long, too long without being declared so,
and of exactly the limit.

**etf.**  `RequestArrives`: the bridge reads what the worker was given, and takes for a
warm-up only what the worker says is one; `ResponseArrives`, the way back; `DecodersAgree`: on
the terms the two exchange, the worker's decoder and AtomVM's read any bytes alike, damaged
ones too.  Texts are short but begin with the tags of terms, so a decoder that loses its place
reads another term; statuses lie on both sides of 255, where the tag changes.

**shims.**  `Base64ReadsBack`: with padding or without, with a blank or another character put
in anywhere, up to four bytes (one full group and each kind of last one).  `QueriesReadBack`:
two pairs whose keys and values hold the separators.  `PartsAreTheUris`: the
text of a URI or relative reference is taken apart into exactly its parts, where each part is
missing, empty, or holds whatever delimiters of other parts RFC 3986 lets it hold; hosts with
a colon and empty ports are left out, where `split_port` departs from RFC 3986 (section 6).
`JsonReadsBack`: printed documents, with blanks wherever JSON allows them and pairs with the
same key, of which the latest counts, come back exactly when they are within both limits; these
are scaled down to 24 bytes and two levels, and documents have up to four values inside one
another, so that they lie on both sides.  `CutsAreRefused`: no proper prefix of a string, array
or object is a value.

`DrawsAreUnbiased`: with words of four bits, for every N up to the range of two words, the
draws that are accepted give each of 1 to N equally often, and more than half are accepted, so
that 32 tries hardly ever run out.

**imports.**  `LookupIsExact`: the lookup finds each of the 267 names in the tables and none of
3000 near misses, which differ from one of them in a character, or in length; the mutant, a
missing fall-through, shows that nothing else keeps table and hash together.
`BridgeReachesItsNifs`: a call of the functions that have a C implementation reaches it, with
all optional parts of AtomVM configured and with none.  `CallsResolve`: every call that the
bridge and the shims make of another module finds something to run, except those of math,
which the violation run is about.

**platform.**  `StringsFit`: the host writes exactly as much as wasi-libc was told to reserve,
for ASCII; `AtomsAreTheirConstants`: after the loop at start every constant of the C code is
its atom's index, also when AtomVM has one of them already (then the guest aborts);
`RandomOrRaised`: the caller of `strong_rand_bytes` gets as many random bytes as it asked
for or an error, in the warm-up always an error for more than none; `TimersKept`: a timer
never fires before its time has passed on the worker's clock, and once that clock shows its
time, a timer fires unless the clock is set back before it.  Where the clock stands still for a
whole run, no timer above 0 ms becomes due and its process waits on; the guest polls until
the platform stops it (a trap, in Guest).  Chunks of 2 bytes and sizes of
up to 5 give no chunk, full ones and a rest (the code's 256 is the constant `Chunk`); a
second of two milliseconds of three nanoseconds keeps the three units apart and carries from
one to the next.

Every property of a passing run has a mutant in PROJECT.json: a definition named `...` with
the comment "Mutant:" stands before the definition it would replace, and TLC finds the
property violated with it.

*Deadlock* is checked everywhere but in `worker`, where clients need not send anything.

*Fairness.*  `read_stdin`: weak fairness of the steps of the NIF, a
single thread that runs C code to its end and waits for nobody.  `platform`: weak fairness of
`Thread`, for the same reason (`sys_poll_events` does not wait), and none of the worker's clock,
which may stand still for a whole run.  `worker`: `WF_vars(Thread)`, the JavaScript thread does not stop
while it has work, and weak fairness of `BodySettles(f)`, the platform settles the promise of
every body one way or the other.  Fairness of the thread includes that a run comes to its
end: `MaxPrints` bounds the prints, and the handler is one step, so the model assumes that
application code returns, dies or is stopped by the platform's CPU limit (a trap).  No
fairness is assumed of clients, and none of a particular branch.

*Bounds.*  `Sizes`, `Argvs`, `Requests`, `Messages` and `Fetches` are the inputs; `MaxPrints`
bounds the prints of one run; `MaxNow` and `MaxBack` bound the clock of `platform`, and `Wait`
starts no timer that would be due after `MaxNow`; nothing else is capped.  `ImplementsExchange` and
`KeepsServicePromise` also depend on the prints being too short to forge a whole frame, as
three of them are: an application that prints a frame of its own gets what it printed.

## 4. Proofs

| module | theorems |
|---|---|
| ReadStdinProofs | TypeCorrect, NothingIsLost, RequestIsWhole, BufferIsSafe, RefusalHasCause, HalfTheLimitIsAccepted, TwinsAlwaysAgree |
| AvmLoaderProofs | TypeCorrect, NothingLeaks, FirstStartableRuns, ExitCodeTellsTheTruth, FailuresHaveCauses |
| WorkerProofs, of Frame and Guest | U32RoundTrip, FrameIsFound, GuestTypeCorrect, AnswersAreFrames, FramesArriveWhole, WarmupStaysInert, HandlerRunsOnce, GuestImplementsExchange |
| WorkerProofs, of Worker | WorkerTypeCorrect, RunsAreForTheirFetches, WorkerImplementsService, WorkerKeepsItsPromise, ResponsesAreDelivered |
| PlatformProofs | PlatformTypeCorrect, StringsAlwaysFit, ConstantsAreAtoms, BytesAreRandom, TimersAreNeverEarly |
| ShimProofs | UniformIsUnbiased, DrawsStayUnbiased, Base64IsRead, Base64StaysRead, QueriesAreRead, QueriesStayRead, UrisAreTakenApart, PartsStayTheUris |
| JsonProofs | JsonIsRead, JsonStaysRead, CutsAreNoValues, CutsStayRefused |
| WireProofs | RequestsArrive, ResponsesArrive, BytesDecodeAlike, DecodersStayAlike |

*Induction.*  The library's induction theorems take a predicate as a parameter, which the
provers here cannot instantiate.  NatProofs states them for a set of numbers instead
(`LeastNatural`, `SetInduction`, from the library's well-founded order of the naturals), and
derives from them that a recursion has a solution (`Recursion`): a function defined by
recursion is a CHOOSE, and nothing is known of it until one exists.  Doublings of a buffer,
sums over strings, powers of two, the groups and pairs of the shims and the decoders rest on
these.

*ReadStdin*, for every first capacity, limit, stdio buffer and set of sizes.  `NothingLost` is
almost inductive; what it lacks is what each program point knows: that the loop is left
for `term` only when stdin is exhausted (the fact `fd_read` returning 0 establishes), and for
`grow` only with a full buffer.  `HalfTheLimitIsAccepted` follows from `RefusedOnlyWhenFull`.

*ReadStdinHost* (in ReadStdinProofs).  The NIF's invariant, and for the Erlang loop that it accepts with all of
stdin and within the limit or refuses over it.

*AvmLoader*, for every set of argument lists.  The invariant says, per program point, which
descriptor is open, at which position, who owns the data, and that the arguments before `i`
are exactly those loaded, so that `mainModule` is the first of them that is startable.

*Frame and Guest* (both in WorkerProofs), for every alphabet, every marker whose first byte occurs in it only once
(`SentinelAssumption`; the code's marker begins with its only newline), every set of payloads
and prints.  `AnswerIsTheFrame` speaks of finished runs only.  The inductive invariant adds
`Framed`: once the frame is written, the worker's output is something, then the frame, then
`late`.  Every output action keeps it, because output is only ever appended.  At the last step
`FrameIsFound` applies: behind a frame without a marker after it, `ParseOutput` returns the
frame's payload.  Its heart is that a marker cannot begin inside the frame's own marker or
inside what follows it, so the last occurrence is the frame's; the length then reads back
(`U32RoundTrip`), given that a payload is shorter than `Base^4` (`PayloadSizeAssumption`: a
payload fits a 32-bit memory).

`GuestTypeCorrect` holds only together with `Room`: what was written never exceeds the output
buffer's size.  For `FdWrite` that is a fact about its loop: doubling a size of at least one
`need` times gives more than `need` (`DoublingsGrow`), so the set of sizes that would do is not
empty, and the loop stops at its least element (`GrownHolds`).

`GuestImplementsExchange` is the refinement of Exchange.  It adds to the invariant what the
bridge may frame at each program point (`Answering`) and what each outcome comes from
(`Answered`).  Its hypothesis `[]NoForgery` is part of what it says: the application prints no
marker after the bridge's frame, and none at all in a run that dies before its frame.
Without it the theorem is false, because the worker takes the last marker for the frame's;
nothing in the code keeps an application from printing one.  The prints of the run `guest` are
too short to be frames, so TLC checks `ImplementsExchange` there without the hypothesis.

*Worker*, for every set of fetches, limit and message.  `RunIsForItsFetch` lacks, to be
inductive, that an unfinished fetch has no answer yet and that a fetch past its first test did
not declare too long a body (`Admitted`).  `WorkerImplementsService` is the step simulation of
Service under the map of section 2 (`S`): every step that answers a fetch is an `Answer` of it,
every other step a stutter.  It takes from the guest only what Exchange promises of a run
(`GuestKeepsExchange`, a hypothesis of the theorem), so it holds for any guest that implements
Exchange.  `WorkerKeepsItsPromise` is the theorem about this guest: WorkerProofs carries the
guest's invariant through all runs of it, since `StartRun` begins each of them in an initial
state of Guest (`Fresh`) whatever the one before left, and discharges the hypothesis with
`HonestRunsKeepExchange`.  It inherits `[]NoForgery`.  `ResponsesAreDelivered` needs no more of
the guest than that its step is one of its own: only `RunEnds` answers a fetch that is running
(`OnlyTheRunAnswers`), and what it answers is what Service says of the payload
(`ReplyIsTheServices`).

*Platform*.  The three parts share no state, so each has an invariant of its own and is
untouched by the steps of the others (`Touches`).  *Strings*, for any number of arguments and
bindings of any length: the partial sums that `environ_get` places strings at grow with each
string that is not empty (`SumBefore`), a string of ASCII has as many units as bytes
(`AsciiSize`), and an argument's NUL is counted in one function and appended in the other
(`ArgsFit`).  *Atoms*: the constants before the loop's
index name their atoms, and a table that grows keeps its indices.  *Random bytes*: `filled` is
what lies below the loop's offset, cut off at the size.  *Timers*: a waiting process's deadline
is the reading at which it began plus its timeout, both in nanoseconds; that
`sys_monotonic_time_u64` is the reading again is `(x div s) * s + x % s = x`, and comparing
in nanoseconds is comparing in milliseconds.

*Rand*, for words of any width from two bits (the code's 32 and 2^62 among them) and every N up
to the range of two draws.  A draw has a number, `hi * 2^w + lo` for two words, and its value is
the number divided by `m`: 1 for one word, 4 for two, whose low two bits are dropped
(`Indexed`).  The draws taken are the numbers below `m * (q * N)`, where `q` is how often N fits,
and the map from `0 .. m * q - 1` to the numbers whose value gives r (`Nth`, with `Rank` as its
inverse) is a bijection, so that m * q of them give each r (`GivingAre`).  That N is at most
the range gives `q >= 1`, from which more than half of the draws are taken.

*Wire*, for every request and response whose texts and lists are no longer than `MaxInt`, the
2^31 - 1 that a 32-bit memory stays below, and statuses from 0 to there.  A text holds any
bytes.  `encoding` *occurs* in `b` at an offset when every byte of it stands there; what
occurs is read back whatever surrounds it (`BinaryReads` and its like for headers, integers
and tuples), so the bytes of a text are never looked at as terms.  The loop
over the headers, of the encoder and of the decoders, is followed by `SetInduction` on how many
it has done (`FirstHeadersOccur`, `ItemsAre`, `HeadersRead`).  Both decoders are recursive in how
deep terms lie in one another; that such functions exist is shown for both at once
(`ReadsSteps`), and a request or a response needs four levels of it, a text in a header in a
list in a tuple, which are fewer than its bytes (`ReadsRecurse`).  That no request is taken for a warm-up is part of
`RequestsArrive`: the arity, 4 or 5, is read before any byte a client chose.

*Etf*, for every string of bytes, whoever made it.  `BytesDecodeAlike` follows AtomVM's decoder
through a term of what the two exchange, tag by tag, and shows that the worker's decoder, at the
same place, takes the same bytes for the same term and stops at the same byte.  The induction is
on how deep the term is nested, and inside it on the elements of a tuple or list, which are
linked by where one ends and the next begins.  Nothing is said of bytes in which AtomVM reads an
atom, a float or a map, nor of those that it refuses.  `WireAssumption` says only that the
inputs of the run are requests and responses, and that damage puts in bytes.

*Base64* (in ShimProofs), for texts of any length.  A text of n bytes is encoded group by group
and decoded piece by piece; the two cut at the same places (`Pieces`), and one group of three, two or one
bytes reads back by the arithmetic of its bits.  A blank or a foreign character put in anywhere
leaves the characters of the alphabet as they were, so that decoding sees the same pieces.

*UriString* (in ShimProofs), for any queries and URIs.  *Queries*: percent decoding undoes the encoding byte by
byte, by induction on how many calls it has made; splitting at the ampersands, of which there may
be several between two pairs, gives each pair's text and empty parts, which are dropped.
`QueriesAssumption`: no pair has an empty key and no value, since its text is empty and the
code drops it.  *URIs*: the text is taken apart from both ends, and
each split stops at the right delimiter because the parts it must not stop in are free of it;
what is missing is not found, since its delimiter is in no part before it.  A text of digits is
never looked at as a number.  `IsUri`, and with it `UrisAssumption`, is what RFC 3986 lets parts
hold, but for hosts with a colon in them and empty ports, of which the claim is false.

*Json*, for every document, any blanks between its tokens, and every `MaxDepth` and
`MaxJsonSize`.  A text *stands* at a place in bytes that may end before it does (`Stands`), so
one argument covers a text that is whole, which is read, and one that is cut, which is refused.
Strings, arrays and objects are sequences of pieces, one for each call of the loop that reads
them (an escaped character, an item or pair with its comma); `WalkIs` follows such a loop over
the pieces that are there, given what a single call makes of a piece (`EscapeRead`,
`ItemRead`, `PairRead`).  A number has no end of its own: its literal is taken up to the first
byte that may follow a value (`Ends`), by `IntegerEnds` and `FloatEnds`.  Documents are then followed
by `SetInduction` on how deep they are (`DocumentsRead`); the depth that the decoder counts is
that of the document, so one too deep is refused, which is the other half of `JsonReadsBack`.
`CutsAreRefused` does not mention the limits: a text cut short is refused also when it is too
deep.  `JsonAssumption` says only that the run's inputs are documents and blanks.

Only model-checked:

* everything under fairness (`ReadReturns`, `EveryFetchAnswered`, the second half
  of `TimersKept`): liveness is out of the prover's reach;
* the tables (Imports): a name is a string and the hash reads its characters, which no backend
  can do; it is a computation over all entries, and TLC does it for all of them.

## 5. Abstractions

* Requests and responses are opaque; a request is what the bridge finds out about it.
* A print is one of a few byte strings and may be split, delayed or flushed as wasi-libc
  likes.  Application code is one step (`Handle`) around which prints, death and traps happen.
* `start/0` calls `glowvm.serve` at most once.  A second call would read an empty stdin and
  frame a second answer, which would be the one parsed.  `index.js:271-275` says of the marker that
  its last occurrence "is always ours": a second call, or a marker printed after the frame,
  contradicts that.  `AnswerIsTheFrame` therefore speaks of runs without either.
* The exit code of a finished guest is 0 or not, whichever: it depends on what `start/0`
  returns, which AtomVM judges.
* Loading (`Boot`) is one step of Guest and the subject of AvmLoader; reading stdin (`Serve`)
  is one step of Guest and the subject of ReadStdin.
* Bindings, headers, URL and method are not distinguished by any branch of the worker.
* In Platform, what processes compute is left out but for what reaches the platform: timers,
  random bytes, `os:type/0`.  Timers expire between polls, as AtomVM's scheduler does it.
* In Imports a module that is in the pack is taken to have the function called.

## 6. Findings

`host_twin_limit`: `host_io.erl:7-11` says that both `read_stdin`s have a limit of 10 MB and
that one is a faithful re-implementation of the other.  The NIF refuses when twice the
capacity is over the limit; capacities are 4096 times a power of two, so it refuses once 8 MiB
are full, while the Erlang loop accepts up to 10 MiB.  TLC finds a stdin between the two.  The
worker limits bodies to 1 MiB, so no request of a client reaches either.

`json_escapes`: `dec_unicode` hands a code point to `dec_str` as one list element, and
`list_to_binary` (`json.erl:183`) makes one byte of it, or fails above 255.  An escaped U+00E9
becomes the byte 233, and every surrogate pair, whose code point `json.erl:224` computes, is an
error.  OTP's module, for which `json.erl:3` says this is a compatible shim, gives UTF-8.

`base64_strict`: `base64.erl:118-119` speaks of strict decoding in which anything unexpected is
a badarg; `decode_groups` goes on after a padded group, so `AAA=AAAA` is read.

`math_nifs`: `build-glowvm.sh:301-302` leaves math out of the pack because "every function is
a NIF [...] and resolves without a beam".  `rand:normal/0` calls `math:pi/0` (`rand.erl:181`),
which is in neither table, so on AtomVM it is undef.

Seen on the way, read off the code and shown by no run:

* `uri_string:parse/1` gives `//a:` the host `a:`, and `[::1]:80` as a whole for a host, without
  a port; it takes a sign before a port.  `uri_string.erl:10-13` leaves out of what it covers
  only the resolution of references and IPv6 zone ids.
* A binding with characters outside ASCII gets too little room: `environ_sizes_get` counts
  UTF-16 units (`index.js:115`), `environ_get` writes UTF-8, and `index.js:499-507` passes every
  binding that is a string.
* `base64.erl:13-16` speaks of one code path that behaves identically on both VMs.  `encode/1`,
  `decode/1`, `encode_to_string/1` and `decode_to_string/1` are in AtomVM's table of NIFs, which is
  searched first, so on AtomVM the shim's functions of these names are never run.
* While `Date.now()` stands still, no timer above 0 ms fires; nothing in the repository
  promises timers.
* `json:decode/1` ignores what follows the value, skips whatever byte stands where a colon should,
  and tells literals by their first letter.  Above 2^62, `rand:uniform/1` rejects every draw until
  its tries run out.

## 7. Not modelled

* The rest of the WASI host (stat calls, `fd_readdir`, stubs) and of `sys.c` (select events,
  listeners, ports, JIT, `sys_time`): constants and empty functions without state.
* The generator and the seeding of `rand.erl`: their quality is a matter of statistics, and
  32-bit words are out of TLC's reach; the floats of `rand` are not modelled, and one of `json`
  is its literal.
* `maps.erl` and `string.erl`: pure re-implementations of OTP's functions, a reference for
  which would be the same definitions again; Imports checks that their calls resolve.
* `io_lib_format.erl` is OTP's own.  Build scripts beyond the list of shipped modules,
  fixtures and smoke tests have file-system effects only.
* `canned_reader` of the bridge: its consumer, wisp, is outside the repository.
* AtomVM and wasi-libc are external; what the code relies on is modelled and marked so in the
  map.
* A second `glowvm.serve` in one run, and prints that forge a frame: they contradict the comment
  at `index.js:271-275` (see section 5), and the code does nothing against them.
