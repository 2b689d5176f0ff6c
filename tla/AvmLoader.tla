------------------------------ MODULE AvmLoader ------------------------------
(***************************************************************************)
(* The guest's main: make the global context, load every file named in     *)
(* argv, run the first startup module found, destroy the context           *)
(* (main.c:38-143), with the two file loaders it calls (sys.c:155-246) on  *)
(* the worker's virtual file system (Wasi).  Any allocation may fail, and  *)
(* so may AtomVM's own loading of a module.                                *)
(*                                                                         *)
(* An argument is a record of what the code finds out about that path.     *)
(***************************************************************************)
EXTENDS Wasi

CONSTANTS
  Argvs,     \* the argument lists considered (argv[1..])
  StdioBuf   \* size of a FILE's own buffer

Argument == [ext       : {"avm", "beam", "other"},
             exists    : BOOLEAN,  \* the worker has the file
             size      : Nat,
             startable : BOOLEAN,  \* has a startup section, or exports start/0
             valid     : BOOLEAN]  \* iff_is_valid_beam

ASSUME ArgvsAssumption    == Argvs \subseteq Seq(Argument)
ASSUME StdioBufAssumption == StdioBuf \in Nat \ {0}

VARIABLES
  argv,
  i,           \* loop variable of main
  global,      \* the GlobalContext: none, live or destroyed
  packs,       \* global->avmpack_data: the arguments whose pack was appended, in order
  mods,        \* the arguments whose module was inserted
  mainModule,  \* the argument main_module comes from, 0 for NULL
  ran,         \* the argument globalcontext_run was called on, 0 if it was not
  fds,         \* the worker's table of open files
  heap,        \* the blocks the loader owns: the file's "data"
  denied,      \* an allocation or AtomVM's module loader has failed
  result,      \* main's result
  pc

tables == <<packs, mods, mainModule>>
files  == <<fds, heap>>
vars   == <<argv, i, global, packs, mods, mainModule, ran, fds, heap, denied, result, pc>>

arg == argv[i]
fd  == CHOOSE f \in DOMAIN fds.open : TRUE   \* the one FILE a loader has open

Init ==
  /\ argv \in Argvs /\ i = 1
  /\ global = "none" /\ packs = <<>> /\ mods = {} /\ mainModule = 0 /\ ran = 0
  /\ fds = NoOpenFiles /\ heap = {} /\ denied = FALSE
  /\ result = "success" /\ pc = "start"

-----------------------------------------------------------------------------
(* main *)

Exit(r) == result' = r /\ pc' = "exited"

\* result = EXIT_FAILURE; break
Fail == result' = "failure" /\ pc' = "destroy"

Start ==
  /\ pc = "start"
  /\ \/ argv = <<>> /\ Exit("failure") /\ UNCHANGED <<global, denied>>
     \/ argv # <<>> /\ Exit("failure") /\ denied' = TRUE /\ UNCHANGED global
     \/ /\ argv # <<>>
        /\ global' = "live" /\ pc' = "next" /\ UNCHANGED <<denied, result>>
  /\ UNCHANGED <<argv, i, tables, ran, files>>

\* load_module looks at the extension first.
NextArgument ==
  /\ pc = "next" /\ i <= Len(argv)
  /\ \/ arg.ext = "other" /\ Fail
     \/ arg.ext # "other" /\ pc' = "open" /\ UNCHANGED result
  /\ UNCHANGED <<argv, i, global, tables, ran, files, denied>>

\* Mutant: the loop of main goes on to run after a failed load_module.
AllLoadedIgnoresNull ==
  /\ pc = "next" /\ i > Len(argv)
  /\ pc' = "run" /\ UNCHANGED result
  /\ UNCHANGED <<argv, i, global, tables, ran, files, denied>>

AllLoaded ==
  /\ pc = "next" /\ i > Len(argv)
  /\ \/ mainModule = 0 /\ Fail
     \/ mainModule # 0 /\ pc' = "run" /\ UNCHANGED result
  /\ UNCHANGED <<argv, i, global, tables, ran, files, denied>>

Run ==
  /\ pc = "run"
  /\ ran' = mainModule
  /\ result' \in {"success", "failure"} /\ pc' = "destroy"
  /\ UNCHANGED <<argv, i, global, tables, files, denied>>

\* globalcontext_destroy; main_module = NULL; return result
Destroy ==
  /\ pc = "destroy"
  /\ global' = "destroyed" /\ mainModule' = 0 /\ pc' = "exited"
  /\ UNCHANGED <<argv, i, packs, mods, ran, files, denied, result>>

-----------------------------------------------------------------------------
(* sys_open_avm_from_file and sys_load_module_from_file *)

\* fopen: absent from the worker's files, or no memory for the FILE.
Open ==
  /\ pc = "open"
  /\ \/ arg.exists /\ fds' = PathOpen(fds, arg.size) /\ pc' = "measure"
        /\ UNCHANGED <<denied, result>>
     \/ ~arg.exists /\ Fail /\ UNCHANGED <<fds, denied>>
     \/ arg.exists /\ Fail /\ denied' = TRUE /\ UNCHANGED fds
  /\ UNCHANGED <<argv, i, global, tables, ran, heap>>

\* fseek to the end, ftell, fseek back; then the buffer.
Rewound == FdSeek(FdSeek(fds, fd, 0, "end"), fd, 0, "set")
fsize   == FdSeek(fds, fd, 0, "end").open[fd].pos

\* Mutant: the position stays at the end of the file.
MeasureNoRewind ==
  /\ pc = "measure"
  /\ \/ fsize <= 0 /\ fds' = FdClose(fds, fd) /\ Fail /\ UNCHANGED <<heap, denied>>
     \/ /\ fsize > 0
        /\ fds' = FdSeek(fds, fd, 0, "end") /\ heap' = {"data"} /\ pc' = "read"
        /\ UNCHANGED <<denied, result>>
     \/ fsize > 0 /\ fds' = FdClose(fds, fd) /\ Fail /\ denied' = TRUE /\ UNCHANGED heap
  /\ UNCHANGED <<argv, i, global, tables, ran>>

\* Mutant: an empty file is reported without closing it.
MeasureLeavesOpen ==
  /\ pc = "measure"
  /\ \/ fsize <= 0 /\ Fail /\ UNCHANGED <<files, denied>>
     \/ /\ fsize > 0
        /\ fds' = Rewound /\ heap' = {"data"} /\ pc' = "read"
        /\ UNCHANGED <<denied, result>>
     \/ fsize > 0 /\ fds' = FdClose(fds, fd) /\ Fail /\ denied' = TRUE /\ UNCHANGED heap
  /\ UNCHANGED <<argv, i, global, tables, ran>>

Measure ==
  /\ pc = "measure"
  /\ \/ fsize <= 0 /\ fds' = FdClose(fds, fd) /\ Fail /\ UNCHANGED <<heap, denied>>
     \/ /\ fsize > 0
        /\ fds' = Rewound /\ heap' = {"data"} /\ pc' = "read"
        /\ UNCHANGED <<denied, result>>
     \/ fsize > 0 /\ fds' = FdClose(fds, fd) /\ Fail /\ denied' = TRUE /\ UNCHANGED heap
  /\ UNCHANGED <<argv, i, global, tables, ran>>

\* Mutant: fclose is only called after a short read.
ReadLeavesOpen ==
  /\ pc = "read"
  /\ IF FdRead(FdRest(fds, fd), fsize - 1, StdioBuf) >= fsize
     THEN pc' = "parse" /\ UNCHANGED <<fds, heap, result>>
     ELSE fds' = FdClose(fds, fd) /\ heap' = {} /\ Fail
  /\ UNCHANGED <<argv, i, global, tables, ran, denied>>

\* fread of the whole file and fclose.  The FILE asks the worker for all but the last byte
\* and reads ahead for the rest; a short read frees the data.
Read ==
  /\ pc = "read"
  /\ fds' = FdClose(fds, fd)
  /\ IF FdRead(FdRest(fds, fd), fsize - 1, StdioBuf) >= fsize
     THEN pc' = "parse" /\ UNCHANGED <<heap, result>>
     ELSE heap' = {} /\ Fail
  /\ UNCHANGED <<argv, i, global, tables, ran, denied>>

\* The pack's descriptor is allocated and both go to the global context; the first pack
\* with a startup section gives main_module.
ParseAvm ==
  /\ pc = "parse" /\ arg.ext = "avm"
  /\ \/ heap' = {} /\ packs' = Append(packs, i) /\ pc' = "startup"
        /\ UNCHANGED <<denied, result>>
     \/ heap' = {} /\ Fail /\ denied' = TRUE /\ UNCHANGED packs
  /\ UNCHANGED <<argv, i, global, mods, mainModule, ran, fds>>

\* Mutant: every pack with a startup section takes main_module over.
StartupLastWins ==
  /\ pc = "startup"
  /\ \/ /\ arg.startable
        /\ mainModule' = i /\ mods' = mods \union {i}
        /\ i' = i + 1 /\ pc' = "next" /\ UNCHANGED <<denied, result>>
     \/ /\ ~arg.startable
        /\ i' = i + 1 /\ pc' = "next" /\ UNCHANGED <<mods, mainModule, denied, result>>
  /\ UNCHANGED <<argv, global, packs, ran, files>>

Startup ==
  /\ pc = "startup"
  /\ \/ /\ mainModule = 0 /\ arg.startable
        /\ mainModule' = i /\ mods' = mods \union {i}
        /\ i' = i + 1 /\ pc' = "next" /\ UNCHANGED <<denied, result>>
     \/ /\ mainModule = 0 /\ arg.startable
        /\ Fail /\ denied' = TRUE /\ UNCHANGED <<i, mods, mainModule>>
     \/ /\ mainModule # 0 \/ ~arg.startable
        /\ i' = i + 1 /\ pc' = "next" /\ UNCHANGED <<mods, mainModule, denied, result>>
  /\ UNCHANGED <<argv, global, packs, ran, files>>

\* iff_is_valid_beam, module_new_from_iff_binary, the insertion, and main_module if it is
\* still free and the module exports start/0.
ParseBeam ==
  /\ pc = "parse" /\ arg.ext = "beam"
  /\ heap' = {}
  /\ \/ ~arg.valid /\ Fail /\ UNCHANGED <<i, mods, mainModule, denied>>
     \/ arg.valid /\ Fail /\ denied' = TRUE /\ UNCHANGED <<i, mods, mainModule>>
     \/ /\ arg.valid
        /\ mods' = mods \union {i}
        /\ mainModule' = IF mainModule = 0 /\ arg.startable THEN i ELSE mainModule
        /\ i' = i + 1 /\ pc' = "next" /\ UNCHANGED <<denied, result>>
  /\ UNCHANGED <<argv, global, packs, ran, fds>>

\* The process ends once and is not started again.
Exited == pc = "exited" /\ UNCHANGED vars

Next ==
  \/ Start \/ NextArgument \/ AllLoaded \/ Run \/ Destroy
  \/ Open \/ Measure \/ Read \/ ParseAvm \/ Startup \/ ParseBeam \/ Exited

Spec == Init /\ [][Next]_vars

-----------------------------------------------------------------------------
\* The types of the state (main.c:32-33, 111-121).
TypeOK ==
  /\ argv \in Argvs /\ i \in Nat \ {0}
  /\ global \in {"none", "live", "destroyed"}
  /\ packs \in Seq(Nat) /\ mods \subseteq Nat /\ mainModule \in Nat /\ ran \in Nat
  /\ \A f, g \in DOMAIN fds.open : f = g
  /\ heap \subseteq {"data"} /\ denied \in BOOLEAN
  /\ result \in {"success", "failure"}
  /\ pc \in {"start", "next", "open", "measure", "read", "parse", "startup", "run",
             "destroy", "exited"}

\* Every early return of the loaders closes the file and frees what it allocated: between
\* two arguments, and at the end, nothing is open and nothing is owned
\* (sys.c:160-188, 204-240).
NoLeak ==
  pc \in {"start", "next", "run", "destroy", "exited"} =>
    DOMAIN fds.open = {} /\ heap = {}

\* The argument a startup module is taken from: the first that has one.
Startables == {k \in DOMAIN argv : argv[k].startable}
IsMain(m)  == m \in Startables /\ \A k \in Startables : m <= k

\* The VM runs only when every file was loaded, in a live context, and then the startup
\* module of the first file that has one: "The first .avm file's start module (or first
\* .beam with start/0) becomes the main module" (main.c:91-92, 120-136).
RunsFirstStartable ==
  pc = "run" =>
    /\ global = "live" /\ IsMain(mainModule)
    /\ \A k \in DOMAIN argv : (\E j \in DOMAIN packs : packs[j] = k) \/ k \in mods

\* The exit code tells the truth: success means that the main module ran, and a context
\* that was made is destroyed whatever happened (main.c:137-142).
ExitCodeTruthful ==
  pc = "exited" =>
    /\ global # "live"
    /\ result = "success" => IsMain(ran)

\* Loading fails for a reason: an argument that cannot be loaded, no startup module, or a
\* failed allocation.  In particular a file that is there is read in full
\* (sys.c:164-181).
Loadable(a) == a.ext # "other" /\ a.exists /\ a.size > 0 /\ (a.ext = "beam" => a.valid)
FailureHasCause ==
  pc = "exited" /\ ran = 0 =>
    denied \/ Startables = {} \/ \E k \in DOMAIN argv : ~Loadable(argv[k])
=============================================================================
