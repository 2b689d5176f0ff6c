--------------------------- MODULE AvmLoaderProofs --------------------------
(***************************************************************************)
(* The loader for every list of arguments: nothing leaks on any path, the  *)
(* first startup module is the one that runs, the exit code is truthful    *)
(* and a failure has a cause.                                              *)
(*                                                                         *)
(* None of this is inductive by itself.  OpenFile says that the file being *)
(* read is the only one open and stands at its beginning, so that reading  *)
(* it cannot come up short; Seen says what the arguments before the        *)
(* current one have left behind.                                           *)
(***************************************************************************)
EXTENDS AvmLoader, SequenceTheorems, TLAPS

Types ==
  /\ argv \in Argvs /\ i \in Nat \ {0}
  /\ packs \in Seq(Nat) /\ mods \subseteq Nat /\ mainModule \in Nat /\ ran \in Nat
  /\ global \in {"none", "live", "destroyed"}
  /\ fds = [open |-> fds.open, next |-> fds.next]
  /\ denied \in BOOLEAN /\ result \in {"success", "failure"}
  /\ pc \in {"start", "next", "open", "measure", "read", "parse", "startup", "run",
             "destroy", "exited"}

Loading == {"open", "measure", "read", "parse", "startup"}
Leaving == {"destroy", "exited"}

\* The current argument has passed every test before the current point.
Current ==
  /\ pc \in Loading => i \in DOMAIN argv /\ arg.ext # "other"
  /\ pc \in Loading \ {"open"} => arg.exists
  /\ pc \in {"read", "parse", "startup"} => arg.size > 0
  /\ pc = "startup" => arg.ext = "avm" /\ \E j \in DOMAIN packs : packs[j] = i

\* The one open file is the argument's, read from its beginning.
OpenFile ==
  /\ pc \in {"measure", "read"} =>
       \E f \in DOMAIN fds.open : fds.open = [x \in {f} |-> [size |-> arg.size, pos |-> 0]]
  /\ pc \notin {"measure", "read"} => DOMAIN fds.open = {}
  /\ heap = IF pc \in {"read", "parse"} THEN {"data"} ELSE {}

\* What the arguments before i have left.
Loaded(k) == (\E j \in DOMAIN packs : packs[j] = k) \/ k \in mods
Seen ==
  /\ \A k \in DOMAIN argv : k < i => Loaded(k)
  /\ pc \notin Leaving /\ mainModule = 0 => \A k \in Startables : k >= i
  /\ pc \notin Leaving /\ mainModule # 0 => IsMain(mainModule) /\ mainModule < i

Outcome ==
  /\ pc = "start" => global = "none"
  /\ pc \notin {"start"} \union Leaving => global = "live"
  /\ pc = "exited" => global # "live"
  /\ pc = "run" => mainModule # 0 /\ i > Len(argv)
  /\ pc \notin Leaving => ran = 0 /\ result = "success"
  /\ pc \in Leaving /\ result = "success" => IsMain(ran)

Caused ==
  pc \in Leaving /\ ran = 0 =>
    denied \/ Startables = {} \/ \E k \in DOMAIN argv : ~Loadable(argv[k])

IInv == Types /\ Current /\ OpenFile /\ Seen /\ Outcome /\ Caused

-----------------------------------------------------------------------------
\* An argument is what Argument says.
LEMMA ArgumentIsTyped ==
  ASSUME Types, NEW k \in DOMAIN argv
  PROVE  /\ k \in Nat \ {0} /\ k <= Len(argv) /\ Len(argv) \in Nat
         /\ argv[k] \in Argument
<1>1. argv \in Seq(Argument)
  BY ArgvsAssumption DEF Types
<1>2. QED
  BY <1>1, LenProperties, ElementOfSeq

LEMMA IndexInDomain ==
  ASSUME Types, i <= Len(argv)
  PROVE  i \in DOMAIN argv
BY ArgvsAssumption DEF Types

\* Opening a file when none is open leaves exactly that one open, at its beginning.
LEMMA Opened ==
  ASSUME NEW t, NEW n, DOMAIN t.open = {}
  PROVE  PathOpen(t, n).open = [x \in {t.next} |-> [size |-> n, pos |-> 0]]
BY DEF PathOpen

\* Seeking to the end and back gives the size and the beginning.
LEMMA Measured ==
  ASSUME Types, Current, OpenFile, pc \in {"measure", "read"}
  PROVE  /\ fd \in DOMAIN fds.open /\ fds.open[fd] = [size |-> arg.size, pos |-> 0]
         /\ DOMAIN FdClose(fds, fd).open = {}
         /\ fsize = arg.size
         /\ \E f \in DOMAIN Rewound.open :
              Rewound.open = [x \in {f} |-> [size |-> arg.size, pos |-> 0]]
         /\ FdRest(fds, fd) = arg.size
<1>1. PICK f \in DOMAIN fds.open : fds.open = [x \in {f} |-> [size |-> arg.size, pos |-> 0]]
  BY DEF OpenFile
<1>2. fd = f
  BY <1>1 DEF fd
<1>3. arg.size \in Nat
  BY ArgumentIsTyped DEF Current, Loading, arg, Argument
<1> DEFINE n == arg.size
           at(p) == [x \in {f} |-> [size |-> n, pos |-> p]]
<1>4. fds = [open |-> at(0), next |-> fds.next]
  BY <1>1 DEF Types
<1> HIDE DEF n
<1>5. FdSeek(fds, f, 0, "end") = [open |-> at(n), next |-> fds.next]
  BY <1>3, <1>4 DEF FdSeek, n
<1>6. FdSeek([open |-> at(n), next |-> fds.next], f, 0, "set")
        = [open |-> at(0), next |-> fds.next]
  BY <1>3 DEF FdSeek, n
<1>7. DOMAIN FdClose(fds, f).open = {}
  BY <1>4 DEF FdClose
<1>8. FdRest(fds, f) = n
  BY <1>3, <1>4 DEF FdRest, n
<1>9. fsize = n
  BY <1>2, <1>5 DEF fsize
<1>10. Rewound.open = at(0)
  BY <1>2, <1>5, <1>6 DEF Rewound
<1>11. fds.open[fd] = [size |-> n, pos |-> 0]
  BY <1>1, <1>2 DEF n
<1>12. QED
  BY <1>2, <1>7, <1>8, <1>9, <1>10, <1>11 DEF n

\* The FILE delivers all of a file that is read from its beginning.
LEMMA ReadsAll ==
  ASSUME NEW n \in Nat, n > 0
  PROVE  FdRead(n, n - 1, StdioBuf) >= n
BY StdioBufAssumption DEF FdRead, Least

\* A pack that is appended is there, and so are those before it.
LEMMA PackAppended ==
  ASSUME Types, packs' = Append(packs, i), mods' = mods
  PROVE  /\ packs' \in Seq(Nat) /\ \E j \in DOMAIN packs' : packs'[j] = i
         /\ \A k : Loaded(k) => Loaded(k)'
<1>1. /\ packs \in Seq(Nat) /\ i \in Nat /\ packs' \in Seq(Nat) /\ Len(packs) \in Nat
      /\ Len(packs') = Len(packs) + 1 /\ packs'[Len(packs) + 1] = i
      /\ \A j \in 1 .. Len(packs) : packs'[j] = packs[j]
  BY AppendProperties, LenProperties DEF Types
<1>2. DOMAIN packs' = 1 .. Len(packs) + 1 /\ DOMAIN packs = 1 .. Len(packs)
  BY <1>1
<1>3. \A k : Loaded(k) => Loaded(k)'
  BY <1>1, <1>2 DEF Loaded
<1>4. QED
  BY <1>1, <1>2, <1>3

-----------------------------------------------------------------------------
\* Failing is the same everywhere: nothing but the result changes, and there is a cause.
LEMMA FailStep ==
  ASSUME IInv, pc \notin Leaving, pc # "start", Fail,
         UNCHANGED <<argv, i, global, tables, ran>>,
         fds' = [open |-> fds'.open, next |-> fds'.next], DOMAIN fds'.open = {}, heap' = {},
         denied' \in BOOLEAN, denied => denied',
         denied' \/ Startables = {} \/ \E k \in DOMAIN argv : ~Loadable(argv[k])
  PROVE  IInv'
<1> USE DEF IInv, Fail, tables
<1>1. Types' /\ Current' /\ OpenFile'
  BY DEF Types, Current, Loading, OpenFile
<1>2. Seen' /\ Outcome' /\ Caused'
  BY DEF Seen, Loaded, Outcome, Caused, Leaving, Startables
<1>3. QED
  BY <1>1, <1>2

\* So is going on to the next argument: this one is loaded, and main_module is taken by it
\* if it is the first that can start.
LEMMA AdvanceStep ==
  ASSUME IInv, pc \in Loading \ {"measure", "read"},
         i' = i + 1, pc' = "next", heap' = {},
         UNCHANGED <<argv, global, packs, ran, fds, denied, result>>,
         mods' \subseteq Nat, mods \subseteq mods', \A k \in {i} : Loaded(k)',
         mainModule' = IF mainModule = 0 /\ arg.startable THEN i ELSE mainModule
  PROVE  IInv'
<1> USE DEF IInv
<1>1. i \in Nat \ {0} /\ i \in DOMAIN argv
  BY DEF Types, Current
<1>2. Types' /\ Current' /\ OpenFile'
  BY <1>1 DEF Types, Current, Loading, OpenFile
<1>3. \A k \in DOMAIN argv : k \in Nat \ {0} /\ (k < i + 1 => k < i \/ k = i)
  BY <1>1, ArgumentIsTyped
<1>4. \A k : Loaded(k) => Loaded(k)'
  BY DEF Loaded
<1>5. Seen'
  <2>1. \A k \in DOMAIN argv' : k < i' => Loaded(k)'
    BY <1>3, <1>4 DEF Seen
  <2>2. mainModule' = 0 => \A k \in Startables' : k >= i'
    BY <1>1, <1>3 DEF Seen, Startables, Leaving, Loading, arg
  <2>3. mainModule' # 0 => IsMain(mainModule)' /\ mainModule' < i'
    <3>1. CASE mainModule # 0
      BY <1>1, <3>1 DEF Types, Seen, Startables, IsMain, Leaving, Loading
    <3>2. CASE mainModule = 0 /\ arg.startable
      BY <1>1, <1>3, <3>2 DEF Seen, Startables, IsMain, Leaving, Loading, arg
    <3>3. CASE mainModule = 0 /\ ~arg.startable
      BY <3>3
    <3>4. QED
      BY <3>1, <3>2, <3>3
  <2>4. QED
    BY <2>1, <2>2, <2>3 DEF Seen
<1>6. Outcome' /\ Caused'
  BY DEF Outcome, Caused, Leaving, Loading
<1>7. QED
  BY <1>2, <1>5, <1>6

LEMMA InitIInv == Init => IInv
<1> SUFFICES ASSUME Init PROVE IInv
  OBVIOUS
<1>1. fds = [open |-> fds.open, next |-> fds.next] /\ fds.open = <<>>
  BY DEF Init, NoOpenFiles
<1>2. DOMAIN fds.open = {}
  BY <1>1
<1>3. OpenFile
  BY <1>2 DEF Init, OpenFile
<1>4. packs \in Seq(Nat)
  BY DEF Init
<1>5. Types
  <2>1. argv \in Argvs /\ i \in Nat \ {0} /\ mods \subseteq Nat /\ mainModule \in Nat
        /\ ran \in Nat
    BY DEF Init
  <2>2. /\ global = "none" /\ denied = FALSE /\ result = "success" /\ pc = "start"
    BY DEF Init
  <2>3. QED
    BY <1>1, <1>4, <2>1, <2>2 DEF Types
<1>6. argv \in Seq(Argument)
  BY ArgvsAssumption DEF Init
<1>7. Current /\ Seen /\ Outcome /\ Caused
  BY <1>6 DEF Init, Current, Loading, Leaving, Seen, Startables, Outcome, Caused
<1>8. QED
  BY <1>3, <1>5, <1>7 DEF IInv

LEMMA StartStep == IInv /\ Start => IInv'
<1> SUFFICES ASSUME IInv, Start PROVE IInv'
  OBVIOUS
<1> USE DEF IInv, Start, Exit, tables, files
<1>1. Types' /\ Current' /\ OpenFile'
  BY DEF Types, Current, Loading, OpenFile
<1>2. argv = <<>> => Startables = {}
  BY DEF Startables
<1>3. Seen'
  BY DEF Seen, Loaded, Leaving, Startables, IsMain
<1>4. global # "live"
  BY DEF Outcome
<1>5. Outcome' /\ Caused'
  BY <1>2, <1>4 DEF Outcome, Caused, Leaving, Startables, Types
<1>6. QED
  BY <1>1, <1>3, <1>5

LEMMA NextArgumentStep == IInv /\ NextArgument => IInv'
<1> SUFFICES ASSUME IInv, NextArgument PROVE IInv'
  OBVIOUS
<1> USE DEF IInv, NextArgument, tables, files
<1>1. i \in DOMAIN argv
  BY IndexInDomain
<1>2. fds = [open |-> fds.open, next |-> fds.next] /\ DOMAIN fds.open = {} /\ heap = {}
  BY DEF Types, OpenFile
<1>3. CASE arg.ext = "other" /\ Fail
  BY <1>1, <1>2, <1>3, FailStep DEF Types, Leaving, Loadable, arg
<1>4. CASE arg.ext # "other" /\ pc' = "open" /\ UNCHANGED result
  <2>1. Types' /\ Current' /\ OpenFile'
    BY <1>1, <1>4 DEF Types, Current, Loading, OpenFile, arg
  <2>2. Seen' /\ Outcome' /\ Caused'
    BY <1>4 DEF Seen, Loaded, Outcome, Caused, Leaving, Startables, IsMain
  <2>3. QED
    BY <2>1, <2>2
<1>5. QED
  BY <1>3, <1>4

LEMMA AllLoadedStep == IInv /\ AllLoaded => IInv'
<1> SUFFICES ASSUME IInv, AllLoaded PROVE IInv'
  OBVIOUS
<1> USE DEF IInv, AllLoaded, tables, files
<1>1. fds = [open |-> fds.open, next |-> fds.next] /\ DOMAIN fds.open = {} /\ heap = {}
  BY DEF Types, OpenFile
<1>2. CASE mainModule = 0 /\ Fail
  <2>1. Startables = {}
    BY <1>2, ArgumentIsTyped DEF Seen, Startables, Leaving, Types
  <2>2. QED
    BY <1>1, <1>2, <2>1, FailStep DEF Types, Leaving
<1>3. CASE mainModule # 0 /\ pc' = "run" /\ UNCHANGED result
  <2>1. Types' /\ Current' /\ OpenFile'
    BY <1>3 DEF Types, Current, Loading, OpenFile
  <2>2. Seen' /\ Outcome' /\ Caused'
    BY <1>3 DEF Seen, Loaded, Outcome, Caused, Leaving, Startables, IsMain
  <2>3. QED
    BY <2>1, <2>2
<1>4. QED
  BY <1>2, <1>3

LEMMA RunStep == IInv /\ Run => IInv'
<1> SUFFICES ASSUME IInv, Run PROVE IInv'
  OBVIOUS
<1> USE DEF IInv, Run, tables, files
<1>1. Types' /\ Current' /\ OpenFile'
  BY DEF Types, Current, Loading, OpenFile
<1>2. Seen' /\ Outcome' /\ Caused'
  BY DEF Types, Seen, Loaded, Outcome, Caused, Leaving, Startables, IsMain
<1>3. QED
  BY <1>1, <1>2

LEMMA DestroyStep == IInv /\ Destroy => IInv'
<1> SUFFICES ASSUME IInv, Destroy PROVE IInv'
  OBVIOUS
<1> USE DEF IInv, Destroy, files
<1>1. Types' /\ Current' /\ OpenFile'
  BY DEF Types, Current, Loading, OpenFile
<1>2. Seen' /\ Outcome' /\ Caused'
  BY DEF Seen, Loaded, Outcome, Caused, Leaving, Startables, IsMain
<1>3. QED
  BY <1>1, <1>2

LEMMA OpenStep == IInv /\ Open => IInv'
<1> SUFFICES ASSUME IInv, Open PROVE IInv'
  OBVIOUS
<1> USE DEF IInv, Open, tables
<1>1. /\ fds = [open |-> fds.open, next |-> fds.next] /\ DOMAIN fds.open = {} /\ heap = {}
      /\ i \in DOMAIN argv
  BY DEF Types, OpenFile, Current, Loading
<1>2. CASE arg.exists /\ fds' = PathOpen(fds, arg.size) /\ pc' = "measure"
           /\ UNCHANGED <<denied, result>>
  <2>1. fds'.open = [x \in {fds.next} |-> [size |-> arg.size, pos |-> 0]]
    BY <1>1, <1>2, Opened
  <2>2. \E f \in DOMAIN fds'.open : fds'.open = [x \in {f} |-> [size |-> arg.size, pos |-> 0]]
    BY <2>1
  <2>3. fds' = [open |-> fds'.open, next |-> fds'.next]
    BY <1>2 DEF PathOpen
  <2>4. Types' /\ Current' /\ OpenFile'
    BY <1>2, <2>2, <2>3 DEF Types, Current, Loading, OpenFile, arg
  <2>5. Seen' /\ Outcome' /\ Caused'
    BY <1>2 DEF Seen, Loaded, Outcome, Caused, Leaving, Startables, IsMain
  <2>6. QED
    BY <2>4, <2>5
<1>3. CASE ~arg.exists /\ Fail /\ UNCHANGED <<fds, denied>>
  BY <1>1, <1>3, FailStep DEF Types, Leaving, Loadable, arg
<1>4. CASE arg.exists /\ Fail /\ denied' = TRUE /\ UNCHANGED fds
  BY <1>1, <1>4, FailStep DEF Leaving
<1>5. QED
  BY <1>2, <1>3, <1>4

LEMMA MeasureStep == IInv /\ Measure => IInv'
<1> SUFFICES ASSUME IInv, Measure PROVE IInv'
  OBVIOUS
<1> USE DEF IInv, Measure, tables
<1>1. /\ DOMAIN FdClose(fds, fd).open = {} /\ fsize = arg.size
      /\ \E f \in DOMAIN Rewound.open :
           Rewound.open = [x \in {f} |-> [size |-> arg.size, pos |-> 0]]
  BY Measured
<1>2. fds' = [open |-> fds'.open, next |-> fds'.next]
  BY DEF FdClose, Rewound, FdSeek
<1>3. heap = {} /\ i \in DOMAIN argv
  BY DEF OpenFile, Current, Loading
<1>4. CASE fsize <= 0 /\ fds' = FdClose(fds, fd) /\ Fail /\ UNCHANGED <<heap, denied>>
  <2>1. ~Loadable(argv[i])
    BY <1>1, <1>3, <1>4, ArgumentIsTyped DEF Loadable, arg, Argument
  <2>2. QED
    BY <1>1, <1>2, <1>3, <1>4, <2>1, FailStep DEF Types, Leaving
<1>5. CASE /\ fsize > 0
           /\ fds' = Rewound /\ heap' = {"data"} /\ pc' = "read"
           /\ UNCHANGED <<denied, result>>
  <2>1. Types' /\ Current' /\ OpenFile'
    BY <1>1, <1>2, <1>5 DEF Types, Current, Loading, OpenFile, arg
  <2>2. Seen' /\ Outcome' /\ Caused'
    BY <1>5 DEF Seen, Loaded, Outcome, Caused, Leaving, Startables, IsMain
  <2>3. QED
    BY <2>1, <2>2
<1>6. CASE fds' = FdClose(fds, fd) /\ Fail /\ denied' = TRUE /\ UNCHANGED heap
  BY <1>1, <1>2, <1>3, <1>6, FailStep DEF Leaving
<1>7. QED
  BY <1>4, <1>5, <1>6

LEMMA ReadStep == IInv /\ Read => IInv'
<1> SUFFICES ASSUME IInv, Read PROVE IInv'
  OBVIOUS
<1> USE DEF IInv, Read, tables
<1>1. DOMAIN FdClose(fds, fd).open = {} /\ fsize = arg.size /\ FdRest(fds, fd) = arg.size
  BY Measured
<1>2. arg.size \in Nat /\ arg.size > 0
  BY ArgumentIsTyped DEF Current, Loading, arg, Argument
<1>3. pc' = "parse" /\ UNCHANGED <<heap, result>>
  BY <1>1, <1>2, ReadsAll
<1>4. fds' = [open |-> fds'.open, next |-> fds'.next]
  BY DEF FdClose
<1>5. Types' /\ Current' /\ OpenFile'
  BY <1>1, <1>3, <1>4 DEF Types, Current, Loading, OpenFile, arg
<1>6. Seen' /\ Outcome' /\ Caused'
  BY <1>3 DEF Seen, Loaded, Outcome, Caused, Leaving, Startables, IsMain
<1>7. QED
  BY <1>5, <1>6

LEMMA ParseAvmStep == IInv /\ ParseAvm => IInv'
<1> SUFFICES ASSUME IInv, ParseAvm PROVE IInv'
  OBVIOUS
<1> USE DEF IInv, ParseAvm, tables
<1>1. CASE packs' = Append(packs, i) /\ pc' = "startup" /\ UNCHANGED <<denied, result>>
  <2>1. /\ packs' \in Seq(Nat) /\ \E j \in DOMAIN packs' : packs'[j] = i
        /\ \A k : Loaded(k) => Loaded(k)'
    BY <1>1, PackAppended
  <2>2. Types' /\ Current' /\ OpenFile'
    BY <1>1, <2>1 DEF Types, Current, Loading, OpenFile, arg
  <2>3. Seen' /\ Outcome' /\ Caused'
    BY <1>1, <2>1 DEF Seen, Outcome, Caused, Leaving, Startables, IsMain
  <2>4. QED
    BY <2>2, <2>3
<1>2. CASE Fail /\ denied' = TRUE /\ UNCHANGED packs
  BY <1>2, FailStep DEF Types, OpenFile, Leaving
<1>3. QED
  BY <1>1, <1>2

LEMMA StartupStep == IInv /\ Startup => IInv'
<1> SUFFICES ASSUME IInv, Startup PROVE IInv'
  OBVIOUS
<1> USE DEF IInv, Startup, tables, files
<1>1. /\ heap = {} /\ i \in Nat /\ mods \subseteq Nat
      /\ \E j \in DOMAIN packs : packs[j] = i
  BY DEF OpenFile, Types, Current
<1>2. CASE Fail /\ denied' = TRUE /\ UNCHANGED <<i, mods, mainModule>>
  BY <1>2, FailStep DEF Types, OpenFile, Leaving
<1>3. CASE i' = i + 1 /\ pc' = "next"
  <2>1. mods' \subseteq Nat /\ mods \subseteq mods' /\ \A k \in {i} : Loaded(k)'
    BY <1>1, <1>3 DEF Loaded, Fail
  <2>2. mainModule' = IF mainModule = 0 /\ arg.startable THEN i ELSE mainModule
    BY <1>3 DEF Fail
  <2>3. UNCHANGED <<argv, packs, ran, fds, heap, denied, result, global>>
    BY <1>3 DEF Fail
  <2>4. QED
    BY <1>1, <1>3, <2>1, <2>2, <2>3, AdvanceStep DEF Loading
<1>4. QED
  BY <1>2, <1>3

LEMMA ParseBeamStep == IInv /\ ParseBeam => IInv'
<1> SUFFICES ASSUME IInv, ParseBeam PROVE IInv'
  OBVIOUS
<1>0. \/ ~arg.valid /\ Fail /\ UNCHANGED <<i, mods, mainModule, denied>>
      \/ Fail /\ denied' = TRUE /\ UNCHANGED <<i, mods, mainModule>>
      \/ /\ i' = i + 1 /\ pc' = "next" /\ mods' = mods \union {i}
         /\ mainModule' = IF mainModule = 0 /\ arg.startable THEN i ELSE mainModule
         /\ UNCHANGED <<denied, result>>
  BY DEF ParseBeam
<1>1. i \in Nat /\ mods \subseteq Nat /\ i \in DOMAIN argv
  BY DEF IInv, ParseBeam, Types, Current, Loading
<1>2. CASE ~arg.valid /\ Fail /\ UNCHANGED <<i, mods, mainModule, denied>>
  <2>1. ~Loadable(argv[i])
    <3>1. arg.ext = "beam" /\ ~arg.valid
      BY <1>2 DEF ParseBeam
    <3>2. QED
      BY <3>1 DEF Loadable, arg
  <2>2. QED
    BY <1>1, <1>2, <2>1, FailStep DEF IInv, ParseBeam, tables, Types, OpenFile, Leaving
<1>3. CASE Fail /\ denied' = TRUE /\ UNCHANGED <<i, mods, mainModule>>
  BY <1>3, FailStep DEF IInv, ParseBeam, tables, Types, OpenFile, Leaving
<1>4. CASE /\ i' = i + 1 /\ pc' = "next" /\ mods' = mods \union {i}
           /\ mainModule' = IF mainModule = 0 /\ arg.startable THEN i ELSE mainModule
           /\ UNCHANGED <<denied, result>>
  <2>1. mods' \subseteq Nat /\ mods \subseteq mods' /\ \A k \in {i} : Loaded(k)'
    BY <1>1, <1>4 DEF Loaded
  <2>2. QED
    BY <1>1, <1>4, <2>1, AdvanceStep DEF ParseBeam, Loading
<1>5. QED
  BY <1>0, <1>2, <1>3, <1>4

LEMMA StepIInv == IInv /\ [Next]_vars => IInv'
<1>1. IInv /\ UNCHANGED vars => IInv'
  <2> SUFFICES ASSUME IInv, UNCHANGED vars PROVE IInv'
    OBVIOUS
  <2> USE DEF vars, IInv
  <2>1. Types' /\ Current' /\ OpenFile'
    BY DEF Types, Current, OpenFile, arg
  <2>2. Seen' /\ Outcome' /\ Caused'
    BY DEF Seen, Loaded, Startables, IsMain, Outcome, Caused
  <2>3. QED
    BY <2>1, <2>2
<1>2. QED
  BY <1>1, StartStep, NextArgumentStep, AllLoadedStep, RunStep, DestroyStep, OpenStep,
     MeasureStep, ReadStep, ParseAvmStep, StartupStep, ParseBeamStep
     DEF Next, Exited

LEMMA Invariance == Spec => []IInv
<1>1. QED
  BY InitIInv, StepIInv, PTL DEF Spec

-----------------------------------------------------------------------------
\* The state keeps its types, and never is more than one file open (TypeOK; main.c:111-121).
THEOREM TypeCorrect == Spec => []TypeOK
<1>1. IInv => TypeOK
  <2> SUFFICES ASSUME IInv PROVE TypeOK
    OBVIOUS
  <2>1. heap \subseteq {"data"} /\ \A f, g \in DOMAIN fds.open : f = g
    BY DEF IInv, OpenFile
  <2>2. QED
    BY <2>1 DEF IInv, Types, TypeOK
<1>2. QED
  BY <1>1, Invariance, PTL

\* No path through the loaders leaks a file or a block (NoLeak; sys.c:160-188, 204-240).
THEOREM NothingLeaks == Spec => []NoLeak
<1>1. IInv => NoLeak
  BY DEF IInv, OpenFile, NoLeak
<1>2. QED
  BY <1>1, Invariance, PTL

\* The VM runs the startup module of the first argument that has one, with all arguments
\* loaded (RunsFirstStartable; main.c:91-92, 120-136).
THEOREM FirstStartableRuns == Spec => []RunsFirstStartable
<1>1. IInv => RunsFirstStartable
  <2> SUFFICES ASSUME IInv, pc = "run" PROVE RunsFirstStartable
    BY DEF RunsFirstStartable
  <2>1. \A k \in DOMAIN argv : k < i
    BY ArgumentIsTyped DEF IInv, Outcome, Types
  <2>2. QED
    BY <2>1 DEF IInv, Seen, Loaded, Outcome, Leaving, RunsFirstStartable
<1>2. QED
  BY <1>1, Invariance, PTL

\* Success means that the main module ran, and the context is gone (ExitCodeTruthful;
\* main.c:137-142).
THEOREM ExitCodeTellsTheTruth == Spec => []ExitCodeTruthful
<1>1. IInv => ExitCodeTruthful
  BY DEF IInv, Outcome, Leaving, ExitCodeTruthful
<1>2. QED
  BY <1>1, Invariance, PTL

\* No loadable list of arguments with a startup module fails to start while memory lasts
\* (FailureHasCause; sys.c:164-181).
THEOREM FailuresHaveCauses == Spec => []FailureHasCause
<1>1. IInv => FailureHasCause
  BY DEF IInv, Caused, Leaving, FailureHasCause
<1>2. QED
  BY <1>1, Invariance, PTL
=============================================================================
