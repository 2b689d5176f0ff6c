----------------------------- MODULE DefaultAtoms ---------------------------
(***************************************************************************)
(* The atoms of this platform (platform_defaultatoms.c).  The C code names *)
(* them by constants that the compiler counts on from AtomVM's own atoms   *)
(* (platform_defaultatoms.h:14-21); at start each is entered into the atom *)
(* table, and the program aborts unless it got the index of its constant.  *)
(* An atom has a length byte before its characters, written by hand.       *)
(***************************************************************************)
EXTENDS Naturals, Sequences

CONSTANTS
  AtomNames,      \* what atoms may be called
  DefaultTables   \* the atom tables AtomVM may start the platform with

VARIABLES
  base,    \* PLATFORM_ATOMS_BASE_INDEX: how many atoms AtomVM has of its own
  atoms,   \* the atom table
  next,    \* i of the loop
  apc      \* "init", "done", or "abort"

avars == <<base, atoms, next, apc>>

\* platform_defaultatoms.def, in its order.
def == << [length |->  4, str |-> "wasi"],
          [length |-> 12, str |-> "http_request"],
          [length |-> 13, str |-> "http_response"] >>

ASSUME TablesAssumption ==
  /\ DefaultTables \subseteq Seq(AtomNames)
  /\ {def[i].str : i \in DOMAIN def} \union {"unix", "linux"} \subseteq AtomNames

\* The index that the constant of the i-th atom stands for.
INDEX(i) == base + i - 1

WASI_ATOM == INDEX(1)

nif_atomvm_platform == WASI_ATOM

\* Indices count from 0, TLA+'s sequences from 1.
Named(table, index) == table[index + 1]

Known(table, str) == \E k \in DOMAIN table : table[k] = str
IndexOf(table, str) == (CHOOSE k \in DOMAIN table : table[k] = str) - 1

\* globalcontext_make_atom: an atom that is there already keeps its index.
Inserted(table, str) == IF Known(table, str) THEN table ELSE Append(table, str)
MadeIndex(table, str) == IF Known(table, str) THEN IndexOf(table, str) ELSE Len(table)

AInit ==
  /\ atoms \in DefaultTables
  /\ base = Len(atoms)
  /\ next = 1
  /\ apc = "init"

\* Mutant: the index an atom got is not compared with its constant.
MakePlatformAtomUnchecked ==
  /\ apc = "init" /\ next <= Len(def)
  /\ IF def[next].length # Len(def[next].str)
       THEN apc' = "abort" /\ UNCHANGED <<atoms, next>>
       ELSE atoms' = Inserted(atoms, def[next].str) /\ next' = next + 1 /\ UNCHANGED apc
  /\ UNCHANGED base

MakePlatformAtom ==
  /\ apc = "init" /\ next <= Len(def)
  /\ IF def[next].length # Len(def[next].str)
       THEN apc' = "abort" /\ UNCHANGED <<atoms, next>>
       ELSE /\ atoms' = Inserted(atoms, def[next].str)
            /\ IF MadeIndex(atoms, def[next].str) # INDEX(next)
                 THEN apc' = "abort" /\ UNCHANGED next
                 ELSE next' = next + 1 /\ UNCHANGED apc
  /\ UNCHANGED base

AtomsMade ==
  /\ apc = "init" /\ next > Len(def)
  /\ apc' = "done"
  /\ UNCHANGED <<base, atoms, next>>

\* os:type/0 makes its two atoms when it is called.
MakeOsAtoms ==
  /\ atoms' = Inserted(Inserted(atoms, "unix"), "linux")
  /\ UNCHANGED <<base, next, apc>>

-----------------------------------------------------------------------------
\* Once the loop is through, every constant of the C code is its atom's index, and stays it
\* as the table grows: atomvm:platform/0 answers wasi (platform_defaultatoms.c:22-31,
\* platform_nifs.c:30-35).
AtomsAreTheirConstants ==
  apc = "done" =>
    /\ \A i \in DOMAIN def : INDEX(i) < Len(atoms) /\ Named(atoms, INDEX(i)) = def[i].str
    /\ Named(atoms, nif_atomvm_platform) = "wasi"
=============================================================================
