\* The guest on the platform layer, from _start to the end of its main process.
CONSTANTS
  Args          <- MCArgs
  Environments  <- MCEnvironments
  AtomNames     <- MCAtomNames
  DefaultTables <- MCDefaultTables
  Chunk      = 2
  EntropyCap = 2
  Arguments     <- MCArguments
  Procs = {"main", "other"}
  Main  = "main"
  NsPerMs  = 3
  NsPerSec = 6
  Timeouts      <- MCTimeouts
  MaxNow  = 3
  MaxBack = 1

SPECIFICATION PFairSpec

INVARIANTS
  PTypeOK
  StringsFit
  AtomsAreTheirConstants
  RandomOrRaised

PROPERTIES
  TimersKept
