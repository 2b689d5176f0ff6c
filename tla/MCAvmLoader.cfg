\* main over every list of up to two arguments.
CONSTANTS
  Argvs   <- MCArgvs
  StdioBuf = 2

SPECIFICATION Spec

INVARIANTS
  TypeOK
  NoLeak
  RunsFirstStartable
  ExitCodeTruthful
  FailureHasCause
