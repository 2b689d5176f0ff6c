\* The calls of the math module, none of which has a beam to fall back on.
CONSTANTS
  Names  <- MCNames
  Calls  <- MCCalls
  Builds <- MCBuilds

SPECIFICATION Spec

INVARIANTS
  MathNeedsNoBeam
