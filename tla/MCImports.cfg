\* Every name of the tables, near misses, and the calls of glowvm's modules.
CONSTANTS
  Names  <- MCNames
  Calls  <- MCCalls
  Builds <- MCBuilds

SPECIFICATION Spec

INVARIANTS
  LookupIsExact
  BridgeReachesItsNifs
  CallsResolve
