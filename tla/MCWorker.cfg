\* The warm-up and two fetches.  The system may stop: clients need not send anything.
CONSTANTS
  f1 = f1
  f2 = f2
  Base = 2
  Sentinel          <- MCSentinel
  Payloads          <- MCPayloads
  Requests          <- MCRequests
  InvalidPayload    <- MCInvalid
  BadMethod         <- MCBad
  NoContent         <- MCNoCont
  FilesNotSupported <- MCFiles
  Prints            <- MCPrints
  LatePrints        <- MCLate
  Trailer           <- MCTrailer
  MaxPrints = 1
  OutCap = 4
  Fetches           <- MCFetches
  RequestOf         <- MCRequestOf
  MaxBody = 1
  Messages          <- MCMessages
  Warmup            <- MCWarmup
  Rejected          <- MCRejected
  NullBody          <- MCNullBody

SPECIFICATION FairSpec

CHECK_DEADLOCK FALSE

INVARIANTS
  WTypeOK
  RunIsForItsFetch

PROPERTIES
  KeepsServicePromise
  ResponseIsDelivered
  EveryFetchAnswered
