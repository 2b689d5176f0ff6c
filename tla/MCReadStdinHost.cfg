\* The NIF and its stand-in on the host over every stdin of up to 13 bytes.
CONSTANTS
  InitCap  = 2
  MaxInput = 10
  StdioBuf = 3
  HostChunk = 4
  Sizes   <- MCSizes

SPECIFICATION HFairSpec

INVARIANTS
  TypeOK
  NothingLost
  WholeRequest
  RefusedOnlyWhenFull
  BufferSafe
  TwinsAgree

PROPERTIES
  ReadReturns
