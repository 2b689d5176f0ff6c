\* The twins against what host_io.erl says of them.
CONSTANTS
  InitCap  = 2
  MaxInput = 10
  StdioBuf = 3
  HostChunk = 4
  Sizes   <- MCSizes

SPECIFICATION HSpec

INVARIANTS
  SameVerdict
