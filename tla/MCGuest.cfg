\* One run of the guest, for each kind of request.
CONSTANTS
  Base = 2
  Sentinel          <- MCSentinel
  Payloads          <- MCPayloads
  Requests          <- MCRequests
  InvalidPayload    <- MCInvalid
  BadMethod         <- MCBad
  NoContent         <- MCNoCont
  FilesNotSupported <- MCFiles
  Prints            <- MCPrints
  LatePrints        <- MCLate
  Trailer           <- MCTrailer
  MaxPrints = 3
  OutCap = 2

SPECIFICATION Spec

INVARIANTS
  TypeOK
  AnswerIsTheFrame
  FrameInOnePiece
  WarmupIsInert
  HandledOnce

PROPERTIES
  ImplementsExchange
