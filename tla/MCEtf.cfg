\* The codecs on both ends of the wire.
CONSTANTS
  RequestInputs  <- MCRequests
  ResponseInputs <- MCResponses
  WireInputs     <- MCWireInputs
  Damage         <- MCDamage

SPECIFICATION Spec

INVARIANTS
  RequestArrives
  ResponseArrives
  DecodersAgree
