\* Padding in the middle of a base64 text.
CONSTANTS
  MaxDepth    = 2
  MaxJsonSize = 24
  WordBits    = 4
  MaxTries    = 32
  Inputs      <- MCBase64Texts

SPECIFICATION Spec

INVARIANTS
  PaddingEnds
