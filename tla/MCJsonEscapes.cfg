\* Escaped characters in JSON strings.
CONSTANTS
  MaxDepth    = 2
  MaxJsonSize = 24
  WordBits    = 4
  MaxTries    = 32
  Inputs      <- MCEscapes

SPECIFICATION Spec

INVARIANTS
  EscapesAreCharacters
