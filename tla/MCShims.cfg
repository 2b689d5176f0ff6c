\* The pure shims against their inverses and reference definitions.
CONSTANTS
  MaxDepth    = 2
  MaxJsonSize = 24
  WordBits    = 4
  MaxTries    = 32
  Inputs      <- MCInputs

SPECIFICATION Spec

INVARIANTS
  Base64ReadsBack
  QueriesReadBack
  PartsAreTheUris
  JsonReadsBack
  CutsAreRefused
  DrawsAreUnbiased
