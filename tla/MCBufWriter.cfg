SPECIFICATION Spec
CONSTANTS
  Bytes <- MCBytes
  Sizes <- MCSizes
  UTFMax = 2
  MaxArg = 4
  MaxGiven = 6
INVARIANTS
  TypeOK
  Accounted
PROPERTIES
  ErrorSticks
