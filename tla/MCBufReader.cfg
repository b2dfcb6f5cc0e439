SPECIFICATION ReaderSpec
CONSTANTS
  Size = 3
  Sources <- MCSources
  Lengths <- MCLengths
  MaxTotal = 5
INVARIANTS
  ReaderTypeOK
  InOrder
PROPERTIES
  ResultsTrue
