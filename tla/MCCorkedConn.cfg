SPECIFICATION FairSpec
CONSTANTS
  Bytes <- MCBytes
  BufSize = 2
  MaxWrite = 3
  MaxSent = 5
INVARIANTS
  TypeOK
  NothingLost
  NothingStranded
PROPERTIES
  Delivered
  ImplementsBytePipe
CHECK_DEADLOCK FALSE
