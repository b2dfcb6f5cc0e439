SPECIFICATION FairSpec
CONSTANTS
  Bytes <- MCBytes
  PayloadMask = 2
  NonceMod = 4
  MaxWrite = 3
  MaxSent = 3
INVARIANTS
  TypeOK
  EofMeansAll
  ErrorHasCause
PROPERTIES
  ImplementsBytePipe
  Delivered
CHECK_DEADLOCK FALSE
