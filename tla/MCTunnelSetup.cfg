SPECIFICATION FairSpec
CONSTANTS
  Requests <- MCRequests
  LocalAddr <- MCLocalAddr
  IPv4len = 1
  IPv6len = 2
  v4InV6Prefix <- MCPrefix
INVARIANTS
  TypeOK
  JustEnough
  RightAddress
PROPERTIES
  GoneMeansClosed
CHECK_DEADLOCK FALSE
