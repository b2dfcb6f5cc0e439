SPECIFICATION Spec
CONSTANTS
  w1 = w1
  w2 = w2
  w3 = w3
  Nodes <- MCNodes
  Writers <- MCWriters
  Home <- MCHome
  Configs <- MCConfigs
  Overhead = 16
  maxPacketSize = 65536
  Lengths <- MCLengths
  ReadSizes <- MCReadSizes
  Window = 2
  MaxSalts = 3
SYMMETRY MCSymmetry
INVARIANTS
  TypeOK
  OneTextPerKey
  OnlyFromPeer
CHECK_DEADLOCK FALSE
