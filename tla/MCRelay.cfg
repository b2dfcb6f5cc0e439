SPECIFICATION FairSpec
CONSTANTS
  Handlers = {"ServeServer", "ServeLocal"}
  ReadTimeout = 60
  MaxChunks <- Chunks
INVARIANTS
  TypeOK
  NilMeansPassedOn
  Conserved
PROPERTIES
  RelayEnds
CHECK_DEADLOCK FALSE
