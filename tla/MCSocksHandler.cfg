SPECIFICATION FairSpec
CONSTANTS
  Requests <- MCRequests
  Replies <- MCReplies
  Pieces <- MCPieces
  IPv6len = 5
  ReadMax = 12
  Chunk = 2
INVARIANTS
  HandlerTypeOK
  ServedAsAsked
PROPERTIES
  GoneMeansClosed
CHECK_DEADLOCK FALSE
