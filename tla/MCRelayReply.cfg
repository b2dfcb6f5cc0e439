SPECIFICATION Spec
CONSTANTS
  Handlers = {"ServeServer"}
  ReadTimeout = 60
  MaxChunks <- Chunks
INVARIANTS
  ReplyWrittenBack
CHECK_DEADLOCK FALSE
