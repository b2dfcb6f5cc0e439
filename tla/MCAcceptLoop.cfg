SPECIFICATION Spec
CONSTANTS
  Clients = {c1, c2}
  MaxErrors = 10
INVARIANTS
  TypeOK
  CutHasCause
PROPERTIES
  Served
CHECK_DEADLOCK FALSE
