SPECIFICATION Spec
CONSTANTS
  MaxCalls = 3
  MaxEvents = 2
  MaxAttempts = 2
  RecvPieces = 3
  Timeouts = {TRUE, FALSE}
INVARIANTS
  BoundedRunAhead
PROPERTIES
  LinkImplemented
  CallsReturn
CHECK_DEADLOCK FALSE
