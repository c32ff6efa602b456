CONSTANTS
  Routes = 2
  MaxRetries = 1
  MaxPieces = 2
SPECIFICATION Spec
INVARIANTS
  StreamInv
  OutputOfOneAttempt
  OutputIsReply
PROPERTIES
  RequestEnds
CHECK_DEADLOCK FALSE
