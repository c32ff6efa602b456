SPECIFICATION GateSpec
CONSTANTS
  RiskyCall = {c1, c2}
  ApprovalId = {i1, i2}
  NoCall = NoCall
INVARIANTS
  DecidedAsTold
  ApprovalInv
PROPERTIES
  AskedIsDecided
CHECK_DEADLOCK FALSE
