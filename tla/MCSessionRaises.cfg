CONSTANTS
  Call = {w1, w2}
  Reads = {}
  Hidden = {}
  NoCall = NoCall
  NoMessages = NoMessages
  MaxPrompts = 4
  MaxReply = 1
  MaxCalls = 2
  MaxRaises = 2
  MaxCrashes = 1
SPECIFICATION Spec
INVARIANTS
  RequestWellFormed
CHECK_DEADLOCK FALSE
