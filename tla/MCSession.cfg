CONSTANTS
  Call = {r1, r2, h1}
  Reads = {r1, r2}
  Hidden = {h1}
  NoCall = NoCall
  NoMessages = NoMessages
  MaxPrompts = 3
  MaxReply = 2
  MaxCalls = 2
  MaxRaises = 1
  MaxCrashes = 1
SPECIFICATION Spec
INVARIANTS
  SessionInv
  RequestStaysWellFormed
  JournalRecoverable
  RestartTransparent
PROPERTIES
  CancelEnds
CHECK_DEADLOCK FALSE
