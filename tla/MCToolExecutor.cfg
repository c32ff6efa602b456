CONSTANTS
  Reads = {r1, r2}
  Checks = {v1, v2}
  Writes = {w1}
  Shells = {}
  RetryLimit = 1
  MaxCrashes = 1
SPECIFICATION Spec
INVARIANTS
  AuthorizedOnceRunOnce
  ToolInv
PROPERTIES
  ReuseAfterLastWrite
SYMMETRY Kinds
CHECK_DEADLOCK FALSE
