CONSTANTS
  Keys = {k1, k2}
  Values = {v}
  MaxUpdates = 2
  MaxRound = 2
  MaxMessages = 7
  MaxParted = 0
  MaxCrashes = 2
SPECIFICATION Spec
CHECK_DEADLOCK FALSE
INVARIANT PairsStay
