CONSTANTS
  Keys = {k1, k2}
  Values = {v}
  MaxUpdates = 2
  MaxRound = 2
  MaxMessages = 6
  MaxParted = 1
  MaxCrashes = 2
SPECIFICATION Spec
INVARIANTS
  ContextInv
  LogIsContext
  NothingForgotten
  DeathCostsOne
  RequestShowsView
  PairsStayInStep
  RoundsInv
CHECK_DEADLOCK FALSE
SYMMETRY KeySymmetry
