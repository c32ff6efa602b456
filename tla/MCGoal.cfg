SPECIFICATION Spec
CONSTANTS
  MaxAttempts = 2
  MaxCost = 2
  MaxGoals = 2
INVARIANTS
  RunsCounted
  GoalInv
PROPERTIES
  EndedStays
  SupervisorEnds
CHECK_DEADLOCK FALSE
