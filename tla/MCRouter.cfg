SPECIFICATION Spec
CONSTANTS
  a1 = a1
  b1 = b1
  c1 = c1
  A = A
  B = B
  Message = {a1, b1, c1}
  MaxRemembered = 2
  NoMessage = NoMessage
  Session = {A, B}
  SessionOf <- MCSessionOf
  Command = {c1}
  QueueSize = 1
  MaxSessions = 1
  MaxSubmits = 3
  MaxTroubles = 1
INVARIANTS
  RouterInv
  QueueServed
  BegunOnlyWhenReleased
PROPERTIES
  MessageSettles
CHECK_DEADLOCK FALSE
