CONSTANTS
  Procs = {p1, p2}
  NoOne = NoOne
  SlowHolders = TRUE
  Contents = {a1, a2, b}
  Subjects = {{a1, a2}}
  MaxEntries = 2
  MaxOps = 4
  a1 = a1
  a2 = a2
  p1 = p1
  p2 = p2
SPECIFICATION Spec
INVARIANTS
  MemoryInv
  RememberedStays
  ActiveIsListed
  OnePerSubject
SYMMETRY Symmetry
CHECK_DEADLOCK FALSE
