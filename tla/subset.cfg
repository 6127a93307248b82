SPECIFICATION FairSpec
CONSTANTS
  p0 = p0
  p1 = p1
  p2 = p2
  p3 = p3
  Proc = {p0, p1, p2, p3}
  F = 2
  Faulty = {p2, p3}
  None = None
INVARIANTS IInv
PROPERTIES ImplementsSubset Terminates
CHECK_DEADLOCK FALSE
