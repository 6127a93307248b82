SPECIFICATION Spec
CONSTANTS
  None = None
  N = 4
  T = 1
  Faulty = {3}
  Arrives <- Uneven
  ChunkSize = 1
  MaxAcs = 2
  Reports <- NoneOrAll
INVARIANTS SameOrder SameAgreed Backed Resolved EachOnce StopsBlamed
CHECK_DEADLOCK FALSE
CONSTRAINT TakeTurns
