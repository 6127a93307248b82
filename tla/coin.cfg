SPECIFICATION FairSpec
CONSTANTS
  p0 = p0
  p1 = p1
  p2 = p2
  p3 = p3
  Proc = {p0, p1, p2, p3}
  F = 1
  Faulty = {p3}
  MaxRound = 0
INVARIANTS NotEarly TaskSurvives
PROPERTIES EveryCoin
CHECK_DEADLOCK FALSE
