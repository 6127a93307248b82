SPECIFICATION FairSpec
CONSTANTS
  p0 = p0
  p1 = p1
  p2 = p2
  p3 = p3
  Proc = {p0, p1, p2, p3}
  T = 1
  Faulty = {p3}
  Audience = {p1, p2}
  Dealers = {p0, p3}
  Dealings <- BadDealings
  Degree = "t"
  None = None
INVARIANTS KeysKept Shared
PROPERTIES Delivery
CHECK_DEADLOCK FALSE
