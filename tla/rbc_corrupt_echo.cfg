SPECIFICATION Spec
CONSTANTS
  p0 = p0
  p1 = p1
  p2 = p2
  p3 = p3
  Proc <- FourParties
  Index <- FourIndex
  F = 1
  Faulty = {p0}
  Leader = p1
  Msgs = {m1}
  BadRoots = {}
  StripeKinds = {"genuine", "corrupt"}
  Audience = {p2}
  ClientMode = FALSE
  None = None
  Failed = Failed
INVARIANTS NoAbort
CHECK_DEADLOCK FALSE
