SPECIFICATION FairSpec
CONSTANTS
  p0 = p0
  p1 = p1
  p2 = p2
  p3 = p3
  Proc <- FourParties
  Index <- FourIndex
  F = 1
  Faulty = {p3}
  Leader = p0
  Msgs = {m1, m2}
  BadRoots = {}
  StripeKinds = {"genuine", "corrupt"}
  Audience = {p1}
  ClientMode = FALSE
  None = None
  Failed = Failed
INVARIANTS Validity AbortsBlamed
PROPERTIES Delivery
CHECK_DEADLOCK FALSE
