SPECIFICATION FairSpec
CONSTANTS
  p0 = p0
  p1 = p1
  p2 = p2
  p3 = p3
  Proc <- FourParties
  Index <- FourIndex
  F = 1
  Faulty = {p3}
  Leader = p3
  Msgs = {m1}
  BadRoots = {x1}
  StripeKinds = {"genuine", "corrupt"}
  Audience = {p0}
  ClientMode = FALSE
  None = None
  Failed = Failed
INVARIANTS NobodyLeftOut
PROPERTIES ImplementsService Totality
CHECK_DEADLOCK FALSE
