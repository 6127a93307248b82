SPECIFICATION Spec
CONSTANTS
  p0 = p0
  p1 = p1
  p2 = p2
  p3 = p3
  Proc <- FourParties
  Index <- FourIndex
  F = 1
  Faulty = {p3}
  Leader = p3
  Msgs = {m1, m2}
  BadRoots = {}
  StripeKinds = {"genuine"}
  Audience = {p0, p1}
  ClientMode = FALSE
  None = None
  Failed = Failed
SYMMETRY Symmetry
INVARIANTS Agreement ReadyAgreement Recoverable
CHECK_DEADLOCK FALSE
