SPECIFICATION Spec
CONSTANTS
  p0 = p0
  p1 = p1
  p2 = p2
  p3 = p3
  Proc = {p0, p1, p2, p3}
  F = 1
  Faulty = {p3}
  Equivocate = TRUE
  Inputs <- OneDissents
  CoinBits <- ZeroThenOne
  MaxRound = 1
  Ahead = 0
  None = None
SYMMETRY DissentSymmetry
INVARIANTS Locked SingleConf
PROPERTIES ImplementsAgreement
CHECK_DEADLOCK FALSE
