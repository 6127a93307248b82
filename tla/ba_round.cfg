SPECIFICATION Spec
CONSTANTS
  p0 = p0
  p1 = p1
  p2 = p2
  p3 = p3
  Proc = {p0, p1, p2, p3}
  F = 1
  Faulty = {p3}
  Equivocate = FALSE
  Inputs <- AnyInput
  CoinBits <- AnyCoin
  MaxRound = 0
  Ahead = 0
  None = None
SYMMETRY Symmetry
INVARIANTS Validity NoStall CoinBinding
CHECK_DEADLOCK FALSE
