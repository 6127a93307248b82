SPECIFICATION NativeSpec
CONSTANTS
  FFT_VAN_THRESHOLD = 8
  NoMatrix = NoMatrix
  MaxThreads = 2
  None = None
  MaxSums = 4
  Garbage = Garbage
  Calls <- AllCalls
INVARIANTS EvaluatesRight InterpolatesRight GaoExact HistoryFree MatrixLive SolverExact
CHECK_DEADLOCK FALSE
