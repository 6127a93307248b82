SPECIFICATION Spec
CONSTANTS
  Proc <- Nodes
  T = 1
  Chunks = 2
  Value <- Field
  Code <- Lines2
  AtZero <- Origin
  Lies <- SomeLies
  Short = Short
  None = None
  Raised = Raised
  Failed = Failed
  Job <- Jobs
  File <- Nodes
  FileOf <- NodeOf
  Turn <- Order
  Workers = 2
  K = 3
  MayFail <- Failing
  Nil = Nil
  MaxSums = 4
  Garbage = Garbage
  Modulus = 7
  Batches <- Inputs
  FaultySets <- Liars
  Orderly <- Nodes
INVARIANTS NoLostUpdate RightMessages
PROPERTIES ImplementsReconstruction Finishes
CHECK_DEADLOCK FALSE
