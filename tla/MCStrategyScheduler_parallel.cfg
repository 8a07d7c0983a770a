CONSTANTS
  Machines <- ParallelCalls
  PipeCapacity = 1
  MaxTerms = 2
SPECIFICATION Spec
INVARIANTS CoresRespected SuccessMeansProof
PROPERTY KeepsPromise
CHECK_DEADLOCK FALSE
