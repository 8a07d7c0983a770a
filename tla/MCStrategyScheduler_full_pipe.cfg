CONSTANTS
  Machines <- RetryingCalls
  PipeCapacity = 1
  MaxTerms = 1
SPECIFICATION FairSpec
PROPERTY CleanupEnds
CHECK_DEADLOCK FALSE
