CONSTANTS
  Machines <- NestedCalls
  PipeCapacity = 2
  MaxTerms = 2
SPECIFICATION FairSpec
INVARIANT TypeOK
INVARIANT NoneLeftBehind
PROPERTY EventuallyQuiet
