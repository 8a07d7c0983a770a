CONSTANTS
  Texts <- MCTexts
  SizeOf <- MCSizeOf
  HeaderSize = 2
  BufferSize = 2
  WireCapacity = 3
  Names = {"a", "b"}
  Library = {"b"}
  NumFilters = 3
  MaxCores = 2
  Workloads <- MCWorkloads
SPECIFICATION FairSpec
INVARIANT InSync
INVARIANT SpecIsConsistent
INVARIANT RunnersAreControlled
PROPERTY AnswersAreProofs
PROPERTY ServerComesBack
