CONSTANTS
  Texts <- MCTexts
  SizeOf <- MCSizeOf
  HeaderSize = 2
  BufferSize = 2
  WireCapacity = 3
  Names = {"a", "b"}
  Library = {"b"}
  NumFilters = 3
  MaxCores = 2
  Workloads <- MCWorkloads
SPECIFICATION Spec
INVARIANT StagedSetsAreKnown
