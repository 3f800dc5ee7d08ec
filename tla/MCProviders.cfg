\* Every translated call, every stream and every cut of a stream into chunks.
SPECIFICATION ProviderSpec
CONSTANTS
  Null = Null
  Requests <- MCRequests
  Inputs <- MCInputs
  Contents <- MCContents
  MaxEvents <- MCMaxEvents
  ReadTexts = 2
  MaxCached = 5
  ChunkedTexts <- MCTexts
  MaxContent = 4
  MaxBody = 5
INVARIANTS
  ToolsFaithful
  UpstreamAccepts
  StreamWellFormed
  StreamAgrees
  UsageTruthful
  StoredWhole
  RowMissesOnlyTail
  CutsIrrelevant
PROPERTIES
  HangUpSettles
CHECK_DEADLOCK FALSE
