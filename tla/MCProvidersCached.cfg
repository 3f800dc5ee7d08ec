\* The streams whose answer is captured for the cache.
SPECIFICATION ProviderSpec
CONSTANTS
  Null = Null
  Requests <- MCRequests
  Inputs <- MCInputs
  Contents <- MCContents
  MaxEvents <- MCMaxEvents
  ReadTexts = 2
  MaxCached = 5
  ChunkedTexts <- MCTexts
  MaxContent = 4
  MaxBody = 5
INVARIANTS
  CachedIsComplete
CHECK_DEADLOCK FALSE
