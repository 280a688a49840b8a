\* A poll longer than the server's write timeout.
SPECIFICATION FairSpec
CONSTANTS
  Keys <- MCKeys
  AnyKey = AnyKey
  Pairs <- MCPairs
  MaxTime = 2
  DefaultLimit = 1
  MaxLimit = 2
  DefaultWait = 1
  MaxWait = 2
  Queries <- MCQueries
  Records <- MCRecords
  MaxLog = 1
  WriteTimeout = 1
PROPERTIES
  TimeoutReturnsWhatWasRead
CHECK_DEADLOCK FALSE
