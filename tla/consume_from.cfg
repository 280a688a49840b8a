\* The first record of a page that starts at a time.
SPECIFICATION Spec
CONSTANTS
  Keys <- MCKeys
  AnyKey = AnyKey
  Pairs <- MCPairs
  MaxTime = 2
  DefaultLimit = 1
  MaxLimit = 2
  DefaultWait = 1
  MaxWait = 2
  Queries <- MCQueries
  Records <- MCRecords
  MaxLog = 1
  WriteTimeout = 1
INVARIANTS
  StartsAtTime
CHECK_DEADLOCK FALSE
