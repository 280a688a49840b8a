\* Pages of a partition that grows and is truncated.
SPECIFICATION FairSpec
CONSTANTS
  Keys <- MCKeys
  AnyKey = AnyKey
  Pairs <- MCPairs
  MaxTime = 2
  DefaultLimit = 1
  MaxLimit = 2
  DefaultWait = 1
  MaxWait = 2
  Queries <- MCQueries
  Records <- MCRecords
  MaxLog = 3
  WriteTimeout = 1
INVARIANTS
  TypeOK
  WindowContiguous
  FilterExact
  StartsWhereAsked
  ReplayKeepsMessages
PROPERTIES
  EveryQueryAnswered
CHECK_DEADLOCK FALSE
