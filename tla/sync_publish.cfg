\* Two concurrent publishes of up to two messages, two partitions.
SPECIFICATION FairSpec
CONSTANTS
  Requests = {r1, r2}
  k1 = k1
  k2 = k2
  Keys = {k1}
  NoKey = NoKey
  MaxBatchSize = 2
  NumPartitions = 2
  Hash <- MCOneKeyHash
  Acks = "all"
INVARIANTS
  TypeOK
  OffsetsExact
  RecordedAtMostOnce
  PerKeyOrder
PROPERTIES
  EveryRequestAnswered
  ImplementsContract
CHECK_DEADLOCK FALSE
