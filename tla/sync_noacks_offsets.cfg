\* The coordinates reported with required acks "none".
SPECIFICATION Spec
CONSTANTS
  Requests = {r1, r2}
  k1 = k1
  k2 = k2
  Keys = {k1}
  NoKey = NoKey
  MaxBatchSize = 1
  NumPartitions = 1
  Hash <- MCOneKeyHash
  Acks = "none"
INVARIANTS
  OffsetsExact
CHECK_DEADLOCK FALSE
