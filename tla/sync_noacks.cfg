\* Required acks "none": calls return before the broker has the group.
SPECIFICATION Spec
CONSTANTS
  Requests = {r1, r2}
  k1 = k1
  k2 = k2
  Keys = {k1}
  NoKey = NoKey
  MaxBatchSize = 2
  NumPartitions = 2
  Hash <- MCOneKeyHash
  Acks = "none"
INVARIANTS
  PerKeyOrder
SYMMETRY Symmetry
CHECK_DEADLOCK FALSE
