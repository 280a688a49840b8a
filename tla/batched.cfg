\* A batched publish with and without acks and auto-creation, through all its attempts.
SPECIFICATION FairSpec
CONSTANTS
  Requests = {r1}
  Keys = {}
  NoKey = NoKey
  MaxBatchSize = 2
  ClientRetries = 1
INVARIANTS
  TypeOK
  DuplicatesBounded
PROPERTIES
  NothingSentAfterAnswer
  EveryRequestAnswered
  ImplementsContract
CHECK_DEADLOCK FALSE
