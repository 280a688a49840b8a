\* Two requests to any routes, two dependencies that come and go.
SPECIFICATION FairGatewaySpec
CONSTANTS
  Requests = {r1, r2}
  NumDeps = 2
  Timeout = 1
  AuthEnabled = TRUE
  MaxBatchSize = 2
  Acks = "all"
INVARIANTS
  ReadyIsTruthful
  ReadyWithinBudget
  OnlyDataPlaneIsGuarded
  CountersAgree
PROPERTIES
  EveryRequestAnswered
  ImplementsContract
CHECK_DEADLOCK FALSE
