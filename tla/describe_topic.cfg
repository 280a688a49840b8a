\* A list of two topics, and the description of one of up to two partitions that comes and goes.
SPECIFICATION FairSpec
CONSTANTS
  NumTopics = 2
  MaxPartitions = 2
  MaxOffset = 1
  MaxGeneration = 2
INVARIANTS
  TypeOK
  DescribedAsListed
  DescriptionWasTrue
PROPERTIES
  EveryDescriptionAnswered
CHECK_DEADLOCK FALSE
