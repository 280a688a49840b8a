\* From the environment to the end of the process, two connections.
SPECIFICATION FairStartSpec
CONSTANTS
  Conns = {c1, c2}
  Unset = Unset
  Malformed = Malformed
  Unprepared <- MCUnprepared
  Environments <- MCEnvironments
INVARIANTS
  TypeOK
  CleanStopAnswersAll
  ProducerOutlivesHandlers
  EveryExitClosesProducer
  NoWriteTorn
  StartsIfAccepted
  ServesAsConfigured
PROPERTIES
  SignalStops
CHECK_DEADLOCK FALSE
