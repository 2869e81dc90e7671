SPECIFICATION FairSpec
CONSTANTS
  MaxRequests = 3
  MaxDisconnects = 2
INVARIANTS
  Accounted
  OneAtATime
  QueueIsScheduled
  StoppedIsQuiet
PROPERTIES
  ServiceImplemented
  EveryRequestAnswered
  StopCompletes
CHECK_DEADLOCK FALSE
