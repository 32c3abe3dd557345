\* Two events to a batch, two in the queue, one restart.
SPECIFICATION FairSpec
CONSTANTS
  BATCH_SIZE = 2
  MAX_QUEUE_DEPTH = 2
  RETRY_ATTEMPTS = 2
  MaxEvents = 6
  MaxStarts = 2
INVARIANTS
  CollectorInv
  NothingVanishes
PROPERTIES
  ImplementsChannel
  AcceptedSettles
  StopEnds
CHECK_DEADLOCK FALSE
