\* An event and stop() come between the timer and the flusher.
SPECIFICATION Spec
CONSTANTS
  BATCH_SIZE = 2
  MAX_QUEUE_DEPTH = 2
  RETRY_ATTEMPTS = 2
  MaxEvents = 6
  MaxStarts = 2
INVARIANTS
  ShutdownDrains
CHECK_DEADLOCK FALSE
