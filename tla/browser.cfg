SPECIFICATION Spec
CONSTANTS
  Starts = 2
  Turns = 2
  Chunks = 2
  Flight = 3
  Level = 2
  Cap = 2
CHECK_DEADLOCK FALSE
INVARIANT TypeOK
INVARIANT SessionOwnsDevices
 
PROPERTY StopAnswered
