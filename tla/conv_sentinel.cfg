SPECIFICATION Spec
CONSTANTS
  KeepTurns = 1
  MaxTurns = 2
  MaxDeltas = 1
  PerDelta = 1
  MaxChunks = 1
  QueueBound = 1
PROPERTY
  ReaderExitCloses
CHECK_DEADLOCK FALSE
