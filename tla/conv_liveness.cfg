\* One turn, so that the whole graph stays small enough for the liveness check.
SPECIFICATION Spec
CONSTANTS
  KeepTurns = 1
  MaxTurns = 1
  MaxDeltas = 2
  PerDelta = 1
  MaxChunks = 1
  QueueBound = 1
PROPERTIES
  TurnEnds
  StoppedSessionCloses
CHECK_DEADLOCK FALSE
