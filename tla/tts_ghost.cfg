SPECIFICATION Spec
CONSTANTS
  Sentences = 1
  MaxChunks = 2
  QueueMax = 1
CHECK_DEADLOCK FALSE
INVARIANT NoGhostInference
