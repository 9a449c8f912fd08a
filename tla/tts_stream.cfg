SPECIFICATION Spec
CONSTANTS
  Sentences = 2
  MaxChunks = 4
  QueueMax = 2
CHECK_DEADLOCK FALSE
INVARIANT TypeOK
INVARIANT Backpressure
INVARIANT GhostsWereDropped
PROPERTY KeepsPromise
PROPERTY ThreadEnds
PROPERTY RequestEnds
