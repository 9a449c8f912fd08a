SPECIFICATION Spec
CONSTANTS
  Starts = 2
  Chunks = 4
  Voiced = {1, 3}
  Window = 2
CHECK_DEADLOCK FALSE
INVARIANT TypeOK
INVARIANT TranscriptExact
INVARIANT MicScoped
PROPERTY FinalizingEnds
