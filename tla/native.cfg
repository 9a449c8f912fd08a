CONSTANTS
  MaxResponses = 2
  MaxChunks = 2
  InboxMax = 1
SPECIFICATION Spec
INVARIANTS
  TypeOK
  PermitCoversTasks
  LateAudio
  
  RestsListening
PROPERTY
  SessionCloses
CHECK_DEADLOCK FALSE
