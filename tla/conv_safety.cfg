\* Two turns, the context cut to one turn, replies of up to five sentences.
SPECIFICATION Spec
CONSTANTS
  KeepTurns = 1
  MaxTurns = 2
  MaxDeltas = 2
  PerDelta = 2
  MaxChunks = 1
  QueueBound = 1
INVARIANTS
  TypeOK
  FreshAudio
  TasksScoped
  HistoryIsHeard
  

  
  
\* A closed session is the end: the program stops there.
CHECK_DEADLOCK FALSE
