SPECIFICATION Spec
CONSTANTS
  Requests = {r1, r2, r3}
  Engines = 2
  Permits = 2
  Asked = {2}
  Threshold = 2
  Fallback = TRUE
  TimeoutOn = TRUE
CHECK_DEADLOCK FALSE
INVARIANT TypeOK
INVARIANT SlotsAccounted
INVARIANT Justified
PROPERTY OpenEngineShielded
PROPERTY RequestEnds
