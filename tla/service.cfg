SPECIFICATION Spec
CONSTANTS
  Chats = {c1, c2, c3}
  Probes = {h1, h2}
  Others = {o1, o2}
  Permits = 2
CHECK_DEADLOCK FALSE
INVARIANT TypeOK
INVARIANT CountsExact
INVARIANT NoLostWakeup
INVARIANT CleanExit
