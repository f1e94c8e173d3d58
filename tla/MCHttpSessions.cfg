SPECIFICATION FairSpec
CONSTANTS
  Clients = {c1, c2}
  Requests = {r1, r2}
  MaxSessions = 1
  None = None
CHECK_DEADLOCK FALSE
INVARIANTS
  WithinLimit
  CountersExact
  NothingStranded
PROPERTIES
  StreamsKept
  IdleReclaimed
  ShutdownEnds
