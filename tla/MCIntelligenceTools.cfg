SPECIFICATION MCSpec
CONSTANTS
  c1 = c1
  c2 = c2
  c3 = c3
  Calls = {c1, c2, c3}
  Guarded = {c1}
  MayAsk <- AskedBy
  MaxEntries = 1
  Ttl = 2
  SnapshotTtl = 1
  MaxClears = 1
  None = None
  Day = 24
  Zones <- Regular
  LastDay = 4
SYMMETRY Alike
CHECK_DEADLOCK FALSE
PROPERTIES
  ServesCompleteAnswers
INVARIANTS
  RangeHoldsItsDays
  CountsAsAsked
