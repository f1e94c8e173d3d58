SPECIFICATION Spec
CONSTANTS
  c1 = c1
  c2 = c2
  c3 = c3
  k1 = k1
  k2 = k2
  Callers = {c1, c2, c3}
  NoCaller = NoCaller
  Keys = {k1, k2}
  MayAsk <- AskedBy
  Cooldown = 1
  MaxPages = 3
  MaxRows = 3
  CacheSize = 1
  PageRows = {0, 1, 4}
  Totals = {2}
  Unannounced = Unannounced
INVARIANTS
  TypeOK
  TurnInOrder
  SharedRun
  OnlyWholeReports
PROPERTIES
  StartsSpaced
  EveryCallEnds
