SPECIFICATION Spec
CONSTANTS
  c1 = c1
  c2 = c2
  c3 = c3
  k1 = k1
  k2 = k2
  Callers = {c1, c3}
  NoCaller = NoCaller
  Keys = {k1, k2}
  MayAsk <- AskedBy
  Cooldown = 2
  MaxPages = 2
  MaxRows = 2
  CacheSize = 1
  PageRows = {0, 1}
  Totals = {1}
  Unannounced = Unannounced
PROPERTIES
  SendsSpaced
