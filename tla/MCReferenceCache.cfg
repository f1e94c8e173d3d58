SPECIFICATION Spec
CONSTANTS
  Calls = {c1, c2, s1, s2}
  Signalled = {s1, s2}
  Namespaces = {technicians}
  MaxPages = 2
  Ttl = 1
  MaxClears = 1
  None = None
SYMMETRY Alike
CHECK_DEADLOCK FALSE
PROPERTIES
  SharesWholeLoads
