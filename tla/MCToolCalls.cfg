SPECIFICATION Spec
CONSTANTS
  Reads = {r1}
  WriteCalls = {w1}
  Deletes = {d1}
  MaxCalls = 2
CHECK_DEADLOCK FALSE
INVARIANTS
  TypeOK
  CallsCounted
  NothingWithoutConsent
  AuditTruthful
PROPERTIES
  HostKeepsPromise
