SPECIFICATION OrderedSpec
CONSTANTS
  Requests = {r1, r2, r3, r4, r5}
  Limit = 2
  MaxQueued = 2
INVARIANTS
  SlotsAccounted
  QueueConsistent
  WorkConserving
  NoOvertaking
