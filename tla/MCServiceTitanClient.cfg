SPECIFICATION Spec
CONSTANTS
  Requests = {r1, r2}
  Mutations = {r1, r2}
  Limit = 2
  MaxQueued = 1
  MaxRetryDelay = 1
  ResourceRetryAfters = {0, 1, 2}
  Flights = {f1, f2}
  NoFlight = NoFlight
  Lifetimes = {2}
  ExpiryBuffer = 1
  RetryAfters = {}
  MaxGeneration = 3
SYMMETRY Interchangeable
INVARIANTS
  AttemptsBounded
PROPERTIES
  RetryAfterHonoured
  KeepsPromise
