SPECIFICATION Spec
CONSTANTS
  Requests = {r1, r2, r3}
  Mutations = {r1, r2, r3}
  Limit = 1
  MaxQueued = 1
  MaxRetryDelay = 1
  ResourceRetryAfters = {1}
  Flights = {f1}
  NoFlight = NoFlight
  Lifetimes = {2}
  ExpiryBuffer = 0
  RetryAfters = {}
  MaxGeneration = 2
SYMMETRY Interchangeable
INVARIANTS
  SlotsMatchRequests
