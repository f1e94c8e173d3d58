SPECIFICATION Spec
CONSTANTS
  Requests = {r1, r2}
  Mutations = {r1}
  Limit = 1
  MaxQueued = 1
  MaxRetryDelay = 1
  ResourceRetryAfters = {1, 2}
  Flights = {f1}
  NoFlight = NoFlight
  Lifetimes = {2}
  ExpiryBuffer = 1
  RetryAfters = {}
  MaxGeneration = 2
PROPERTIES
  EveryRequestEnds
