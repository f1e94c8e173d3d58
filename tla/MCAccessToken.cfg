SPECIFICATION Spec
CONSTANTS
  Callers = {c1, c2, c3}
  Flights = {f1, f2}
  NoFlight = NoFlight
  Lifetimes = {1, 2}
  ExpiryBuffer = 1
  RetryAfters = {1, 2}
  MaxRetryDelay = 1
  MaxGeneration = 3
SYMMETRY Interchangeable
INVARIANTS
  TypeOK
  WaitersCounted
  FetchWanted
  CancelIsolation
  RefreshJustified
PROPERTIES
  InstalledForWaiter
