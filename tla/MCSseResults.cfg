SPECIFICATION SessionSpec
CONSTANTS
  p1 = p1
  Posts = {p1}
  Readers = {p1}
  MaxConnections = 3
  Results = {"tiny", "even", "wide", "huge"}
  TotalChars <- Lengths
  Bytes <- Sizes
  Capacity = 2
  MaxBytes = 5
  Ttl = 2
  ChunkSize = 2
CHECK_DEADLOCK FALSE
INVARIANTS
  NewestServed
  NewestFits
  ReadsAreWhole
PROPERTIES
  PostsReachNewest
