SPECIFICATION ArenaSpec
CONSTANTS
  Clients = {c1, c2, c3}
  Capacity = 12
  Alignment = 2
  WordSize = 1
  Sizes = {0, 1, 3}
  Bytes = {1}
INVARIANTS
  ArenaTypeOK
  BlocksApart
  HeadersIntact
  PointersAligned
PROPERTIES
  ImplementsStorage
CHECK_DEADLOCK FALSE
