\* A polling interval of 100 ms.
SPECIFICATION Spec
CONSTANTS
  Size = 2
  Capacity = 4
  MaxWrites = 3
  SlowPolling = TRUE
  MaxChatter = 1
  Listings <- Lists
INVARIANTS
  StreamAligned
CHECK_DEADLOCK FALSE
