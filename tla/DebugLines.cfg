\* One debug output of two lines, the second of them blank.
SPECIFICATION Spec
CONSTANTS
  Size = 2
  Capacity = 4
  MaxWrites = 1
  SlowPolling = FALSE
  MaxChatter = 1
  Listings <- Lists
INVARIANTS
  DebugIsIgnored
CHECK_DEADLOCK FALSE
