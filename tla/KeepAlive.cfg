\* A keep-alive packet between two samples.
SPECIFICATION Spec
CONSTANTS
  MaxNow = 2
  AddressLists <- Two
  MaxIterations = 2
  MaxChatter = 1
INVARIANTS
  KeepAlivesAreIgnored
CHECK_DEADLOCK FALSE
