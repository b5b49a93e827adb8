\* The time of a send that is acknowledged late.
SPECIFICATION Spec
CONSTANTS
  MaxNow = 2
  AddressLists <- Two
  MaxIterations = 2
  MaxChatter = 1
INVARIANTS
  SendTimeIsOwn
CHECK_DEADLOCK FALSE
