\* Two iterations of two reads, with an unasked packet.
SPECIFICATION Spec
CONSTANTS
  MaxNow = 2
  AddressLists <- Two
  MaxIterations = 2
  MaxChatter = 1
INVARIANTS
  TypeOK
  ExpectNeverPanics
  ResponseTimeIsPlausible
  ReadsInStep
PROPERTIES
  ImplementsMemoryReads
CHECK_DEADLOCK FALSE
