\* Disconnecting while the thread reports its failure.
SPECIFICATION FairSpec
CONSTANTS
  Ids = {0}
  SAMPLE_BUFFER_SIZE = 1
  MaxTime = 2
  NFake = 0
  NRtt = 1
  MaxBatch = 1
  MaxNotes = 1
  ElfLists <- OneOrNoSymbol
  KeepTimes = {1}
  Methods = {"MemorySampling"}
  MaxSessions = 1
  MaxCommands = 1
  MaxSignals = 1
PROPERTY
  StopAssertion
CHECK_DEADLOCK FALSE
