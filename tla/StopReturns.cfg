\* Disconnecting while the channel of samples is full.
SPECIFICATION FairSpec
CONSTANTS
  Ids = {0}
  SAMPLE_BUFFER_SIZE = 1
  MaxTime = 2
  NFake = 1
  NRtt = 1
  MaxBatch = 1
  MaxNotes = 1
  ElfLists <- NoList
  KeepTimes = {1}
  Methods = {"Simulated"}
  MaxSessions = 1
  MaxCommands = 1
  MaxSignals = 1
PROPERTY
  StopReturns
CHECK_DEADLOCK FALSE
