\* A memory sampling session with the signals of two symbols: what is plotted, and
\* progress.
SPECIFICATION FairSpec
CONSTANTS
  Ids = {0, 1}
  SAMPLE_BUFFER_SIZE = 1
  MaxTime = 2
  NFake = 0
  NRtt = 0
  MaxBatch = 1
  MaxNotes = 1
  ElfLists <- TwoSymbols
  KeepTimes = {1}
  Methods = {"MemorySampling"}
  MaxSessions = 1
  MaxCommands = 1
  MaxSignals = 0
INVARIANTS
  StopPending
  BuffersOrdered
  NewestIsPlotted
PROPERTIES
  FailureIsReported
  StopReturnsUnlessFull
  PauseIsShown
CHECK_DEADLOCK FALSE
