\* Enabling a second simulated signal during a session.
SPECIFICATION Spec
CONSTANTS
  Ids = {0, 1}
  SAMPLE_BUFFER_SIZE = 1
  MaxTime = 2
  NFake = 2
  NRtt = 1
  MaxBatch = 1
  MaxNotes = 1
  ElfLists <- NoList
  KeepTimes = {1}
  Methods = {"Simulated"}
  MaxSessions = 1
  MaxCommands = 1
  MaxSignals = 2
INVARIANT
  ExportTimesAgree
CHECK_DEADLOCK FALSE
