\* Two sessions, simulated or RTT (with MemorySampling the connection fails); id 1 is
\* a signal of the RTT sampler and none of the simulated one.
SPECIFICATION Spec
CONSTANTS
  Ids = {0, 1}
  SAMPLE_BUFFER_SIZE = 1
  MaxTime = 2
  NFake = 1
  NRtt = 2
  MaxBatch = 2
  MaxNotes = 1
  ElfLists <- NoList
  KeepTimes = {1}
  Methods = {"Simulated", "RTT", "MemorySampling"}
  MaxSessions = 2
  MaxCommands = 2
  MaxSignals = 2
INVARIANTS
  TypeOK
  ActiveAgreement
  OneThread
  ConnectDialogMeansNoSampler
  StatusAgreement
  IntentAgreement
  PausedIsQuiet
PROPERTIES
  JoinProgress
  ImplementsSession
CHECK_DEADLOCK FALSE
