\* Some 180 lists of channels; packets of two bytes, a ring for two of them.
SPECIFICATION FairSpec
CONSTANTS
  Size = 2
  Capacity = 4
  MaxWrites = 3
  SlowPolling = FALSE
  MaxChatter = 1
  Listings <- Lists
INVARIANTS
  TypeOK
  AnswersBelong
  NoLateHalt
  HaltedMeansRefused
  StreamAligned
  PacketsAreWhole
  NamesParsed
  ChannelsParsed
  PacketsDecoded
PROPERTIES
  NothingIsLost
  DrainProgress
  UsesStream
  SyncEnds
CHECK_DEADLOCK FALSE
