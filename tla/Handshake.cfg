CONSTANTS
  a = a
  b = b
  Attempts = {a}
  Brokers = {b}
  Writers = {a, b}
  Readers = {a}
  MaxMessages = 2
  MaxNotes = 2
  Backups = 2
  Capacity = 1
  DiskFills = TRUE
  MayKill = TRUE

SPECIFICATION FairSpec

INVARIANTS
  HealthyIsEarned
  VerdictIsJournaled
  NoSilentLoss
  NoProbeLeft
  RecentInOrder
  FilesAreBounded

PROPERTIES
  JournalIsLog
  EveryHandshakeEnds

CHECK_DEADLOCK FALSE
