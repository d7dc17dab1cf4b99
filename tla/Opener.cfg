SPECIFICATION Spec
CONSTANTS
  p1 = p1
  p2 = p2
  p3 = p3
  r1 = r1
  r2 = r2
  None = None
  Openers = {p1, p2, p3}
  Roots = {r1, r2}
  RootOf <- TwoRoots
  LegacyStates = {"absent"}
  UserRoots = {r1}
  MaxSequence = 4
VIEW Remembered
INVARIANTS
  LaunchExclusion
  SingleFlight
  QueueFileValid
  OneOpenRequestPerAttempt
PROPERTIES
  OthersRecordsKept
  ImplementsFifoLock
