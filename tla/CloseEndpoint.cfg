SPECIFICATION FairSpec
CONSTANTS
  q1 = q1
  q2 = q2
  q3 = q3
  r1 = r1
  None = None
  Requests = {q1, q2, q3}
  Roots = {r1}
  RootOf <- OneRoot
  ModeOf <- LastRecovers
  UserRoots = {r1}
  MaxOpens = 2
  Conditions <- Troubled
CHECK_DEADLOCK FALSE
VIEW Needed
INVARIANTS
  OneCloserPerRoot
  AcceptanceIsFresh
PROPERTIES
  WorkIsProtected
  EveryRequestIsAnswered
