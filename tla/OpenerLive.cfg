SPECIFICATION FairSpec
CONSTANTS
  p1 = p1
  p2 = p2
  p3 = p3
  r1 = r1
  r2 = r2
  None = None
  Openers = {p1, p2, p3}
  Roots = {r1, r2}
  RootOf <- TwoRoots
  LegacyStates = {"live"}
  UserRoots = {r1}
  MaxSequence = 3
VIEW Control
INVARIANT
  LegacyOwnerKeepsOut
PROPERTY
  EveryRequestIsAnswered
