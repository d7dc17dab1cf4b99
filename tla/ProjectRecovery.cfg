CONSTANTS
  d1 = d1
  d2 = d2
  r = r
  Doctors = {d1, d2}
  Roots = {r}
  RootOf <- MCRootOf
  MaxStarts = 3
  Probes = 3

SPECIFICATION Spec

INVARIANTS
  SignalsAreEarned
  RestartIsReal

CHECK_DEADLOCK FALSE
