SPECIFICATION Spec
CONSTANTS
  c1 = c1
  c2 = c2
  d1 = d1
  o1 = o1
  r1 = r1
  r2 = r2
  None = None
  Cleaners = {c1}
  Doctors = {d1}
  Openers = {o1}
  Roots = {r1}
  Cap = 0
  MaxOpens = 2
  MaxClock = 2
  MayCorrupt = TRUE
INVARIANTS
  RegistrationSurvives
PROPERTY
  LeasesSeenAreRespected
