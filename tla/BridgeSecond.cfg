SPECIFICATION Spec
CONSTANTS
  d1 = d1
  d2 = d2
  t1 = t1
  t2 = t2
  i1 = i1
  i2 = i2
  None = None
  Doctors = {d1}
  Tasks = {t1}
  Incidents = {i1, i2}
  MaxEvents = 2
  MayKill = FALSE
PROPERTY
  FailedAttemptIsFinal
