SPECIFICATION Spec
CONSTANTS
  w1 = w1
  w2 = w2
  c1 = c1
  c2 = c2
  c3 = c3
  setup = setup
  other = other
  v1 = v1
  v2 = v2
  None = None
  Absent = Absent
  Partial = Partial
  Worktrees = {w1}
  Calls = {c1, c2}
  Definitions = {setup, other}
  AtFirst = {setup}
  Custom = {setup, other}
  MaxSteps = 2
  StepsOf <- Lengths
  Marked = {1}
  Inputs = {v1, v2}
  MaxEvents = 2
INVARIANTS
  RecordIsEarned
  OneInstaller
  CacheHitIsReadOnly
  CommandsAreApproved
SYMMETRY Interchangeable
