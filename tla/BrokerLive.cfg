SPECIFICATION FairSpec
CONSTANTS
  h = h
  d = d
  b = b
  r1 = r1
  r2 = r2
  window = window
  lsp = lsp
  other = other
  taskH = taskH
  taskB = taskB
  manualD = manualD
  manualH = manualH
  manualB = manualB
  None = None
  Clients = {h, b}
  Keys = {window, other}
  Roots = {r1, r2}
  RootOf <- OneRoot
  NeedsWindow = {window, other}
  Primary <- Apart
  Secondary <- Alone
  Owners = {taskH, taskB, manualD, manualH, manualB}
  OwnerOf <- OneTask
  ManualOf <- Manual
  HostOf <- Host
  Ports = {1, 2}
  Processes = {1, 2, 3}
  KilledAt = {"prepare", "wait", "start", "open", "spawn", "identify", "await", "leased", "proxy", "release"}
  InterruptedAt = {"prepare", "wait", "start", "open", "spawn", "identify", "await", "leased", "proxy", "release"}
PROPERTY
  EveryConnectEnds
