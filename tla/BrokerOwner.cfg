SPECIFICATION Spec
CONSTANTS
  h = h
  d = d
  b = b
  r1 = r1
  r2 = r2
  window = window
  lsp = lsp
  other = other
  taskH = taskH
  taskB = taskB
  manualD = manualD
  manualH = manualH
  manualB = manualB
  None = None
  Clients = {h, b}
  Keys = {window, lsp}
  Roots = {r1}
  RootOf <- OneRoot
  NeedsWindow = {window}
  Primary <- Asks
  Secondary <- Alone
  Owners = {taskH, taskB, manualD, manualH, manualB}
  OwnerOf <- OneTask
  ManualOf <- Manual
  HostOf <- Host
  Ports = {1, 2}
  Processes = {1, 2}
  KilledAt = {}
  InterruptedAt = {}
INVARIANT
  SecondOwnerRejected
