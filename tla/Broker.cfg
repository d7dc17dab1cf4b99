SPECIFICATION Spec
CONSTANTS
  h = h
  d = d
  b = b
  r1 = r1
  r2 = r2
  window = window
  lsp = lsp
  other = other
  taskH = taskH
  taskB = taskB
  manualD = manualD
  manualH = manualH
  manualB = manualB
  None = None
  Clients = {h, d, b}
  Keys = {window, lsp}
  Roots = {r1}
  RootOf <- OneRoot
  NeedsWindow = {window}
  Primary <- Asks
  Secondary <- Hybrid
  Owners = {taskH, taskB, manualD, manualH, manualB}
  OwnerOf <- Owner
  ManualOf <- Manual
  HostOf <- Host
  Ports = {1, 2}
  Processes = {1, 2, 3}
  KilledAt = {"prepare", "wait", "start", "open", "spawn", "identify", "await", "leased", "proxy", "release"}
  InterruptedAt = {"prepare", "wait", "start", "open", "spawn", "identify", "await", "leased", "proxy", "release"}
INVARIANTS
  OneOwnerPerRoot
  ConnectedIsLeased
  IdleMeansUnleased
  NoUnrecordedService
  PortsAreExclusive
PROPERTY
  CommandsSpareTheConnected
