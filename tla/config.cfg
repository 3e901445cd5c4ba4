SPECIFICATION FairSpec
CONSTANTS
  a = a
  b = b
  c = c
  gpu0 = gpu0
  gpu1 = gpu1
  o1 = o1
  o2 = o2
  None = None
  Gone = Gone
  ProxyId = ProxyId
  Id = {a, b, c}
  Origin = {o1, o2}
  GpuName = {gpu0, gpu1}
  File <- Files
  Saved <- SavedFiles
  MaxEdits = 3
INVARIANTS
  ConfigTypeOK
  VerdictRight
  CaughtUp
  WarnedOfRestart
PROPERTIES
  EditServed
CHECK_DEADLOCK FALSE
