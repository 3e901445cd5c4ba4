SPECIFICATION Spec
CONSTANTS
  c1 = c1
  c2 = c2
  c3 = c3
  coder = coder
  coder2 = coder2
  group = group
  resident = resident
  demand = demand
  demand2 = demand2
  gpu0 = gpu0
  gpu1 = gpu1
  None = None
  NoGpu = NoGpu
  Starter = Starter
  Looper = Looper
  Model <- GroupModels
  Coding = {coder}
  Autostart = {group, resident}
  Resident = {resident}
  Gpu <- GroupGpu
  Port <- GroupPort
  Faulty = {}
  Detaching = {}
  Proc = {1, 2, 3, 4, 5}
  Caller = {c1, c2}
  Panel = {c1}
  LeaseOn = TRUE
  Sleepy = {resident}
  Stops = FALSE
INVARIANTS
  TypeOK
  ReadyRuns
  ExpectedHasSlot
PROPERTIES
  ResidentStaysUp
  ResidentWaitersKept
  ModesKept
CONSTRAINTS
  SwitchesSerial
  StartFirst
SYMMETRY Alike
