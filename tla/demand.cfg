SPECIFICATION Spec
CONSTANTS
  c1 = c1
  c2 = c2
  c3 = c3
  coder = coder
  coder2 = coder2
  group = group
  resident = resident
  demand = demand
  demand2 = demand2
  gpu0 = gpu0
  gpu1 = gpu1
  None = None
  NoGpu = NoGpu
  Starter = Starter
  Looper = Looper
  Model <- DemandModels
  Coding = {coder, coder2}
  Autostart = {}
  Resident = {}
  Gpu <- DemandGpu
  Port <- DemandPort
  Faulty = {coder, demand}
  Detaching = {}
  Proc = {1, 2, 3, 4}
  Caller = {c1, c2, c3}
  Panel = {}
  LeaseOn = FALSE
  Sleepy = {}
  Stops = FALSE
INVARIANTS
  OneModelPerGpu
  OneCodingProcess
  NothingOrphaned
  CodingRegistered
  LockHeld
PROPERTIES
  ModesKept
SYMMETRY Alike
