SPECIFICATION FairSpec
CONSTANTS
  c1 = c1
  c2 = c2
  c3 = c3
  coder = coder
  coder2 = coder2
  group = group
  resident = resident
  demand = demand
  demand2 = demand2
  gpu0 = gpu0
  gpu1 = gpu1
  None = None
  NoGpu = NoGpu
  Starter = Starter
  Looper = Looper
  Model <- LoneModels
  Coding = {coder}
  Autostart = {}
  Resident = {}
  Gpu <- LoneGpu
  Port <- LonePort
  Faulty = {}
  Detaching = {coder}
  Proc = {1, 2}
  Caller = {c1, c2}
  Panel = {c2}
  LeaseOn = TRUE
  Sleepy = {}
  Stops = TRUE
PROPERTIES
  Woken
