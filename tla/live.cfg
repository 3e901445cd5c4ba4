SPECIFICATION FairSpec
CONSTANTS
  c1 = c1
  c2 = c2
  c3 = c3
  coder = coder
  coder2 = coder2
  group = group
  resident = resident
  demand = demand
  demand2 = demand2
  gpu0 = gpu0
  gpu1 = gpu1
  None = None
  NoGpu = NoGpu
  Starter = Starter
  Looper = Looper
  Model <- PairModels
  Coding = {coder}
  Autostart = {group}
  Resident = {}
  Gpu <- PairGpu
  Port <- PairPort
  Faulty = {group}
  Detaching = {}
  Proc = {1, 2}
  Caller = {c1}
  Panel = {}
  LeaseOn = TRUE
  Sleepy = {}
  Stops = FALSE
PROPERTIES
  RequestAnswered
  CodingEnds
  MemberRestarted
CONSTRAINTS
  SwitchesSerial
