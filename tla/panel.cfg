SPECIFICATION FairSpec
CONSTANTS
  r1 = r1
  r2 = r2
  c1 = c1
  Other = Other
  Request = {r1, r2}
  Client = {c1}
  Cap = 2
CHECK_DEADLOCK FALSE
INVARIANTS
  PanelTypeOK
  StreamExact
PROPERTIES
  RequestsGoOn
  EventsEnd
