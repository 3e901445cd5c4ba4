SPECIFICATION PageSpec
CONSTANTS
  r1 = r1
  c1 = c1
  None = None
  Asked = Asked
  Other = Other
  Request = {r1}
  Client = {c1}
  Cap = 2
CHECK_DEADLOCK FALSE
INVARIANTS
  PageReconciled
