SPECIFICATION FairSpec
CONSTANTS
  r1 = r1
  None = None
  Request = {r1}
  Retentions = {0, 1, 2}
  MaxTime = 5
INVARIANTS
  StoreTypeOK
  NothingLeftStuck
  RetainedFilesKept
PROPERTIES
  RecordsKept
  ExpiredPurged
