SPECIFICATION FairSpec
CONSTANTS
  c1 = c1
  near = near
  far = far
  local = local
  NoNode = NoNode
  Node <- TrioNodes
  Weight <- TrioWeights
  Lists <- TrioLists
  Local = {local}
  Tagged = {far, local}
  Caller = {c1}
INVARIANTS
  GatewayTypeOK
  LoadNeverOverstated
  LoadExact
  PoolMatchesAtFirst
PROPERTIES
  ForwardedEnds
  CancelledEnds
