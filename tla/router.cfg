SPECIFICATION FairSpec
CONSTANTS
  Null = Null
  u = u
  v = v
  a = a
  b = b
  Class = {a, b}
  Self = 2
  Peer = {1, 3}
  Statics <- TheStatics
  Topologies <- TheTopologies
  Bodies <- TheBodies
  Requests <- TheRequests
  StaleAfter = 1
  ProbeTimeout = 1
  MaxTopology = 1
INVARIANTS RouteIsCurrent RouteIsFresh NoMutualForwarding
PROPERTIES PeersRefreshed
CHECK_DEADLOCK FALSE
