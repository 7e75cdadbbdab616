SPECIFICATION Spec
CONSTANTS
  h1 = h1
  p1 = p1
  r1 = r1
  gw = gw
  Hosts <- OneHost
  PeerAddrs <- OnePeer
  Remotes <- OneRemote
  Gateway = gw
  Ports <- AllPorts
  NoPort = NoPort
  Confs <- AllConfs
  MaxConns = 1
  TorInstalled = TRUE
  Loads = TRUE
  RouteMayFlap = TRUE
  Monitoring = TRUE
  ExposeOnWan = FALSE
INVARIANTS
TypeOK
BlockWinsForNewFlows
RestrictedSubnetsHold
FirstAclDecides
NoUnsolicitedInbound
TorNeverLeaks
PanelStaysReachable
