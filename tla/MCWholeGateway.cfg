SPECIFICATION GatewaySpec
CONSTANTS
  p1 = p1
  h = h
  wg1 = wg1
  r = r
  gw = gw
  NoRow = NoRow
  NoName = NoName
  Peers <- OnePeer
  Macs <- None
  Ips <- HostAndTunnel
  Names <- None
  AclRules <- NoWebToHost
  Cidrs <- OneSubnet
  EgressRules <- WebOfRemote
  MaxId = 1
  PeerAddresses <- WgSteady
  ScanRuns = FALSE
  EditDuringApply = FALSE
  WgChanges = FALSE
  Hosts <- OneHost
  PeerAddrs <- OneTunnel
  Remotes <- OneRemote
  Gateway = gw
  Ports <- OnePort
  NoPort = NoPort
  MaxConns = 1
  TorInstalled = TRUE
  Monitoring = FALSE
  ExposeOnWan = FALSE
  RouteMayFlap = TRUE
INVARIANTS
TypeOK
CleanMeansLive
IntentHolds
