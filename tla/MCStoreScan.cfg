SPECIFICATION Spec
CONSTANTS
  p1 = p1
  m1 = m1
  a = a
  b = b
  r1 = r1
  NoRow = NoRow
  NoName = NoName
  Peers <- OnePeer
  Macs <- OneMac
  Ips <- TwoIps
  Names <- None
  AclRules <- OneRule
  Cidrs <- None
  EgressRules <- None
  MaxId = 1
  PeerAddresses <- WgUpDown
  ScanRuns = TRUE
  EditDuringApply = FALSE
  WgChanges = TRUE
PROPERTIES
EditsArePending
UnblockIsDeliberate
