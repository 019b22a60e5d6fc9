SPECIFICATION EdgeSpec
CONSTANTS
  a1 = a1
  a2 = a2
  a3 = a3
  net = net
  NoNet = NoNet
  IPs = {a1, a2, a3}
  Nets = {net}
  Subnet <- MCSubnet
  Exempt = {a3}
  Methods = {"POST"}
  Statuses = {401}
  CountedPaths = {"/login"}
  Window = 2
  BanDuration = 3
  Threshold = 2
  SubnetThreshold = 2
  Requests <- MCRequests
  MaxTime = 5
  MaxInflight = 3
  w1 = w1
  w2 = w2
  Writers = {w1, w2}
  Frames <- MCFrames
  MaxEtherFrame = 2
  RecvWindow = 3
  MaxCalls = 3
  URLHosts <- LowerHosts
  Addrs <- MCAddrs
  CIDRs <- MCCIDRs
  Routes <- MCRoutes
  Paths <- MCPaths
  Certs <- MCCerts
  SNIs <- MCSNIs
  URLs <- MCURLs
  Entries <- MCEntries
  Dests <- MCDests
  Ports = {443, 22}
  Hellos <- MCHellos
  MaxList = 2
CHECK_DEADLOCK FALSE
PROPERTY BansExact
PROPERTY LiveBansKept
PROPERTY Escalation
INVARIANT FramesInOrder
PROPERTY FramesArrive
INVARIANT RequestReachesPath
INVARIANT CertsAgree
INVARIANT StreamFindsService
INVARIANT SocksServesRequest
INVARIANT HelloPassedOn
