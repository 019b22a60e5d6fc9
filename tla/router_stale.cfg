SPECIFICATION RouterBoundedSpec
CONSTANTS
  c1 = c1
  s1 = s1
  s2 = s2
  h1 = h1
  h2 = h2
  k1 = k1
  in = in
  out = out
  x1 = x1
  x2 = x2
  Clients = {c1}
  ServerOwnerID = ServerOwnerID
  NoClient = NoClient
  Sessions = {s1, s2}
  NoSession = NoSession
  Hosts = {h1, h2}
  Paths <- MCPaths
  Sources = {in}
  CertNames = {k1}
  ExactHosts <- MCAllHosts
  WildHosts <- MCNoHosts
  BadCert = BadCert
  BadAllow = BadAllow
  ServerCerts <- MCNone
  ServerServices <- MCNone
  Registrations <- MCOne
  MaxVersion = 3
  Conns = {x1}
  NoHost = NoHost
  Prefixes <- MCPrefixes
  PathLen <- MCPathLen
CHECK_DEADLOCK FALSE
SYMMETRY Symmetry
INVARIANT CacheFresh
