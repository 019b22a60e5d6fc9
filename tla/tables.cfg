SPECIFICATION TablesSpec
CONSTANTS
  a1 = a1
  a2 = a2
  a3 = a3
  c1 = c1
  c2 = c2
  s1 = s1
  s2 = s2
  h1 = h1
  h2 = h2
  k1 = k1
  k2 = k2
  src = src
  Clients = {c1, c2}
  ServerOwnerID = ServerOwnerID
  NoClient = NoClient
  Sessions = {s1, s2}
  NoSession = NoSession
  Hosts = {h1, h2}
  Paths <- MCPaths
  Sources = {src}
  CertNames = {k1, k2}
  ExactHosts <- MCExact
  WildHosts <- MCWild
  BadCert = BadCert
  BadAllow = BadAllow
  ServerCerts <- MCServerCerts
  ServerServices <- MCServerServices
  Registrations <- MCRegistrations
  MaxVersion = 6
  Chids = {a1, a2, a3}
  PoolSize = 4
  Gateway = 1
  LeaseTime = 1
  MaxTime = 4
CHECK_DEADLOCK FALSE
SYMMETRY Symmetry
INVARIANT FirstComeFirstServed
INVARIANT OneRegistrationPerClient
PROPERTY NoTakeover
PROPERTY ServerCertWins
INVARIANT BookConsistent
PROPERTY NoSteal
PROPERTY SilentOnlyWhenExhausted
