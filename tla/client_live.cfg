SPECIFICATION ClientFairSpec
CONSTANTS
  c1 = c1
  s1 = s1
  s2 = s2
  h1 = h1
  src = src
  u1 = u1
  u2 = u2
  Clients = {c1}
  Strangers = {}
  ServerOwnerID = ServerOwnerID
  NoClient = NoClient
  Sessions = {s1, s2}
  NoSession = NoSession
  Hosts = {h1}
  Paths <- MCPaths
  Sources = {src}
  CertNames = {}
  ExactHosts <- MCNoCerts
  WildHosts <- MCNoCerts
  BadCert = BadCert
  BadAllow = BadAllow
  ServerCerts <- MCNone
  ServerServices <- MCNone
  Registrations <- MCRegistrations
  MaxVersion = 0
  MaxMsgs = 6
  uuid = c1
  services <- MCServices
  initAllow <- MCInitAllow
  Callers = {u1}
  Main = Main
  Nobody = Nobody
  MaxCalls = 1
  MaxBeats = 1
CHECK_DEADLOCK FALSE
PROPERTY ClientProgresses
