SPECIFICATION CSFairSpec
CONSTANTS
  c1 = c1
  c2 = c2
  s1 = s1
  s2 = s2
  h1 = h1
  k1 = k1
  src = src
  stranger = stranger
  Clients = {c1}
  Strangers = {stranger}
  ServerOwnerID = ServerOwnerID
  NoClient = NoClient
  Sessions = {s1, s2}
  NoSession = NoSession
  Hosts = {h1}
  Paths <- MCPaths
  Sources = {src}
  CertNames = {k1}
  ExactHosts <- MCNames
  WildHosts <- MCNoNames
  BadCert = BadCert
  BadAllow = BadAllow
  ServerCerts <- MCNone
  ServerServices <- MCNone
  Registrations <- MCOneRegistration
  MaxVersion = 0
  MaxMsgs = 4
CHECK_DEADLOCK FALSE
PROPERTY EveryRequestAnswered
PROPERTY LostSessionUnpublished
PROPERTY AuthedAcceptorReturns
PROPERTY ImplementsRegistry
