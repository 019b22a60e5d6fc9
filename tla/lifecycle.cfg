SPECIFICATION LifeSpec
CONSTANTS
  c1 = c1
  c2 = c2
  s1 = s1
  s2 = s2
  h1 = h1
  k1 = k1
  src = src
  stranger = stranger
  Clients = {c1, c2}
  Strangers = {stranger}
  ServerOwnerID = ServerOwnerID
  NoClient = NoClient
  Sessions = {s1, s2}
  NoSession = NoSession
  Hosts = {h1}
  Paths <- MCPaths
  Sources = {src}
  CertNames = {k1}
  ExactHosts <- MCNames
  WildHosts <- MCNoNames
  BadCert = BadCert
  BadAllow = BadAllow
  ServerCerts <- MCNone
  ServerServices <- MCNone
  Registrations <- MCAllRegistrations
  MaxVersion = 0
  MaxMsgs = 5
  NICs = {c1, c2}
  MaxNodes = 2
  MaxCrashes = 1
  Procs = {c1, c2}
  NoProc = NoProc
  Ops = {s1, s2}
  Names = {"a", "b"}
  HandMade <- MCHandMade
  MaxFresh = 3
CHECK_DEADLOCK FALSE
SYMMETRY Symmetry
INVARIANT PublishedSessionsAreServed
PROPERTY NewerSessionSurvives
INVARIANT CleanClose
INVARIANT RunningIntact
PROPERTY ForeignKept
INVARIANT ServingIntact
INVARIANT RuleAccounted
INVARIANT TokenWorks
