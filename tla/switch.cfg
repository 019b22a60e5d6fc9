SPECIFICATION SwitchSpec
CONSTANTS
  s1 = s1
  s2 = s2
  a1 = a1
  a2 = a2
  m1 = m1
  m2 = m2
  v4 = v4
  v6 = v6
  net6 = net6
  Tap = Tap
  Uplink = Uplink
  Streams = {s1, s2}
  Peers = {a1, a2}
  Udp = Udp
  NoPort = NoPort
  MACs = {m1, m2}
  Group = Group
  Addrs = {v4, v6}
  Short = Short
  allowedV4 <- MCNoLimit
  allowedV6 <- MCNoLimit
  Prefix80 <- MCPrefix80
  NoPrefix = NoPrefix
  Frames <- MCFrames
CHECK_DEADLOCK FALSE
SYMMETRY Symmetry
INVARIANT LearnedAttached
INVARIANT NoReflection
INVARIANT SeenIsRouted
PROPERTY ReachesStation
