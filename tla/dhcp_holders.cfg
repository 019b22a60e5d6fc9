SPECIFICATION DhcpBoundedSpec
CONSTANTS
  a1 = a1
  a2 = a2
  a3 = a3
  Chids = {a1, a2, a3}
  PoolSize = 8
  Gateway = 1
  LeaseTime = 1
  MaxTime = 4
SYMMETRY Symmetry
INVARIANT OneHolder
