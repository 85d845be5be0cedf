CONSTANTS
  t1 = t1  t2 = t2  t3 = t3
  h1 = h1  h2 = h2  h3 = h3  h4 = h4
  c1 = c1  c2 = c2  c3 = c3
  NoConn = NoConn
SPECIFICATION Spec
PROPERTIES PruneLeavesNoExpired PruneOnlyExpired IdleReachesWaiter GetSessionReturns
