CONSTANTS
  t1 = t1  t2 = t2  t3 = t3
  h1 = h1  h2 = h2  h3 = h3  h4 = h4
  c1 = c1  c2 = c2  c3 = c3
  NoConn = NoConn
  Threads <- ThreeThreads
  Handles <- FourHandles
  Owner <- FourOwners
  Conns <- ThreeConns
  PoolingEnabled = TRUE
  MaxSize = 2
  QueueTimeout = 1
  MaxIdleTime = 1
  MaxNow = 2
  ClockMayStepBack = FALSE
SPECIFICATION Spec
SYMMETRY ConnSymmetry
INVARIANTS PoolCapacity ExclusiveUse IdleIsOpen SessionsBounded NoLostWakeUp
PROPERTIES SlotsLostByResetsOnly ImplementsLease
