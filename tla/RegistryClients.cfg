CONSTANTS
  t1 = t1  t2 = t2  u1 = u1  u2 = u2
  Threads <- TwoThreads
  Uris <- TwoUris
  WellFormedUris <- OneWellFormed
  Descs <- SomeDescs
  IntModulus = 64
  MaxPools = 3
  Builds <- Safe
SPECIFICATION FairSpec
INVARIANTS TypeOK OnePoolPerUri NothingDangles
PROPERTIES FailsForItsArguments GetClientReturns
CHECK_DEADLOCK FALSE
