CONSTANTS
  Options <- AllOptions
  ServerCaps <- Caps
  Algorithms <- Algs
  Built <- ZstdOnly
SPECIFICATION FairSpec
INVARIANTS TypeOK CredentialsProtected ReadyIsAuthenticated CompressionAgrees FailureIsClean
PROPERTIES ClosedForGood GetSessionEnds
CHECK_DEADLOCK FALSE
