CONSTANTS
  Options <- Failover
  ServerCaps <- Caps
  Algorithms <- Algs
  Built <- ZstdOnly
SPECIFICATION Spec
INVARIANT EachAddressAttempted
CHECK_DEADLOCK FALSE
