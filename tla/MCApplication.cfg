CONSTANTS
  Shards = {s1, s2}
  Peers = {p1, p2}
  MaxJobs <- MCMaxJobs
  MaxSignals <- MCMaxSignals
SPECIFICATION Spec
INVARIANTS
  ServedWhileAlive
  EverythingReleased
PROPERTIES
  ShutdownEnds
  SeriesCatchUp
CHECK_DEADLOCK FALSE
