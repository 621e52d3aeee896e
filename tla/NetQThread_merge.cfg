SPECIFICATION Spec
CONSTANTS
  t1 = t1
  Threads = {t1}
  N = 4
  Edges <- Merge4
  Sources = {0, 1}
  Sinks = {2}
  Packets = {1, 2, 3, 4, 5, 6, 7, 8, 9, 10}
  Services <- UnitServices
  Delay = 1
  Servers = 1
  Waiters <- NoLimit
  Batch = 1
  MaxArrival = 4
  MaxTime = 0
  LagFactor = 30
  MaxCollisions = 0
INVARIANT Causality
