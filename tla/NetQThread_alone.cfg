SPECIFICATION Spec
CONSTANTS
  t1 = t1
  Threads = {t1}
  N = 3
  Edges <- Line3
  Sources = {0}
  Sinks = {2}
  Packets = {1, 2, 3, 4, 5, 6, 7, 8, 9, 10, 11, 12}
  Services <- SlowTransits
  Delay = 1
  Servers = 1
  Waiters = 1
  Batch = 3
  MaxArrival = 6
  MaxTime = 10
  LagFactor = 1
  MaxCollisions = 0
INVARIANTS
  SourceHeldBack
  Causality
