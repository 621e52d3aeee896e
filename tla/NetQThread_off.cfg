SPECIFICATION Spec
CONSTANTS
  t1 = t1
  t2 = t2
  Threads = {t1, t2}
  N = 3
  Edges <- Line3
  Sources = {0}
  Sinks = {2}
  Packets = {1, 2, 3, 4}
  Services <- FastSources
  Delay = 0
  Servers <- NoLimit
  Waiters <- NoLimit
  Batch = 1
  MaxArrival = 1
  MaxTime = 0
  LagFactor = 30
  MaxCollisions = 1
SYMMETRY ThreadSymmetry
INVARIANT OffWhenEmpty
