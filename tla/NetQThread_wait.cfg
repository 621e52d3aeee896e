SPECIFICATION FairSpec
CONSTANTS
  t1 = t1
  Threads = {t1}
  N = 3
  Edges <- Line3
  Sources = {0}
  Sinks = {2}
  Packets = {1, 2, 3, 4, 5}
  Services <- IdleSources
  Delay = 2
  Servers = 1
  Waiters <- NoLimit
  Batch = 1
  MaxArrival = 3
  MaxTime = 0
  LagFactor = 30
  MaxCollisions = 0
PROPERTY Termination
