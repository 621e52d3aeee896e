SPECIFICATION FairSpec
CONSTANTS
  t1 = t1
  t2 = t2
  Threads = {t1, t2}
  N = 3
  Edges <- Line3
  Sources = {0}
  Sinks = {2}
  Packets = {1, 2, 3, 4}
  Services <- FastSources
  Delay = 1
  Servers = 2
  Waiters = 1
  Batch = 1
  MaxArrival = 3
  MaxTime = 0
  LagFactor = 30
  MaxCollisions = 1
INVARIANTS
  TypeOK
  OneThreadPerNode
  BusyWhileSimulated
  PacketInOnePlace
  ServiceEndPublished
  NextNodeStaysOn
PROPERTIES
  OffForever
  Termination
