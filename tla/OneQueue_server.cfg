CONSTANTS
  NoPacket = NoPacket
  Cells = {1, 2, 3, 4, 5}
  MaxExecuting = 2
  MaxWaiting = 2
  Interarrivals = {0, 1}
  Services = {0, 2}
  MaxTime = 3
  MaxArrival = 6
  QueueZero = FALSE
SPECIFICATION FairSpec
INVARIANTS
  TypeOK
  FirstInFirstOut
  ServiceEnds
  NoEventInPast
  WorkConserving
  LittlesLaw
  BusyTime
PROPERTIES
  DropOnlyWhenBusy
  ImplementsServer
  Termination
