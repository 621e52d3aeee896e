CONSTANTS
  NoPacket = NoPacket
  Cells = {p1, p2, p3, p4}
  MaxExecuting = 2
  MaxWaiting = 1
  Interarrivals <- EarlyOrLate
  Services <- EarlyOrLate
  MaxTime = 0
  MaxArrival = 3
  QueueZero = TRUE
SPECIFICATION Spec
SYMMETRY CellSymmetry
INVARIANTS
  EventsSorted
  Conservation
