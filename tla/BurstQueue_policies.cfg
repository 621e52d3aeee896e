CONSTANTS
  NoPacket = NoPacket
  Cells = {1, 2, 3, 4, 5}
  Configs <- ServableConfigs
  Services = {1, 2}
  Bursts = {1, 2, 4}
SPECIFICATION FairSpec
INVARIANTS
  TypeOK
  WorkConserving
  WindowFilled
  KnapsackSolved
PROPERTIES
  ImplementsServer
  Termination
