CONSTANTS
  num_nodes = 4
  num_req = 3
  MAX_NUM_LINKS = 1800
  Links <- SomeLinks
  Weights <- MCWeights
  Requests <- MCRequests
  MAX_INT = 1000
  NULL = NULL
SPECIFICATION Spec
INVARIANTS TypeOK ShortestPaths ReroutedAsAnew OneWavelengthPerPath CountComplete
