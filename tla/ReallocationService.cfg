SPECIFICATION ServiceSpec
CONSTANTS
  t1 = t1
  t2 = t2
  Threads <- MCThreads
  Movable <- MCMovable
  Singles <- MCSingles
  Batches <- MCBatches
  NumLayers = 2
  NumExperts = 2
  NumGpuExperts = 1
  MaxPending = 1
  MaxRequests = 3
CHECK_DEADLOCK FALSE
INVARIANTS
  OutcomesAddUp
PROPERTIES
  EveryRequestEnds
