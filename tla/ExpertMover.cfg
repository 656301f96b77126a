SPECIFICATION Spec
CONSTANTS
  t1 = t1
  t2 = t2
  Threads <- MCThreads
  Movable <- MCMovable
  NumLayers = 2
  NumExperts = 3
  NumGpuExperts = 2
  MaxPending = 1
INVARIANTS
  TypeOK
  SlotsExclusive
  NoSharedRow
  MappingAgrees
  SlotsHoldTheirExperts
PROPERTIES
  ImplementsPlacement
