SPECIFICATION Spec
CONSTANTS
  NumLayers = 4
  num_mb = 3
CHECK_DEADLOCK FALSE
INVARIANTS
  PagesInTime
  HiddenInOrder
  KVOffloaded
PROPERTIES
  PrefillEnds
