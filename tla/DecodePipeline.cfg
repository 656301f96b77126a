SPECIFICATION Spec
CONSTANTS
  NumLayers = 4
  num_mb = 3
  Steps = 2
CHECK_DEADLOCK FALSE
INVARIANTS
  PagesArrive
  AttentionMatches
  PinStable
  PageFreeButLast
PROPERTIES
  DecodeEnds
