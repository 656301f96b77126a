SPECIFICATION Spec
CONSTANTS
  Configs <- MCConfigs
  Layers = 2
  DecodeSteps = 2
CHECK_DEADLOCK FALSE
INVARIANTS
  HeadsMeet
  PagesMatch
  LogitsExact
