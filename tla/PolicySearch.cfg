SPECIFICATION SearchSpec
CONSTANT Configs <- MCConfigs
CHECK_DEADLOCK FALSE
INVARIANTS
  BoundExact
  BestFound
PROPERTIES
  SearchEnds
