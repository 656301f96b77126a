SPECIFICATION Spec
CONSTANTS
  batchSize = 3
  num_kv_head = 2
  kv_group_num = 2
  kvSplitSize = 2
  vec_size = 2
  NumThreads = 2
  Bits = 5
  Layouts <- MCLayouts
  Queries <- MCQueries
  Keys <- MCKeys
  NegInf <- MCNegInf
CHECK_DEADLOCK FALSE
INVARIANTS
  OutputExact
PROPERTIES
  AllWritten
