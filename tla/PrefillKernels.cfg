SPECIFICATION Spec
CONSTANTS
  batch = 2
  head = 2
  kv_group_num = 2
  BLOCK = 2
  b_seq_len <- MCSeqLen
  b_start_loc <- MCStartLoc
  Q <- MCQ
  Keys <- MCKeys
  Bits = 4
  NegInf <- MCNegInf
  M = 4
  topk = 2
  E = 3
  H = 3
  inter = 2
  BLOCK_SIZE_M = 4
  BLOCK_SIZE_N = 2
  BLOCK_SIZE_K = 2
  GROUP_SIZE_M = 3
  indicies <- MCIndicies
  Calls <- MCCalls
CHECK_DEADLOCK FALSE
INVARIANTS
  AttentionExact
  LoadsInBounds
  MoEExact
PROPERTIES
  LayerEnds
