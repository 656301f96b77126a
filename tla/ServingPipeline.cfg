SPECIFICATION Spec
CONSTANTS
  single = single
  stream = stream
  batch = batch
  list = list
  r1 = r1
  r2 = r2
  r3 = r3
  r4 = r4
  r5 = r5
  Calls <- MCCalls
  kind <- MCKind
  rids <- MCRids
  MaxObjects = 2
CHECK_DEADLOCK FALSE
INVARIANTS
  RequestsConserved
  HandleLoopSurvives
PROPERTIES
  CallsEnd
