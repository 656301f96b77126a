SPECIFICATION FairSpec
CONSTANTS
  r1 = r1
  r2 = r2
  r3 = r3
  r4 = r4
  r5 = r5
  r6 = r6
  r7 = r7
  r8 = r8
  r9 = r9
  Requests <- MCRequests
  input_len <- MCLengths
  asked <- MCAsked
  Sends <- MCSends
  n_ub = 3
  ubs = 2
  gen_len = 3
  cache_line = 12
  context_len = 20
  MaxStepBatches = 2
  DeviceFaults = TRUE
CHECK_DEADLOCK FALSE
INVARIANTS
  SpansApart
  OffloadReadsPrefill
  AdmittedFits
PROPERTIES
  ImplementsService
  StepReturns
