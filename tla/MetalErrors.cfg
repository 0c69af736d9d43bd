SPECIFICATION Spec
CONSTANTS
  t1 = t1
  t2 = t2
  Threads <- MCOneThread
  CallsOf <- MCAllCalls
  kMaxBatchDispatches = 2
  kMaxPendingBuffers = 1
  MaxCalls = 3
INVARIANT FailureSurfaces
CHECK_DEADLOCK FALSE
