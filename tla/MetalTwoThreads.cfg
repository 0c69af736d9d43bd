SPECIFICATION FairSpec
CONSTANTS
  t1 = t1
  t2 = t2
  Threads <- MCThreads
  CallsOf <- MCCallsOf
  kMaxBatchDispatches = 2
  kMaxPendingBuffers = 1
  MaxCalls = 4
INVARIANTS TypeOK OwnedUntilWaited DrainObserves DestroyStrandsNothing
PROPERTY CallsReturn
CHECK_DEADLOCK FALSE
