SPECIFICATION FairSpec
CONSTANTS
  c = c
  i = i
  j = j
  w1 = w1
  w2 = w2
  w3 = w3
  w4 = w4
  Concretes = {c}
  Indirects = {i, j}
  Users = {w1}
  Target <- ChainTarget
  NodeWaiters = 2
  Null = Null
INVARIANTS TypeOK NoUseAfterFree NothingLeaks
PROPERTIES ImplementsFuture WaitersRun
