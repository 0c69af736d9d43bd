SPECIFICATION Spec
CONSTANTS
  c = c
  i = i
  j = j
  w1 = w1
  w2 = w2
  w3 = w3
  w4 = w4
  Concretes = {c}
  Indirects = {}
  Users = {w1, w2, w3, w4}
  Target <- CrowdTarget
  NodeWaiters = 2
  Null = Null
SYMMETRY UserSymmetry
INVARIANTS WaitersConserved NoUseAfterFree
