CONSTANTS
  w1 = w1
  w2 = w2
  Workers <- MCWorkers
  Posts <- ThreePosts
  Unscrapable <- None
  BATCH = 2
  MaxFaults = 0
SPECIFICATION Spec
INVARIANTS
  DisjointWork
