\* Three concurrent lookups under the fairness of the scheduler; no symmetry.
SPECIFICATION FairSpec
CONSTANTS
  Calls = {c1, c2, c3}
  None = None
  Lifetimes = {1}
  CacheMax = 1
  MaxTime = 1
CHECK_DEADLOCK FALSE
PROPERTIES
  EveryCallReturns
