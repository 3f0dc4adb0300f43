\* Run by hand: the hypotheses of the theorem EveryCallReturnsUnlessStuck (README, section 4).
SPECIFICATION Spec
CONSTANTS
  Calls = {c1, c2, c3}
  None = None
  Lifetimes = {1}
  CacheMax = 1
  MaxTime = 1
CHECK_DEADLOCK FALSE
INVARIANTS
  NeverStuck
PROPERTIES
  JoinsEnd
