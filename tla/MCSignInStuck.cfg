\* Run by hand: the hypothesis of the theorem ConsentSettlesUnlessStuck (README, section 4).
SPECIFICATION Spec
CONSTANTS
  Flows = {f1, f2}
  People = {p1}
  Challenges = {c1, c2}
  Essential = {"name"}
  Optional = {"birth"}
  Sourced = {"name"}
  Drawn = Drawn
  ConsentTimeout = 0
  ContextTTL = 2
  MaxTime = 2
  None = None
CHECK_DEADLOCK FALSE
INVARIANTS
  NeverStuck
