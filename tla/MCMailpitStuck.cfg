\* Run by hand: the hypothesis of the theorem SlotsComeBackUnlessStuck (README, section 4).
SPECIFICATION Spec
CONSTANTS
  Sends = {s1, s2}
  Keys = {k1}
  Codes = {x1, x2}
  None = None
  MaxPending = 1
  MaxAttempts = 2
  TTL = 1
  MaxTime = 1
INVARIANTS
  NeverStuck
