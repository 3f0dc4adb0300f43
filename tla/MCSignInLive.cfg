\* One sign-in after another of one person, and two SendOTPs with cancellations and
\* restarts: no symmetry, for liveness.
SPECIFICATION LiveSpec
CONSTANTS
  Flows = {f1, f2}
  People = {p1}
  Challenges = {c1, c2}
  Essential = {"name"}
  Optional = {"birth"}
  Sourced = {"name"}
  Drawn = Drawn
  ConsentTimeout = 0
  ContextTTL = 2
  MaxTime = 2
  None = None
  Sends = {s1, s2}
  Keys = {k1}
  Codes = {x1, x2}
  MaxPending = 1
  MaxAttempts = 2
  TTL = 1
  MailTime = 1
\* The flows may all be over, and the clock at its bound.
CHECK_DEADLOCK FALSE
PROPERTIES
  ConsentSettles
  SlotsComeBack
