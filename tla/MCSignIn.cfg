\* Two sign-ins of two people, three codes, an essential and two optional claims; a tick is
\* 150 seconds, longer than the prompt's 120 and half of the context's 300.
SPECIFICATION Spec
CONSTANTS
  Flows = {f1, f2}
  People = {p1, p2}
  Challenges = {c1, c2, c3}
  Essential = {"name"}
  Optional = {"birth", "phone"}
  Sourced = {"name", "birth"}
  Drawn = Drawn
  ConsentTimeout = 0
  ContextTTL = 2
  MaxTime = 2
  None = None
SYMMETRY Symmetry
CHECK_DEADLOCK FALSE
INVARIANTS
  CodeFitsFlow
  ProofOfThisSignIn
  AgreedIsDelivered
  RefusalIsDenial
  ReleaseIsOnRecord
PROPERTIES
  ImplementsConsentedRelease
