\* Two logins that may share a code, and a read; half-second ticks, skewed clocks.
SPECIFICATION Spec
CONSTANTS
  Logins = {l1, l2}
  Reads = {r1}
  Otps = {o1, o2}
  Subjects = {p1}
  Bindings = {b1, b2}
  ClaimMap <- MCClaimMap
  Psut = "$psut"
  Provisioned <- MCProvisioned
  Approvals <- MCApprovals
  ContextTTL = 1
  PerSecond = 2
  MaxSkew = 1
  MaxTime = 4
  None = None
SYMMETRY Symmetry
INVARIANTS
  NoLookupWithoutProof
  OneContextPerCode
  ReleasedWithinApproval
PROPERTIES
  HonouredForItsTime
