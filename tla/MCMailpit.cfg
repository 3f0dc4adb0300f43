\* Three SendOTPs compete for two slots over two keys; two guesses per code.
SPECIFICATION Spec
CONSTANTS
  Sends = {s1, s2, s3}
  Keys = {k1, k2}
  Codes = {x1, x2}
  None = None
  MaxPending = 2
  MaxAttempts = 2
  TTL = 1
  MaxTime = 1
SYMMETRY Symmetry
INVARIANTS
  CapacityBound
  PendingIsAnswerable
  OneTime
PROPERTIES
  AcceptsOnlyFreshMail
  RefusedOnlyWhenFull
  ImplementsOneTimeCode
