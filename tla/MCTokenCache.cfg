\* Three concurrent lookups, a short and a long grant around the configured cap.
SPECIFICATION Spec
CONSTANTS
  Calls = {c1, c2, c3}
  None = None
  Lifetimes = {1, 3}
  CacheMax = 2
  MaxTime = 3
SYMMETRY Symmetry
\* The system stops once every lookup has returned and the clock is at its bound.
CHECK_DEADLOCK FALSE
INVARIANTS
  SingleFlight
  CacheWithinGrant
  RefusedTokenStaysOut
  NoRedundantToken
PROPERTIES
  FailureHasCause
  HandedTokenUnexpired
  ImplementsService
