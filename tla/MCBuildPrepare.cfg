\* Three runs: one that is killed anywhere, one that meets what it left, and one
\* that meets what both left.
SPECIFICATION Spec
CONSTANT MaxRuns = 3
INVARIANTS
  FreshWhenReady
PROPERTIES
  ForeignUntouched
  RefusedForCause
