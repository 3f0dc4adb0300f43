\* What a clean label does not mean: one build of a tracked and an ignored path,
\* which nobody touches meanwhile.
SPECIFICATION CandidateSpec
CONSTANTS
  Files = {tracked, ignored}
  Ignored = {ignored}
  Contents = {old, new}
  MaxBuilds = 1
  MaxEdits = 0
  Absent = Absent
  Unread = Unread
  None = None
SYMMETRY Symmetry
INVARIANTS
  CleanMeansRevision
\* People need not edit for ever.
CHECK_DEADLOCK FALSE
