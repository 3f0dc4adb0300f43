\* A tracked and an ignored path; two builds, of which the first may be killed or
\* refused; three edits, enough to change one path, put it back and change again.
SPECIFICATION CandidateSpec
CONSTANTS
  Files = {tracked, ignored}
  Ignored = {ignored}
  Contents = {old, new}
  MaxBuilds = 2
  MaxEdits = 3
  Absent = Absent
  Unread = Unread
  None = None
SYMMETRY Symmetry
INVARIANTS
  SidecarVouches
\* People need not edit for ever.
CHECK_DEADLOCK FALSE
