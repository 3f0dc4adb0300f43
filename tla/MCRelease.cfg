\* Three dispatches of two commits: one that stops anywhere, one that meets what
\* it left, and one that waits behind; two assets of a draft.  No symmetry, for
\* liveness under fair runners and operators.
SPECIFICATION FairSpec
CONSTANTS
  Runs = {r1, r2, r3}
  Commits = {c1, c2}
  Assets = {"archive", "attestation"}
  None = None
INVARIANTS
  TagVouches
  PartIsRecoverable
PROPERTIES
  WriteOnce
  ImplementsVersion
  PublicationCompletes
