\* Run by hand: the hypotheses of the theorem PublicationCompletesUnlessStuck (README, section 4).
SPECIFICATION Spec
CONSTANTS
  Runs = {r1, r2, r3}
  Commits = {c1, c2}
  Assets = {"archive", "attestation"}
  None = None
INVARIANTS
  NeverStuck
PROPERTIES
  UploadsEnd
