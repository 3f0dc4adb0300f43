\* Each group of settings across its boundaries, every kind of key and file; a
\* second of 1000 units in a word that holds the largest cap and little more.
SPECIFICATION Spec
CONSTANTS
  Configs <- MCConfigs
  Documents <- MCDocuments
  Rewrites <- MCRewrites
  KeyFiles <- MCKeyFiles
  SecretSizes <- MCSecretSizes
  Grants <- MCGrants
  Second = 1000
  MaxInt = 100000000
INVARIANTS
  ReadyForService
PROPERTY FixedForLife
CHECK_DEADLOCK FALSE
