SPECIFICATION FairSpec
CONSTANTS
  N = 1
  LastToken = 4
PROPERTIES DeadBackendLeaves
