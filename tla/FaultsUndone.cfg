SPECIFICATION FairSpec
CONSTANTS
  Clusters <- LeftUndone
  MaxTerm = 1
PROPERTY FaultsAreUndone
CHECK_DEADLOCK FALSE
