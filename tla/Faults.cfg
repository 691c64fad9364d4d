SPECIFICATION FairSpec
CONSTANTS
  Clusters <- AllClusters
  MaxTerm = 3
INVARIANTS LeaderKeepsMajority DownAsAsked TargetHasLed SteadyLeaderFound ChainsRestored RemovedInTime RegionIsolated
PROPERTIES ExecuteEnds NodeComesBack
CHECK_DEADLOCK FALSE
