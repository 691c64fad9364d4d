SPECIFICATION FairSpec
CONSTANTS
  NumControl = 3
  NumWorkers = 1
  KillCount = 2
  FailureTypes = {"none", "leader", "leader-recovery", "kill-n"}
INVARIANTS OnlyPausedLeft LinkAndFilesBack
PROPERTY TeardownEnds
CHECK_DEADLOCK FALSE
