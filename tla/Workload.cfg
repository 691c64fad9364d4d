SPECIFICATION FairPreloadSpec
CONSTANTS
  Generators = {"timed", "tptest"}
  Rates = {1, 2, 3}
  Durations = {50, 150, 800, 3000}
INVARIANT ScalingIsBalanced
PROPERTIES OnlyReadsAfterDelete DeletesInTime
CHECK_DEADLOCK FALSE
