SPECIFICATION FairSpec
CONSTANTS
  Operation = {1, 2, 3, 4}
  Cid = 5
INVARIANT ReportsWhatItHeard
PROPERTIES PrereqsEnd ImplementsProtocol
CHECK_DEADLOCK FALSE
