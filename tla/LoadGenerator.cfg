CONSTANTS
  NumClients = 2
  NumPrereqs = 2
  MaxOps = 2
  NumFaults = 2
  PipeCap = 2
  BufCap = 2
SPECIFICATION FairSpec
INVARIANTS
  StartBarrier
  ResultsExact
  RaisesOnlyAfterDeath
PROPERTIES
  Terminates
