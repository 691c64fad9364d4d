SPECIFICATION Spec
CONSTANTS
  MaxClients = 2
  MaxKey = 1
  NumTimed = 3
  Workloads <- ModelWorkloads
  Steps = 2
  InitReplicas = 3
  Up = 1
  Down = 2
  MaxStatus = 1
INVARIANTS NamespaceFirst WarmMapIsSafe
PROPERTIES ConflictMeansContention ImplementsStore
CHECK_DEADLOCK FALSE
