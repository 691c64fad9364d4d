CONSTANTS
  Operation = {o1, o2, o3}
  ResCap = 1
  NewClientPerRequest = TRUE
  None = None
SPECIFICATION FairSpec
INVARIANTS
  TypeOK
  OpenLoop
  ExitQuiescent
  AccountedFor
PROPERTIES
  Finishes
  ImplementsProtocol
