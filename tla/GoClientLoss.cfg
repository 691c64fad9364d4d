CONSTANTS
  Operation = {o1}
  ResCap = 1
  NewClientPerRequest = FALSE
  None = None
SPECIFICATION Spec
INVARIANT AllResultsReported
