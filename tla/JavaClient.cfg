SPECIFICATION FairSpec
CONSTANT Operation = {1, 2, 3}
INVARIANTS InTimeReported
PROPERTIES BecomesReady FinishesUnlessHeld KeepsProtocol
CHECK_DEADLOCK FALSE
