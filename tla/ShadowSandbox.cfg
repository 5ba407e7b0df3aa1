SPECIFICATION SandboxSpec
CONSTANTS
  Worker = {w1, w2}
  RunnerActions <- TwoActions
  FaultSets <- MCFaultSets
SYMMETRY WorkerSymmetry
INVARIANTS
  SandboxTypeOK
  StagesLeaveResults
  DatabaseInOrder
  RunnersMeetTheirDatabase
PROPERTIES
  CleanedStaysGone
  ReleasedBeforeTheEnd
CHECK_DEADLOCK FALSE
