SPECIFICATION StagesSpec
CONSTANTS
  Worker = {w1, w2}
  FileCount = 1
  MaxContent = 2
  MaxOperations = 2
  MaxReasons = 2
  Plans = {plan1, plan2}
  Rejections = {malformed, refused}
  PlanningWorker = {w1, w2}
  Deterministic = TRUE
  Table = {"users", "orders"}
  Histories <- MCHistories
  Fixtures <- MCFixtures
  MaxRows = 2
  MaxInterrupts = 1
SYMMETRY WorkerSymmetry
INVARIANTS
  StagesTypeOK
  OneSnapshotForAll
  StagesLeaveRows
  RetriesConverge
  PlanOfItsInvocation
  EndsByItsAnswers
  RiskIsJustified
  RoundtripVerdict
  CoverageNotOverstated
  UpgradesConverge
CHECK_DEADLOCK FALSE
