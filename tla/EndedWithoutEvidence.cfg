SPECIFICATION EvidenceSpec
CONSTANTS
  Worker = {w1}
  ActionCount = 2
  Content = {"a", "b"}
  Output <- MCOutput
  Faults = {}
  MaxErrors = 0
INVARIANT EndedRunHasEvidence
CHECK_DEADLOCK FALSE
