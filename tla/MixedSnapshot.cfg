SPECIFICATION Spec
CONSTANTS
  Worker = {w1}
  FileCount = 2
  MaxContent = 1
INVARIANT SnapshotOfOneMoment
CHECK_DEADLOCK FALSE
