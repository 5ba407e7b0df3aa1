SPECIFICATION SandboxSpec
CONSTANTS
  Worker = {w1}
  RunnerActions <- OneAction
  FaultSets = {{}}
INVARIANT EndedRunIsClean
CHECK_DEADLOCK FALSE
