SPECIFICATION SandboxSpec
CONSTANTS
  Worker = {w1, w2}
  RunnerActions <- OneAction
  FaultSets = {{"takeover"}}
INVARIANT ApplyNotReplayed
CHECK_DEADLOCK FALSE
