SPECIFICATION Spec
CONSTANTS
  Worker = {w1, w2}
  MainStatePath <- ShortPath
  MaxAttempts = 2
  Lossy = {}
  Token = {t1, t2, t3}
INVARIANT NoCancelledStepBesideOwner
CHECK_DEADLOCK FALSE
