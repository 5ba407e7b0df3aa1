SPECIFICATION Spec
CONSTANTS
  Worker = {w1}
  MainStatePath <- ShortPath
  MaxAttempts = 2
  Lossy = {}
  Token = {t1, t2}
PROPERTY CancelledRunDoesNotAdvance
CHECK_DEADLOCK FALSE
