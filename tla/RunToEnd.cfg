SPECIFICATION RunToEndSpec
CONSTANTS
  Worker = {w1}
  MainStatePath <- ShortPath
  MaxAttempts = 2
  Lossy = {1, 2, 3}
  Token = {t1, t2}
  KeptCursors = {0, 2, 5}
  MaxDisconnects = 2
INVARIANTS
  TimelineTypeOK
  EachVersionOnceInOrder
  EndMeansComplete
PROPERTIES
  RunEndsUnlessReclaimed
  BudgetEndsTheRun
  ImplementsLifecycle
  FinishedRunIsSeen
CHECK_DEADLOCK FALSE
