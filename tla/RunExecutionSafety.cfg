SPECIFICATION Spec
CONSTANTS
  Worker = {w1, w2}
  MainStatePath <- ShortPath
  MaxAttempts = 2
  Lossy = {}
  Token = {t1, t2, t3}
SYMMETRY Symmetry
INVARIANTS
  TypeOK
  OneProducerPerVersion
  OneEventPerVersion
  StateFollowsVersion
  OneOwnerPerStep
PROPERTIES
  SupersededNeverWrites
  FinishedIsFinal
  CancellationIsHonoured
  ImplementsDelivery
CHECK_DEADLOCK FALSE
