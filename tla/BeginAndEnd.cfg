SPECIFICATION Spec
CONSTANTS
  Client = {c1, c2, c3}
  Key = {k1, k2}
  Body = {b1, b2}
  MaxTries = 2
  MaxFiles = 3
  Catalog <- MCCatalog
  MaxSteps = 3
  MaxDepends = 2
  Worker = {w1, w2}
  ActionCount = 2
  Content = {"a", "b"}
  Output <- MCOutput
  Faults = {"crash", "takeover", "cancel", "exhausted"}
  MaxErrors = 1
SYMMETRY Symmetry
INVARIANTS
  OneRunPerKey
  AnswersAgree
  SupportedIsLinear
  ChangesAboveBaseline
  AcceptedRunsTheCatalog
  ItemsHaveArtifacts
  CompletedHasEvidence
  CollectionConverges
CHECK_DEADLOCK FALSE
