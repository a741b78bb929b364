SPECIFICATION MCSpec
CONSTANTS
  Operators = {o1, o2}
  MaxFailures = 1
  MaxFlows = 2
  Classes = {c1, c2}
  RingSize = 2
  MaxReviews = 2
  MaxBoots = 2
  MaxVersion = 2
  MinRows = 2
  MaxCuts = 2
  Runs = {r1}
  Epochs = {0, 1, 2}
  HistoryCap = 2
  StaleAfter = 1
  MaxTime = 2
  MaxReports = 3
SYMMETRY Symmetry
VIEW View
CHECK_DEADLOCK FALSE
INVARIANTS
    TrailsTellWhatHappened
    OperatorWorkStands
PROPERTIES
    VersionsImmutable
