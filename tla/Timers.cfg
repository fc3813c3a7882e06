SPECIFICATION FairSpec
CONSTANTS
  Starters = {net}
  MaxId = 2
  Periods = {1, 2}
  Kinds = {"once", "wait"}
  Horizon = 2
INVARIANTS TypeOK
PROPERTIES OneIdUnlessRaced ImplementsDeadlines FireUnlessMissed
CHECK_DEADLOCK FALSE
