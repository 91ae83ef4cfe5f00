SPECIFICATION FairSpec
CONSTANTS
  Depth = 1
  FlushEvery = 2
  MayCrash = {"msg_stats", "run_meta"}
  MaxReports = 2
  MaxRows = 1
CHECK_DEADLOCK FALSE
INVARIANT AllInFiles
INVARIANT AllHandled
INVARIANT PanicsOnlyOnCrash
PROPERTY Terminates
