SPECIFICATION FairSpec
CONSTANTS
  Node = {0, 1}
  Scid = {10}
  Stranger = {99}
  NoHome = NoHome
  Owner <- MCOwner
  WindowSecs = 2
  MaxSecs = 5
  Gap = {0, 2, 3}
  MaxRows = 3
INVARIANT RateLimit
INVARIANT HasFreeExact
INVARIANT WithinRun
INVARIANT NothingLost
PROPERTY NoNeedlessDrop
PROPERTY Finishes
