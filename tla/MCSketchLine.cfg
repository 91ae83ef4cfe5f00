SPECIFICATION FairSpec
CONSTANTS
  Node = {1, 2, 3}
  Key = {"u"}
  Kind <- MCKind
  KindOf <- MCKindOf
  Origins <- MCOrigins
  Idx <- MCIdx
  Peers <- Line
  Capacity <- Ample
  FloodOnOriginate = TRUE
  FullReconciliation = FALSE
  MaxTime = 1
PROPERTY Propagates
PROPERTY KeepsPromise
INVARIANT NobodyAhead
