SPECIFICATION FairSpec
CONSTANTS
  Node = {1, 2, 3}
  Key = {"u"}
  Kind <- MCKind
  KindOf <- MCKindOf
  Origins <- MCOrigins
  Idx <- MCIdx
  Peers <- Line
  Proto <- LndFirst
  Stagger = 2000
  TrickleDelay = 1000
  MinBatchSize = 1
  MaxTime = 1
  MaxPending = 3
INVARIANT ForwardedInOrder
PROPERTY KeepsPromise
PROPERTY Propagates
INVARIANT HandedOn
