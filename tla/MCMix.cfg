SPECIFICATION MixSpec
CONSTANTS
  Node = {1, 2, 3, 4}
  Key = {1, 3, 4}
  Kind <- MCKind
  KindOf <- MCKindOf
  Origins <- MCOrigins
  Idx <- MCIdx
  Peers <- Line
  Proto <- SketchBehind
  Stagger = 2000
  TrickleDelay = 1000
  MinBatchSize = 1
  Capacity <- One
  FloodOnOriginate = TRUE
  FullReconciliation = TRUE
  MaxTime = 1
  MaxPending = 2
  StartAt <- LastLater
INVARIANT StaysAmongSketches
INVARIANT OwedIsHandedOn
PROPERTY KeepsPromise
