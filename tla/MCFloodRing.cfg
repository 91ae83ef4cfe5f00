SPECIFICATION FairSpec
CONSTANTS
  Node = {1, 2, 3, 4}
  Key = {"u"}
  Kind <- MCKind
  KindOf <- MCKindOf
  Origins <- MCOrigins
  Idx <- MCIdx
  Peers <- Ring
  MaxTime = 1
PROPERTY KeepsPromise
PROPERTY Propagates
PROPERTY DiesOut
INVARIANT HandedOn
