SPECIFICATION FairSpec
CONSTANTS
  Node = {1, 2}
  Key = {"u", "w"}
  Kind <- MCKind
  KindOf <- MCKindOf
  Origins <- MCOrigins
  Idx <- MCIdx
  Peers <- Line
  Capacity <- One
  FloodOnOriginate = FALSE
  FullReconciliation = TRUE
  MaxTime = 1
INVARIANT InventoryAnswerable
PROPERTY AnswersAreNews
PROPERTY ReconciledOrOverflow
