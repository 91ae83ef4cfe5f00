SPECIFICATION Spec
CONSTANTS
  Stagger = 7000
  TrickleDelay = 2000
  FirstTick = 1500
  MinBatchSize = 2
  MaxPending = 16
INVARIANT OutBeforeNextTick
INVARIANT AllOut
