SPECIFICATION Spec
CONSTANTS
  Stagger = 1000
  TrickleDelay = 100
  FirstTick = 600
  MinBatchSize = 10
  MaxPending = 120
INVARIANT NeverOverflowsWindow
