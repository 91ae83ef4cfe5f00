SPECIFICATION FairSpec
CONSTANTS
  Node = {1, 2, 3}
  Key = {"u", "a"}
  ChanUpdate <- MCChanUpdate
  Owner <- MCOwner
  MaxVersion = 1
  MaxSeen = 4
INVARIANT OneRowEach
INVARIANT IndexExact
INVARIANT SupersededIsOlder
INVARIANT ReportsConserved
INVARIANT CompleteUnlessSuperseded
PROPERTY RunEnds
