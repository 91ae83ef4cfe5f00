---------------------------- MODULE MCAggregator ----------------------------
(***************************************************************************)
(* Instances of Aggregator: a channel update u and a node announcement a,  *)
(* both of node 1.                                                         *)
(***************************************************************************)
EXTENDS Aggregator

MCOwner == [k \in Key |-> 1]
MCChanUpdate == Key \cap {"u"}

=============================================================================
