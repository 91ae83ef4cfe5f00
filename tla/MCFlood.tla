------------------------------ MODULE MCFlood ------------------------------
(***************************************************************************)
(* Instances of FloodGossip on a ring, the smallest graphs with two paths  *)
(* between nodes that are not peers, with a channel update of node 1.      *)
(***************************************************************************)
EXTENDS FloodGossip

MCIdx == [n \in Node |-> n]

\* A ring 1 - 2 - ... - 1.
Ring == [n \in Node |-> {p \in Node \ {n} : (n - p) % Cardinality(Node) \in {1, Cardinality(Node) - 1}}]

MCKind == {"ChanUpdates"}
MCKindOf == [k \in Key |-> "ChanUpdates"]
MCOrigins == [k \in Key |-> {1}]

=============================================================================
