------------------------------- MODULE MCMix --------------------------------
(***************************************************************************)
(* An instance of MixGossip: a line of all three kinds of node.            *)
(***************************************************************************)
EXTENDS MixGossip

LastNode == CHOOSE n \in Node : \A p \in Node : p <= n

MCIdx == [n \in Node |-> n]

Line == [n \in Node |-> {p \in Node : p = n - 1 \/ p = n + 1}]

\* CLN - LND - sketch - sketch
SketchBehind == << "cln", "lnd", "sketch", "sketch" >>

\* A channel update of every node but the second.
MCKindOf == [k \in Key |-> "ChanUpdates"]
MCOrigins == [k \in Key |-> {k}]
MCKind == {"ChanUpdates"}

LastLater == [k \in Key |-> IF k = LastNode THEN {1} ELSE {0}]

One == [kind \in MCKind |-> 1]

=============================================================================
