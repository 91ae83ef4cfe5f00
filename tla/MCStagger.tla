----------------------------- MODULE MCStagger -----------------------------
(***************************************************************************)
(* An instance of StaggerGossip: a line of nodes, the last a CLN node and  *)
(* the others LND nodes, with a channel update of the first one.           *)
(***************************************************************************)
EXTENDS StaggerGossip

MCIdx == [n \in Node |-> n]

Line == [n \in Node |-> {p \in Node : p = n - 1 \/ p = n + 1}]

LastNode == CHOOSE n \in Node : \A p \in Node : p <= n

LndFirst == [n \in Node |-> IF n < LastNode THEN "lnd" ELSE "cln"]

MCKindOf == [k \in Key |-> "ChanUpdates"]
MCOrigins == [k \in Key |-> {1}]
MCKind == {"ChanUpdates"}

=============================================================================
