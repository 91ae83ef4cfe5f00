------------------------------ MODULE MCSketch ------------------------------
(***************************************************************************)
(* Instances of SketchGossip on a line of nodes, with the channel updates  *)
(* of the two ends.                                                        *)
(***************************************************************************)
EXTENDS SketchGossip

MCIdx == [n \in Node |-> n]

\* A line 1 - 2 - 3 - ...: the ends meet only through the middle.
Line == [n \in Node |-> {p \in Node : p = n - 1 \/ p = n + 1}]

LastNode == CHOOSE n \in Node : \A p \in Node : p <= n

OriginTable == [u |-> {1}, w |-> {LastNode}]

MCKind == {"ChanUpdates"}
MCKindOf == [k \in Key |-> "ChanUpdates"]
MCOrigins == [k \in Key |-> OriginTable[k]]

\* Enough for one stale key in every sketch.
Ample == [kind \in Kind |-> 2]
One == [kind \in Kind |-> 1]

=============================================================================
