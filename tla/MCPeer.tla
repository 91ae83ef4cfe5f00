------------------------------- MODULE MCPeer --------------------------------
(***************************************************************************)
(* An instance of PeerGraph: three hubs with channels between any two of   *)
(* them, so that each may keep one that keeps the next, a leaf at two of   *)
(* them, and a node without channels.                                      *)
(***************************************************************************)
EXTENDS PeerGraph

Both(x, S) == {y \in Node : <<x, y>> \in S \/ <<y, x>> \in S}

\* Hubs 0, 2 and 3; 5 has no channel.
Hubs == {<<0, 1>>, <<0, 2>>, <<0, 3>>, <<3, 4>>, <<3, 2>>}
MCHubs == [x \in Node |-> Both(x, Hubs)]

MCTwo == [x \in Node |-> 2]
\* Hub 0 has a cap of 2, the others of 1.
MCCaps == [x \in Node |-> IF x \in {2, 3} THEN 1 ELSE 2]

=============================================================================
