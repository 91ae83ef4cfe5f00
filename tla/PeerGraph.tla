------------------------------ MODULE PeerGraph ------------------------------
(***************************************************************************)
(* build_peer_graph of topology/synthetic.rs: who is a peer of whom, given *)
(* the channels.  Every node picks counterparties and strangers, the picks *)
(* become edges unless a hub rejects them, and what was rejected is        *)
(* replaced by edges to others.                                            *)
(*                                                                         *)
(* The random choices are open.  One action is one node's turn in one of   *)
(* the three loops, which visit the nodes in the order of their index.     *)
(***************************************************************************)
EXTENDS Naturals, FiniteSets

CONSTANTS N,            \* the number of nodes
          Counterparty, \* the neighbours in the channel graph
          K,            \* k_for of each node
          MaxPeer,      \* max_peer_for of each node
          EnforceHubCap \* enforce_hub_cap

Node == 0 .. N - 1

ASSUME PeerAssumption ==
    /\ N \in Nat
    /\ Counterparty \in [Node -> SUBSET Node]
    /\ \A x \in Node : x \notin Counterparty[x]
    /\ \A x, y \in Node : y \in Counterparty[x] => x \in Counterparty[y]
    /\ K \in [Node -> Nat] /\ MaxPeer \in [Node -> Nat]
    /\ EnforceHubCap \in BOOLEAN

VARIABLES phase,    \* "pick", "edges", "topup", "done"
          turn,     \* the node whose turn it is
          kept,     \* NodePicks.kept_counterparties
          strange,  \* NodePicks.strangers
          peers,    \* the edges of topology.peers, as sets of two
          dropped,  \* dropped_per_node
          rejected, \* stats.hub_rejected_edges
          added,    \* stats.replacements_added
          replaced  \* history: the replacements each node picked

vars == <<phase, turn, kept, strange, peers, dropped, rejected, added, replaced>>

Peers(x) == {y \in Node : {x, y} \in peers}
EdgesTo(x, S) == {{x, y} : y \in S}

IsHub(x) == Cardinality(Counterparty[x]) > MaxPeer[x]
Sized(n, S) == {T \in SUBSET S : Cardinality(T) = n}

(***************************************************************************)
(* pick_strangers: as many as are wanted, or all there are.                *)
(***************************************************************************)
PickStrangers(excluded, n) ==
    LET pool == Node \ excluded
    IN  Sized(IF n < Cardinality(pool) THEN n ELSE Cardinality(pool), pool)

Kept(x) == IF IsHub(x) THEN Sized(MaxPeer[x], Counterparty[x]) ELSE {Counterparty[x]}

(* Half of what is missing, rounded up; nothing for hubs and well connected nodes *)
StrangerCount(x) ==
    LET c == Cardinality(Counterparty[x])
    IN  IF IsHub(x) \/ c >= K[x] THEN 0 ELSE (K[x] - c + 1) \div 2

\* Mutated form: the hub at the wrong end is asked.
MutEdgeAllowedSource(src, dst) == EnforceHubCap /\ IsHub(src) => dst \in kept[src]

(* A hub rejects whom it has not kept. *)
EdgeAllowed(src, dst) == EnforceHubCap /\ IsHub(dst) => src \in kept[dst]

\* Mutated form: a peer may be picked once more.
MutExcludedStrangersOnly(x) == {x} \cup {h \in Node : ~EdgeAllowed(x, h)}

Excluded(x) == {x} \cup Peers(x) \cup {h \in Node : ~EdgeAllowed(x, h)}

\* The last node of a loop hands over to the next one.
NextTurn(next) ==
    IF turn + 1 = N THEN turn' = 0 /\ phase' = next ELSE turn' = turn + 1 /\ UNCHANGED phase

----------------------------------------------------------------------------
Init ==
    /\ phase = IF N < 2 THEN "done" ELSE "pick"
    /\ turn = 0
    /\ kept = [x \in Node |-> {}] /\ strange = [x \in Node |-> {}]
    /\ peers = {}
    /\ dropped = [x \in Node |-> 0]
    /\ rejected = 0 /\ added = 0
    /\ replaced = [x \in Node |-> {}]

Pick ==
    /\ phase = "pick"
    /\ \E S \in Kept(turn) : kept' = [kept EXCEPT ![turn] = S]
    /\ \E S \in PickStrangers(Counterparty[turn] \cup {turn}, StrangerCount(turn)) :
         strange' = [strange EXCEPT ![turn] = S]
    /\ NextTurn("edges")
    /\ UNCHANGED <<peers, dropped, rejected, added, replaced>>

AddEdges ==
    /\ phase = "edges"
    /\ LET picks   == kept[turn] \cup strange[turn]
           allowed == {y \in picks : EdgeAllowed(turn, y)}
           lost    == Cardinality(picks \ allowed)
       IN  /\ peers' = peers \cup EdgesTo(turn, allowed)
           /\ dropped' = [dropped EXCEPT ![turn] = lost]
           /\ rejected' = rejected + lost
    /\ NextTurn(IF EnforceHubCap THEN "topup" ELSE "done")
    /\ UNCHANGED <<kept, strange, added, replaced>>

TopUp ==
    /\ phase = "topup"
    /\ \E S \in PickStrangers(Excluded(turn), dropped[turn]) :
         /\ peers' = peers \cup EdgesTo(turn, S)
         /\ added' = added + Cardinality(S \ Peers(turn))
         /\ replaced' = [replaced EXCEPT ![turn] = S]
    /\ NextTurn("done")
    /\ UNCHANGED <<kept, strange, dropped, rejected>>

Done == phase = "done" /\ UNCHANGED vars

Next == Pick \/ AddEdges \/ TopUp \/ Done

Spec == Init /\ [][Next]_vars

----------------------------------------------------------------------------
TypeOK ==
    /\ phase \in {"pick", "edges", "topup", "done"} /\ turn \in Nat
    /\ phase # "done" => turn \in Node
    /\ kept \in [Node -> SUBSET Node] /\ strange \in [Node -> SUBSET Node]
    /\ replaced \in [Node -> SUBSET Node]
    /\ \A d \in peers : \E x, y \in Node : x # y /\ d = {x, y}
    /\ dropped \in [Node -> Nat] /\ rejected \in Nat /\ added \in Nat

(***************************************************************************)
(* With the cap on, a hub has no peer it did not choose: it kept it among  *)
(* its counterparties, or picked it as a replacement of its own.           *)
(***************************************************************************)
InvitedOnly ==
    EnforceHubCap => \A h \in Node : IsHub(h) => Peers(h) \subseteq kept[h] \cup replaced[h]

(***************************************************************************)
(* The cap of a hub is exceeded only by replacements: a hub none of whose  *)
(* picks was rejected has at most its cap of peers, and every rejection    *)
(* lets it have one more.                                                  *)
(***************************************************************************)
HubBounded ==
    EnforceHubCap => \A h \in Node :
        IsHub(h) => Cardinality(Peers(h)) <= MaxPeer[h] + dropped[h]

(* everybody is a peer of x or rejects it *)
Exhausted(x) == \A y \in Node \ {x} : y \in Peers(x) \/ ~EdgeAllowed(x, y)

(***************************************************************************)
(* Nobody ends with fewer peers than it picked, as long as there was       *)
(* anybody left to replace who rejected it.                                *)
(***************************************************************************)
DegreeKept ==
    phase = "done" => \A x \in Node :
        Cardinality(Peers(x)) >= Cardinality(kept[x] \cup strange[x]) \/ Exhausted(x)

=============================================================================
