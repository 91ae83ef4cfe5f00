-------------------------- MODULE PeerGraphProofs ---------------------------
(***************************************************************************)
(* Theorems about PeerGraph, for any channel graph and whatever is picked: *)
(* with the cap on, a hub has no peer it did not choose.                   *)
(***************************************************************************)
EXTENDS PeerGraph, FiniteSetTheorems, TLAPS

USE PeerAssumption

LEMMA NodesFinite == IsFiniteSet(Node)
  BY FS_Interval DEF Node

LEMMA CardinalityNat ==
  ASSUME NEW S \in SUBSET Node
  PROVE  Cardinality(S) \in Nat /\ (Cardinality(S) = 0 => S = {})
  BY NodesFinite, FS_Subset, FS_CardinalityType, FS_EmptySet, Zenon

(* What pick_strangers returns is from the pool, and nothing if nothing is wanted. *)
LEMMA PickStrangersPicks ==
  ASSUME NEW ex, NEW n \in Nat, NEW S \in PickStrangers(ex, n)
  PROVE  S \subseteq Node \ ex /\ (n = 0 => S = {})
<1>1. S \in SUBSET (Node \ ex)
  BY DEF PickStrangers, Sized
<1>2. Cardinality(Node \ ex) \in Nat
  <2>1. Node \ ex \in SUBSET Node
    OBVIOUS
  <2> QED
    BY <2>1, CardinalityNat
<1>3. ASSUME n = 0 PROVE Cardinality(S) = 0
  BY <1>2, <1>3 DEF PickStrangers, Sized
<1>4. S \in SUBSET Node
  BY <1>1
<1> QED
  BY <1>1, <1>3, <1>4, CardinalityNat

(* It is as many as are wanted, or else the whole pool. *)
LEMMA PickStrangersCount ==
  ASSUME NEW ex, NEW n \in Nat, NEW S \in PickStrangers(ex, n)
  PROVE  Cardinality(S) = n \/ S = Node \ ex
<1> DEFINE pool == Node \ ex
<1>1. S \subseteq pool /\ pool \in SUBSET Node
  BY PickStrangersPicks
<1>2. IsFiniteSet(pool)
  BY <1>1, NodesFinite, FS_Subset
<1>3. Cardinality(S) = IF n < Cardinality(pool) THEN n ELSE Cardinality(pool)
  BY DEF PickStrangers, Sized
<1>4. Cardinality(S) = Cardinality(pool) => S = pool
  BY <1>1, <1>2, FS_Subset
<1> QED
  BY <1>3, <1>4

(* A larger set of nodes has the larger cardinality. *)
LEMMA CardinalityGrows ==
  ASSUME NEW S \in SUBSET Node, NEW T \in SUBSET S
  PROVE  Cardinality(T) <= Cardinality(S)
<1>1. IsFiniteSet(S)
  BY NodesFinite, FS_Subset
<1> QED
  BY <1>1, FS_Subset

(* Disjoint sets of nodes add up. *)
LEMMA CardinalityAdds ==
  ASSUME NEW S \in SUBSET Node, NEW T \in SUBSET Node, S \cap T = {}
  PROVE  Cardinality(S \cup T) = Cardinality(S) + Cardinality(T)
<1>1. IsFiniteSet(S) /\ IsFiniteSet(T)
  BY NodesFinite, FS_Subset
<1>2. Cardinality(S \cup T) = Cardinality(S) + Cardinality(T) - Cardinality(S \cap T)
  BY <1>1, FS_Union
<1>3. Cardinality(S \cap T) = 0
  BY FS_EmptySet
<1>4. Cardinality(S) \in Nat /\ Cardinality(T) \in Nat
  BY CardinalityNat
<1> QED
  BY <1>2, <1>3, <1>4

----------------------------------------------------------------------------
(***************************************************************************)
(* The inductive invariant.                                                *)
(***************************************************************************)

(* Nobody picks itself, and hubs pick no strangers. *)
Picks ==
    /\ \A x \in Node : x \notin kept[x] \cup strange[x]
    /\ \A x \in Node : IsHub(x) => strange[x] = {}

(* There are no edges before the second loop, and a node has no replacements *)
(* before its turn in the third.                                             *)
InTurn ==
    /\ phase = "pick" => peers = {}
    /\ phase \in {"pick", "edges"} => \A x \in Node : replaced[x] = {}
    /\ phase = "topup" => \A x \in Node : x >= turn => replaced[x] = {}

(* After its turn in the second loop a node has every pick that does not     *)
(* reject it as a peer, and dropped counts the others.                       *)
Picked(x) == kept[x] \cup strange[x]
Accepted(x) == {y \in Picked(x) : EdgeAllowed(x, y)}
Wired(x) == phase \in {"topup", "done"} \/ (phase = "edges" /\ x < turn)

Connected ==
    \A x \in Node : Wired(x) =>
        Accepted(x) \subseteq Peers(x) /\ dropped[x] = Cardinality(Picked(x) \ Accepted(x))

(* After its turn in the third it has as many peers as it picked, or nobody  *)
(* is left to ask.                                                           *)
Enough(x) == Cardinality(Peers(x)) >= Cardinality(Picked(x)) \/ Exhausted(x)
ToppedUp == \A x \in Node : phase = "done" \/ (phase = "topup" /\ x < turn) => Enough(x)

IInv == TypeOK /\ Picks /\ InTurn /\ InvitedOnly /\ Connected /\ ToppedUp

LEMMA InitHolds == Init => IInv
<1> SUFFICES ASSUME Init PROVE IInv
  OBVIOUS
<1>1. TypeOK
  BY DEF Init, TypeOK, Node
<1>2. Picks /\ InTurn
  BY DEF Init, Picks, InTurn
<1>3. InvitedOnly
  BY DEF Init, InvitedOnly, Peers
<1>4. \A x \in Node : Picked(x) = {} /\ Accepted(x) = {} /\ dropped[x] = 0
  BY DEF Init, Picked, Accepted
<1>5. Connected
  BY <1>4, FS_EmptySet DEF Connected
<1>6. ToppedUp
  <2> SUFFICES ASSUME NEW x \in Node PROVE Enough(x)
    BY DEF ToppedUp
  <2>1. Cardinality(Picked(x)) = 0
    BY <1>4, FS_EmptySet
  <2>2. Cardinality(Peers(x)) \in Nat
    BY CardinalityNat DEF Peers
  <2> QED
    BY <2>1, <2>2 DEF Enough
<1> QED
  BY <1>1, <1>2, <1>3, <1>5, <1>6 DEF IInv

----------------------------------------------------------------------------
(* The loops visit the nodes in order. *)
LEMMA TurnStep ==
  ASSUME TypeOK, phase # "done", NEW next \in {"edges", "topup", "done"}, NextTurn(next)
  PROVE  /\ turn \in Node /\ turn' \in Node
         /\ \/ phase' = next /\ turn' = 0 /\ turn + 1 = N
            \/ phase' = phase /\ turn' = turn + 1
  BY DEF TypeOK, NextTurn, Node

(* Edges of a node to others are edges. *)
LEMMA EdgesStep ==
  ASSUME TypeOK, NEW x \in Node, NEW S \in SUBSET Node, x \notin S,
         peers' = peers \cup EdgesTo(x, S)
  PROVE  /\ \A d \in peers' : \E y, z \in Node : y # z /\ d = {y, z}
         /\ \A y \in Node : \A z \in Peers(y)' :
              z \in Peers(y) \/ (y = x /\ z \in S) \/ (z = x /\ y \in S)
<1>1. ASSUME NEW d \in peers' PROVE \E y, z \in Node : y # z /\ d = {y, z}
  <2>1. CASE d \in peers
    BY <2>1 DEF TypeOK
  <2>2. CASE d \in EdgesTo(x, S)
    BY <2>2 DEF EdgesTo
  <2> QED
    BY <1>1, <2>1, <2>2
<1>2. ASSUME NEW y \in Node, NEW z \in Peers(y)'
      PROVE  z \in Peers(y) \/ (y = x /\ z \in S) \/ (z = x /\ y \in S)
  <2>1. z \in Node /\ {y, z} \in peers'
    BY <1>2 DEF Peers
  <2>2. CASE {y, z} \in peers
    BY <2>1, <2>2 DEF Peers
  <2>3. CASE {y, z} \in EdgesTo(x, S)
    <3>1. PICK v \in S : {y, z} = {x, v}
      BY <2>3 DEF EdgesTo
    <3> QED
      BY <3>1
  <2> QED
    BY <2>1, <2>2, <2>3
<1> QED
  BY <1>1, <1>2

(* They become peers, and nobody loses one. *)
LEMMA PeersStep ==
  ASSUME NEW x \in Node, NEW S \in SUBSET Node, peers' = peers \cup EdgesTo(x, S)
  PROVE  S \subseteq Peers(x)' /\ \A y \in Node : Peers(y) \subseteq Peers(y)'
  BY DEF Peers, EdgesTo

(* Who has enough peers keeps them. *)
LEMMA EnoughStays ==
  ASSUME NEW x \in Node, Enough(x), Peers(x) \subseteq Peers(x)',
         kept' = kept, strange' = strange, kept \in [Node -> SUBSET Node],
         strange \in [Node -> SUBSET Node]
  PROVE  Enough(x)'
<1>1. Peers(x) \in SUBSET Node /\ Peers(x)' \in SUBSET Node /\ Picked(x) \in SUBSET Node
  BY DEF Peers, Picked
<1>2. Picked(x)' = Picked(x)
  BY DEF Picked
<1>3. CASE Exhausted(x)
  BY <1>3 DEF Exhausted, EdgeAllowed, IsHub, Enough
<1>4. CASE Cardinality(Peers(x)) >= Cardinality(Picked(x))
  <2>1. Cardinality(Peers(x)') >= Cardinality(Peers(x))
    BY <1>1, CardinalityGrows
  <2>2. /\ Cardinality(Peers(x)') \in Nat
        /\ Cardinality(Peers(x)) \in Nat /\ Cardinality(Picked(x)) \in Nat
    BY <1>1, CardinalityNat
  <2> QED
    BY <1>2, <1>4, <2>1, <2>2 DEF Enough
<1> QED
  BY <1>3, <1>4 DEF Enough

(* What a node has is not taken back by the edges of another. *)
LEMMA ConnectedStays ==
  ASSUME NEW x \in Node, kept' = kept, strange' = strange, Peers(x) \subseteq Peers(x)',
         dropped'[x] = dropped[x], Accepted(x) \subseteq Peers(x),
         dropped[x] = Cardinality(Picked(x) \ Accepted(x))
  PROVE  /\ (Accepted(x) \subseteq Peers(x))'
         /\ (dropped[x] = Cardinality(Picked(x) \ Accepted(x)))'
<1>1. Picked(x)' = Picked(x) /\ Accepted(x)' = Accepted(x)
  BY DEF Picked, Accepted, EdgeAllowed, IsHub
<1> QED
  BY <1>1

LEMMA PickStep == IInv /\ Pick => IInv'
<1> SUFFICES ASSUME IInv, Pick PROVE IInv'
  OBVIOUS
<1>1. phase = "pick" /\ turn \in Node /\ turn' \in Node /\ phase' \in {"pick", "edges"}
  BY TurnStep DEF IInv, Pick, TypeOK
<1>2. Counterparty[turn] \in SUBSET Node /\ turn \notin Counterparty[turn]
  BY <1>1
<1>3. StrangerCount(turn) \in Nat /\ (IsHub(turn) => StrangerCount(turn) = 0)
  <2>1. Cardinality(Counterparty[turn]) \in Nat /\ K[turn] \in Nat
    BY <1>1, <1>2, CardinalityNat
  <2> QED
    BY <2>1 DEF StrangerCount
<1>4. PICK S \in Kept(turn) : kept' = [kept EXCEPT ![turn] = S]
  BY DEF Pick
<1>5. S \subseteq Counterparty[turn]
  BY <1>4 DEF Kept, Sized
<1>6. PICK Q \in PickStrangers(Counterparty[turn] \cup {turn}, StrangerCount(turn)) :
        strange' = [strange EXCEPT ![turn] = Q]
  BY DEF Pick
<1>7. Q \subseteq Node \ (Counterparty[turn] \cup {turn}) /\ (IsHub(turn) => Q = {})
  BY <1>3, <1>6, PickStrangersPicks
<1>8. TypeOK'
  <2>1. S \in SUBSET Node /\ Q \in SUBSET Node
    BY <1>2, <1>5, <1>7
  <2>2. kept' \in [Node -> SUBSET Node]
    BY <2>1, <1>4 DEF IInv, TypeOK
  <2>3. strange' \in [Node -> SUBSET Node]
    BY <2>1, <1>6 DEF IInv, TypeOK
  <2>4. phase' \in {"pick", "edges", "topup", "done"} /\ turn' \in Nat /\ turn' \in Node
    BY <1>1 DEF Node
  <2>5. UNCHANGED <<peers, dropped, rejected, added, replaced>>
    BY DEF Pick
  <2> QED
    BY <2>2, <2>3, <2>4, <2>5 DEF IInv, TypeOK
<1>9. Picks'
  <2>1. kept'[turn] = S /\ strange'[turn] = Q
    BY <1>1, <1>4, <1>6 DEF IInv, TypeOK
  <2>2. turn \notin S \cup Q /\ (IsHub(turn) => Q = {})
    BY <1>2, <1>5, <1>7
  <2>3. ASSUME NEW x \in Node, x # turn
        PROVE  kept'[x] = kept[x] /\ strange'[x] = strange[x]
    BY <1>4, <1>6, <2>3 DEF IInv, TypeOK
  <2>4. ASSUME NEW x \in Node
        PROVE  x \notin kept'[x] \cup strange'[x] /\ (IsHub(x) => strange'[x] = {})
    <3>1. CASE x = turn
      BY <3>1, <2>1, <2>2
    <3>2. CASE x # turn
      BY <3>2, <2>3 DEF IInv, Picks
    <3> QED
      BY <3>1, <3>2
  <2> QED
    BY <2>4 DEF Picks, IsHub
<1>10. peers' = {} /\ replaced' = replaced
  BY <1>1 DEF IInv, InTurn, Pick
<1>11. InTurn'
  BY <1>1, <1>10 DEF IInv, InTurn
<1>12. InvitedOnly'
  BY <1>10 DEF InvitedOnly, Peers
<1>13. phase' = "pick" \/ (phase' = "edges" /\ turn' = 0)
  BY <1>1, TurnStep DEF IInv, Pick
<1>14. Connected' /\ ToppedUp'
  BY <1>13 DEF Connected, Wired, ToppedUp, Node
<1> QED
  BY <1>8, <1>9, <1>11, <1>12, <1>14 DEF IInv

LEMMA AddEdgesStep == IInv /\ AddEdges => IInv'
<1> SUFFICES ASSUME IInv, AddEdges PROVE IInv'
  OBVIOUS
<1>1. phase = "edges" /\ turn \in Node /\ turn' \in Node /\ phase' \in {"edges", "topup", "done"}
  BY TurnStep DEF IInv, AddEdges, TypeOK
<1> DEFINE picks == kept[turn] \cup strange[turn]
           allowed == {y \in picks : EdgeAllowed(turn, y)}
           lost == Cardinality(picks \ allowed)
<1>2. picks \in SUBSET Node /\ turn \notin picks
  BY <1>1 DEF IInv, TypeOK, Picks
<1>3. /\ peers' = peers \cup EdgesTo(turn, allowed)
      /\ dropped' = [dropped EXCEPT ![turn] = lost]
      /\ rejected' = rejected + lost
      /\ UNCHANGED <<kept, strange, added, replaced>>
  BY DEF AddEdges
<1>4. picks \ allowed \in SUBSET Node /\ allowed \in SUBSET Node /\ turn \notin allowed
  BY <1>2
<1>5. \A y \in allowed : y \in picks /\ EdgeAllowed(turn, y)
  OBVIOUS
<1>6. lost \in Nat
  BY <1>4, CardinalityNat
<1> HIDE DEF allowed, lost
<1>7. /\ \A d \in peers' : \E y, z \in Node : y # z /\ d = {y, z}
      /\ \A y \in Node : \A z \in Peers(y)' :
           z \in Peers(y) \/ (y = turn /\ z \in allowed) \/ (z = turn /\ y \in allowed)
  BY <1>1, <1>3, <1>4, EdgesStep DEF IInv
<1>8. TypeOK'
  <2>1. dropped' \in [Node -> Nat]
    BY <1>3, <1>6 DEF IInv, TypeOK
  <2>2. rejected' \in Nat
    BY <1>3, <1>6 DEF IInv, TypeOK
  <2>3. turn' \in Nat
    BY <1>1 DEF Node
  <2> QED
    BY <1>1, <1>3, <1>7, <2>1, <2>2, <2>3 DEF IInv, TypeOK
<1>9. Picks'
  BY <1>3 DEF IInv, Picks, IsHub
<1>10. InTurn'
  BY <1>1, <1>3 DEF IInv, InTurn
<1>11. InvitedOnly'
  <2> SUFFICES ASSUME EnforceHubCap, NEW h \in Node, IsHub(h), NEW z \in Peers(h)'
               PROVE  z \in kept[h] \cup replaced[h]
    BY <1>3 DEF InvitedOnly, IsHub
  <2>1. CASE z \in Peers(h)
    BY <2>1 DEF IInv, InvitedOnly
  <2>2. CASE h = turn /\ z \in allowed
    BY <2>2, <1>5 DEF IInv, Picks
  <2>3. CASE z = turn /\ h \in allowed
    BY <2>3, <1>5 DEF EdgeAllowed
  <2> QED
    BY <1>7, <2>1, <2>2, <2>3
<1>12. allowed = Accepted(turn) /\ lost = Cardinality(Picked(turn) \ Accepted(turn))
  BY DEF allowed, lost, Accepted, Picked
<1> PICK t \in Node : t = turn
  BY <1>1
<1>13. allowed \subseteq Peers(t)' /\ \A y \in Node : Peers(y) \subseteq Peers(y)'
  <2>1. peers' = peers \cup EdgesTo(t, allowed)
    BY <1>3
  <2> QED
    BY <1>4, <2>1, PeersStep
<1>14. ASSUME NEW x \in Node
       PROVE  Picked(x)' = Picked(x) /\ Accepted(x)' = Accepted(x)
  BY <1>3 DEF Picked, Accepted, EdgeAllowed, IsHub
<1>15. /\ Accepted(t)' \subseteq Peers(t)'
       /\ dropped'[t] = Cardinality(Picked(t)' \ Accepted(t)')
  <2>1. dropped'[t] = lost
    BY <1>3 DEF IInv, TypeOK
  <2>2. allowed = Accepted(t) /\ lost = Cardinality(Picked(t) \ Accepted(t))
    BY <1>12
  <2> QED
    BY <1>13, <1>14, <2>1, <2>2
<1>16. \/ phase' = (IF EnforceHubCap THEN "topup" ELSE "done") /\ turn' = 0 /\ turn + 1 = N
       \/ phase' = "edges" /\ turn' = turn + 1
  <2>1. (IF EnforceHubCap THEN "topup" ELSE "done") \in {"edges", "topup", "done"}
    OBVIOUS
  <2> QED
    BY <1>1, <2>1, TurnStep DEF IInv, AddEdges
<1>17. Connected'
  <2> SUFFICES ASSUME NEW x \in Node, Wired(x)'
               PROVE  /\ (Accepted(x) \subseteq Peers(x))'
                      /\ (dropped[x] = Cardinality(Picked(x) \ Accepted(x)))'
    BY DEF Connected
  <2>1. CASE x = t
    BY <2>1, <1>15
  <2>2. CASE x # t
    <3>1. x < turn
      BY <1>1, <1>16, <2>2 DEF Wired, Node
    <3>2. Accepted(x) \subseteq Peers(x) /\ dropped[x] = Cardinality(Picked(x) \ Accepted(x))
      BY <1>1, <3>1 DEF IInv, Connected, Wired
    <3>3. dropped'[x] = dropped[x]
      BY <1>3, <2>2 DEF IInv, TypeOK
    <3> QED
      BY <1>3, <1>13, <3>2, <3>3, ConnectedStays
  <2> QED
    BY <2>1, <2>2
<1>18. ToppedUp'
  <2> SUFFICES ASSUME NEW x \in Node, phase' = "done" \/ (phase' = "topup" /\ x < turn')
               PROVE  Enough(x)'
    BY DEF ToppedUp
  <2>1. phase' = "done" /\ ~EnforceHubCap
    BY <1>16 DEF Node
  <2>2. Accepted(x)' = Picked(x)'
    BY <2>1 DEF Accepted, EdgeAllowed
  <2>3. Accepted(x)' \subseteq Peers(x)'
    BY <1>17, <2>1 DEF Connected, Wired
  <2>4. Picked(x)' \subseteq Peers(x)' /\ Peers(x)' \in SUBSET Node
    BY <2>2, <2>3 DEF Peers
  <2>5. Cardinality(Picked(x)') <= Cardinality(Peers(x)')
    BY <2>4, CardinalityGrows
  <2>6. Cardinality(Picked(x)') \in Nat /\ Cardinality(Peers(x)') \in Nat
    BY <2>4, CardinalityNat
  <2> QED
    BY <2>5, <2>6 DEF Enough
<1> QED
  BY <1>8, <1>9, <1>10, <1>11, <1>17, <1>18 DEF IInv

(* The replacements make up for what was rejected, or nobody is left. *)
LEMMA ReplacedEnough ==
  ASSUME IInv, phase = "topup", NEW t \in Node, t = turn,
         NEW S \in PickStrangers(Excluded(t), dropped[t]),
         peers' = peers \cup EdgesTo(t, S), kept' = kept, strange' = strange
  PROVE  Enough(t)'
<1> DEFINE A == Accepted(t)
           P == Picked(t)
<1>1. dropped[t] \in Nat
  BY DEF IInv, TypeOK
<1>2. S \subseteq Node \ Excluded(t)
  BY <1>1, PickStrangersPicks
<1>3. S \in SUBSET Node /\ S \cap Peers(t) = {}
  BY <1>2 DEF Excluded
<1>4. P \in SUBSET Node /\ A \in SUBSET P
  BY DEF IInv, TypeOK, Picked, Accepted
<1>5. A \subseteq Peers(t) /\ dropped[t] = Cardinality(P \ A)
  BY DEF IInv, Connected, Wired
<1>6. S \subseteq Peers(t)' /\ Peers(t) \subseteq Peers(t)'
  BY <1>3, PeersStep
<1>7. P' = P
  BY DEF Picked
<1>8. CASE S = Node \ Excluded(t)
  <2>1. ASSUME NEW y \in Node \ {t} PROVE (y \in Peers(t) \/ ~EdgeAllowed(t, y))'
    <3>1. CASE y \in S
      BY <3>1, <1>6
    <3>2. CASE y \in Peers(t)
      BY <3>2, <1>6
    <3>3. CASE ~EdgeAllowed(t, y)
      BY <3>3 DEF EdgeAllowed, IsHub
    <3> QED
      BY <1>8, <3>1, <3>2, <3>3 DEF Excluded
  <2> QED
    BY <2>1 DEF Enough, Exhausted
<1>9. CASE Cardinality(S) = dropped[t]
  <2>1. A \in SUBSET Node /\ P \ A \in SUBSET Node /\ A \cap (P \ A) = {} /\ A \cup (P \ A) = P
    BY <1>4
  <2>2. Cardinality(P) = Cardinality(A) + Cardinality(P \ A)
    BY <2>1, CardinalityAdds
  <2>3. A \cap S = {}
    BY <1>3, <1>5
  <2>4. Cardinality(A \cup S) = Cardinality(A) + Cardinality(S)
    BY <1>3, <2>1, <2>3, CardinalityAdds
  <2>5. A \cup S \in SUBSET Peers(t)' /\ Peers(t)' \in SUBSET Node
    BY <1>5, <1>6 DEF Peers
  <2>6. Cardinality(A \cup S) <= Cardinality(Peers(t)')
    BY <2>5, CardinalityGrows
  <2>7. Cardinality(P) <= Cardinality(Peers(t)')
    BY <1>5, <1>9, <2>2, <2>4, <2>6
  <2>8. Cardinality(P) \in Nat /\ Cardinality(Peers(t)') \in Nat
    BY <1>4, <2>5, CardinalityNat
  <2> HIDE DEF P
  <2>9. Cardinality(P') <= Cardinality(Peers(t)')
    BY <1>7, <2>7
  <2> QED
    BY <1>7, <2>8, <2>9 DEF Enough, P
<1> QED
  BY <1>1, <1>8, <1>9, PickStrangersCount

LEMMA TopUpStep == IInv /\ TopUp => IInv'
<1> SUFFICES ASSUME IInv, TopUp PROVE IInv'
  OBVIOUS
<1>1. /\ phase = "topup" /\ turn \in Node /\ turn' \in Node
      /\ phase' = "done" \/ (phase' = "topup" /\ turn' = turn + 1)
  BY TurnStep DEF IInv, TopUp, TypeOK
<1>2. PICK S \in PickStrangers(Excluded(turn), dropped[turn]) :
        /\ peers' = peers \cup EdgesTo(turn, S)
        /\ added' = added + Cardinality(S \ Peers(turn))
        /\ replaced' = [replaced EXCEPT ![turn] = S]
  BY DEF TopUp
<1>3. S \subseteq Node \ Excluded(turn)
  BY <1>1, <1>2, PickStrangersPicks DEF IInv, TypeOK
<1>4. S \in SUBSET Node /\ S \ Peers(turn) \in SUBSET Node /\ turn \notin S
  BY <1>3 DEF Excluded
<1>5. \A y \in S : EdgeAllowed(turn, y)
  BY <1>3 DEF Excluded
<1>6. Cardinality(S \ Peers(turn)) \in Nat
  BY <1>4, CardinalityNat
<1>7. /\ \A d \in peers' : \E y, z \in Node : y # z /\ d = {y, z}
      /\ \A y \in Node : \A z \in Peers(y)' :
           z \in Peers(y) \/ (y = turn /\ z \in S) \/ (z = turn /\ y \in S)
  BY <1>1, <1>2, <1>4, EdgesStep DEF IInv
<1>8. UNCHANGED <<kept, strange, dropped, rejected>>
  BY DEF TopUp
<1>9. TypeOK'
  <2>1. replaced' \in [Node -> SUBSET Node]
    BY <1>2, <1>4 DEF IInv, TypeOK
  <2>2. added' \in Nat
    BY <1>2, <1>6 DEF IInv, TypeOK
  <2>3. turn' \in Nat
    BY <1>1 DEF Node
  <2> QED
    BY <1>1, <1>7, <1>8, <2>1, <2>2, <2>3 DEF IInv, TypeOK
<1>10. Picks'
  BY <1>8 DEF IInv, Picks, IsHub
<1>11. InTurn'
  BY <1>1, <1>2 DEF IInv, InTurn, TypeOK, Node
<1>12. replaced[turn] = {}
  BY <1>1 DEF IInv, InTurn, Node
<1>13. InvitedOnly'
  <2> SUFFICES ASSUME EnforceHubCap, NEW h \in Node, IsHub(h), NEW z \in Peers(h)'
               PROVE  z \in kept[h] \cup replaced'[h]
    BY <1>8 DEF InvitedOnly, IsHub
  <2>1. CASE z \in Peers(h)
    <3>1. z \in kept[h] \cup replaced[h]
      BY <2>1 DEF IInv, InvitedOnly
    <3> QED
      BY <3>1, <1>2, <1>12 DEF IInv, TypeOK
  <2>2. CASE h = turn /\ z \in S
    BY <2>2, <1>2 DEF IInv, TypeOK
  <2>3. CASE z = turn /\ h \in S
    BY <2>3, <1>5 DEF EdgeAllowed
  <2> QED
    BY <1>7, <2>1, <2>2, <2>3
<1> PICK t \in Node : t = turn
  BY <1>1
<1>14. peers' = peers \cup EdgesTo(t, S) /\ S \in PickStrangers(Excluded(t), dropped[t])
  BY <1>2
<1>15. \A y \in Node : Peers(y) \subseteq Peers(y)'
  BY <1>4, <1>14, PeersStep
<1>16. kept \in [Node -> SUBSET Node] /\ strange \in [Node -> SUBSET Node]
  BY DEF IInv, TypeOK
<1>17. Connected'
  <2> SUFFICES ASSUME NEW x \in Node
               PROVE  /\ (Accepted(x) \subseteq Peers(x))'
                      /\ (dropped[x] = Cardinality(Picked(x) \ Accepted(x)))'
    BY DEF Connected
  <2>1. Accepted(x) \subseteq Peers(x) /\ dropped[x] = Cardinality(Picked(x) \ Accepted(x))
    BY <1>1 DEF IInv, Connected, Wired
  <2> QED
    BY <1>8, <1>15, <2>1, ConnectedStays
<1>18. ToppedUp'
  <2> SUFFICES ASSUME NEW x \in Node, phase' = "done" \/ (phase' = "topup" /\ x < turn')
               PROVE  Enough(x)'
    BY DEF ToppedUp
  <2>1. CASE x = t
    BY <2>1, <1>1, <1>8, <1>14, ReplacedEnough
  <2>2. CASE x # t
    <3>1. \/ phase' = "done" /\ turn' = 0 /\ turn + 1 = N
          \/ phase' = "topup" /\ turn' = turn + 1
      BY <1>1, TurnStep DEF IInv, TopUp
    <3>2. x < turn
      BY <1>1, <2>2, <3>1 DEF Node
    <3>3. Enough(x)
      BY <1>1, <3>2 DEF IInv, ToppedUp
    <3> QED
      BY <1>8, <1>16, <1>15, <3>3, EnoughStays
  <2> QED
    BY <2>1, <2>2
<1> QED
  BY <1>9, <1>10, <1>11, <1>13, <1>17, <1>18 DEF IInv

----------------------------------------------------------------------------
(* The invariant above holds in every reachable state. *)
THEOREM Invariance == Spec => []IInv
<1>1. Init => IInv
  BY InitHolds
<1>2. ASSUME IInv, UNCHANGED vars PROVE IInv'
  <2>1. /\ phase' = phase /\ turn' = turn /\ kept' = kept /\ strange' = strange
        /\ peers' = peers /\ dropped' = dropped /\ rejected' = rejected
        /\ added' = added /\ replaced' = replaced
    BY <1>2 DEF vars
  <2>2. TypeOK' /\ Picks' /\ InTurn' /\ InvitedOnly'
    BY <1>2, <2>1 DEF IInv, TypeOK, Picks, InTurn, InvitedOnly, IsHub, Peers
  <2>3. ASSUME NEW x \in Node
        PROVE  /\ Picked(x)' = Picked(x) /\ Accepted(x)' = Accepted(x)
               /\ Peers(x)' = Peers(x) /\ (Wired(x)' => Wired(x))
    BY <2>1 DEF Picked, Accepted, EdgeAllowed, IsHub, Peers, Wired
  <2>4. Connected'
    BY <1>2, <2>1, <2>3 DEF IInv, Connected
  <2>5. ASSUME NEW x \in Node, Enough(x) PROVE Enough(x)'
    BY <1>2, <2>1, <2>3, <2>5, EnoughStays DEF IInv, TypeOK
  <2>6. ToppedUp'
    BY <1>2, <2>1, <2>5 DEF IInv, ToppedUp
  <2> QED
    BY <2>2, <2>4, <2>6 DEF IInv
<1>3. IInv /\ [Next]_vars => IInv'
  BY <1>2, PickStep, AddEdgesStep, TopUpStep DEF Next, Done
<1> QED
  BY <1>1, <1>3, PTL DEF Spec

(* Every variable keeps its type, and no edge joins a node with itself. *)
THEOREM TypeCorrect == Spec => []TypeOK
<1>1. IInv => TypeOK
  BY DEF IInv
<1> QED
  BY <1>1, Invariance, PTL

(* With the cap on, whoever is a peer of a hub was kept by it or is a      *)
(* replacement it picked, for every channel graph and every random choice. *)
THEOREM OnlyInvited == Spec => []InvitedOnly
<1>1. IInv => InvitedOnly
  BY DEF IInv
<1> QED
  BY <1>1, Invariance, PTL

----------------------------------------------------------------------------
(* How many a hub keeps, and how many replacements a node may pick. *)
Sizes ==
    /\ \A x \in Node : IsHub(x) => Cardinality(kept[x]) <= MaxPeer[x]
    /\ \A x \in Node : Cardinality(replaced[x]) <= dropped[x]

(* No more strangers are picked than were asked for. *)
LEMMA PickStrangersAtMost ==
  ASSUME NEW ex, NEW n \in Nat, NEW S \in PickStrangers(ex, n)
  PROVE  Cardinality(S) <= n
<1>1. Cardinality(Node \ ex) \in Nat
  BY CardinalityNat
<1>2. Cardinality(S) = IF n < Cardinality(Node \ ex) THEN n ELSE Cardinality(Node \ ex)
  BY DEF PickStrangers, Sized
<1> QED
  BY <1>1, <1>2

(* The sizes do not grow but by a pick and by a replacement. *)
LEMMA SizesStep == IInv /\ Sizes /\ [Next]_vars => Sizes'
<1> SUFFICES ASSUME IInv, Sizes, [Next]_vars PROVE Sizes'
  OBVIOUS
<1> USE PeerAssumption
<1>1. /\ phase # "done" => turn \in Node
      /\ kept \in [Node -> SUBSET Node] /\ replaced \in [Node -> SUBSET Node]
      /\ dropped \in [Node -> Nat]
  BY DEF IInv, TypeOK
<1>2. CASE Pick
  <2>1. PICK S \in Kept(turn) : kept' = [kept EXCEPT ![turn] = S]
    BY <1>2 DEF Pick
  <2>2. turn \in Node /\ UNCHANGED <<dropped, replaced>>
    BY <1>1, <1>2 DEF Pick
  <2>3. IsHub(turn) => Cardinality(S) = MaxPeer[turn]
    BY <2>1 DEF Kept, Sized
  <2>4. ASSUME NEW x \in Node, IsHub(x) PROVE Cardinality(kept'[x]) <= MaxPeer[x]
    <3>1. CASE x = turn
      BY <1>1, <2>1, <2>2, <2>3, <2>4, <3>1
    <3>2. CASE x # turn
      BY <1>1, <2>1, <2>4, <3>2 DEF Sizes
    <3> QED
      BY <3>1, <3>2
  <2> QED
    BY <2>2, <2>4 DEF Sizes, IsHub
<1>3. CASE AddEdges
  <2> DEFINE picks   == kept[turn] \cup strange[turn]
             lost    == Cardinality(picks \ {y \in picks : EdgeAllowed(turn, y)})
  <2>1. /\ phase = "edges" /\ turn \in Node /\ UNCHANGED <<kept, replaced>>
        /\ dropped' = [dropped EXCEPT ![turn] = lost]
    BY <1>1, <1>3 DEF AddEdges
  <2>2. lost \in Nat
    <3>1. picks \ {y \in picks : EdgeAllowed(turn, y)} \in SUBSET Node
      BY <2>1 DEF IInv, TypeOK
    <3> HIDE DEF picks
    <3> QED
      BY <3>1, CardinalityNat
  <2>3. \A x \in Node : Cardinality(replaced[x]) = 0
    BY <2>1, FS_EmptySet DEF IInv, InTurn
  <2> HIDE DEF lost
  <2>4. \A x \in Node : dropped'[x] \in Nat
    BY <1>1, <2>1, <2>2
  <2> QED
    BY <2>1, <2>3, <2>4 DEF Sizes, IsHub
<1>4. CASE TopUp
  <2>1. PICK S \in PickStrangers(Excluded(turn), dropped[turn]) :
          replaced' = [replaced EXCEPT ![turn] = S]
    BY <1>4 DEF TopUp
  <2>2. turn \in Node /\ UNCHANGED <<kept, dropped>>
    BY <1>1, <1>4 DEF TopUp
  <2>3. Cardinality(S) <= dropped[turn]
    BY <1>1, <2>1, <2>2, PickStrangersAtMost
  <2> QED
    BY <1>1, <2>1, <2>2, <2>3 DEF Sizes, IsHub
<1>5. CASE Done \/ UNCHANGED vars
  BY <1>5 DEF Done, vars, Sizes, IsHub
<1> QED
  BY <1>2, <1>3, <1>4, <1>5 DEF Next

(* A hub gets no more peers than its cap and one for each of its picks     *)
(* that was rejected, for every channel graph and every random choice.     *)
THEOREM HubsAreBounded == Spec => []HubBounded
<1>1. Init => Sizes
  <2> SUFFICES ASSUME Init PROVE Sizes
    OBVIOUS
  <2>1. \A x \in Node : kept[x] = {} /\ replaced[x] = {} /\ dropped[x] = 0 /\ MaxPeer[x] \in Nat
    BY PeerAssumption DEF Init
  <2>2. \A x \in Node : Cardinality(kept[x]) = 0 /\ Cardinality(replaced[x]) = 0
    BY <2>1, FS_EmptySet
  <2> QED
    BY <2>1, <2>2 DEF Sizes
<1>2. IInv /\ Sizes /\ [Next]_vars => Sizes'
  BY SizesStep
<1>3. IInv /\ Sizes => HubBounded
  <2> SUFFICES ASSUME IInv, Sizes, EnforceHubCap, NEW h \in Node, IsHub(h)
               PROVE  Cardinality(Peers(h)) <= MaxPeer[h] + dropped[h]
    BY DEF HubBounded
  <2>1. /\ kept[h] \in SUBSET Node /\ replaced[h] \in SUBSET Node
        /\ dropped[h] \in Nat /\ MaxPeer[h] \in Nat
    BY PeerAssumption DEF IInv, TypeOK
  <2>2. Peers(h) \subseteq kept[h] \cup replaced[h]
    BY DEF IInv, InvitedOnly
  <2>3. Cardinality(Peers(h)) <= Cardinality(kept[h] \cup (replaced[h] \ kept[h]))
    <3>1. /\ kept[h] \cup (replaced[h] \ kept[h]) \in SUBSET Node
          /\ Peers(h) \in SUBSET (kept[h] \cup (replaced[h] \ kept[h]))
      BY <2>1, <2>2
    <3> QED
      BY <3>1, CardinalityGrows
  <2>4. Cardinality(kept[h] \cup (replaced[h] \ kept[h]))
          = Cardinality(kept[h]) + Cardinality(replaced[h] \ kept[h])
    BY <2>1, CardinalityAdds
  <2>5. Cardinality(replaced[h] \ kept[h]) <= Cardinality(replaced[h])
    BY <2>1, CardinalityGrows
  <2>6. /\ Cardinality(kept[h]) \in Nat /\ Cardinality(replaced[h]) \in Nat
        /\ Cardinality(replaced[h] \ kept[h]) \in Nat /\ Cardinality(Peers(h)) \in Nat
    <3>1. replaced[h] \ kept[h] \in SUBSET Node /\ Peers(h) \in SUBSET Node
      BY <2>1 DEF Peers
    <3> QED
      BY <2>1, <3>1, CardinalityNat
  <2>7. Cardinality(kept[h]) <= MaxPeer[h] /\ Cardinality(replaced[h]) <= dropped[h]
    BY DEF Sizes
  <2> QED
    BY <2>1, <2>3, <2>4, <2>5, <2>6, <2>7
<1> QED
  BY <1>1, <1>2, <1>3, Invariance, PTL DEF Spec

----------------------------------------------------------------------------
(* Nobody ends with fewer peers than it picked while somebody was left to  *)
(* replace who rejected it, for every channel graph and every choice.      *)
THEOREM DegreesAreKept == Spec => []DegreeKept
<1>1. IInv => DegreeKept
  BY DEF IInv, ToppedUp, Enough, Picked, DegreeKept
<1> QED
  BY <1>1, Invariance, PTL

=============================================================================
