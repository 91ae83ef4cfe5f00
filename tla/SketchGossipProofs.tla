------------------------- MODULE SketchGossipProofs -------------------------
(***************************************************************************)
(* Theorems about SketchGossip, for every set of nodes and keys, every     *)
(* peer graph, every capacity and every length of the run, and about the   *)
(* locks under which a sketch's handler reads the two states (StateLocks), *)
(* for any number of states and threads.                                   *)
(***************************************************************************)
EXTENDS SketchGossip, StateLocks, FiniteSetTheorems, WellFoundedInduction, TLAPS

\* The inductive invariant.  NobodyAhead alone is not inductive: an
\* origination overwrites the entry of the originator, and only because no
\* stored version lies in the future (NoFutureStamp) does that not put some
\* other node ahead.  InventoryAnswerable rests on stores never shrinking.
IInv ==
  /\ TypeOK
  /\ NobodyAhead
  /\ NoFutureStamp
  /\ InventoryAnswerable

-----------------------------------------------------------------------------
(***************************************************************************)
(* The operators on dedup states                                           *)
(***************************************************************************)

\* The empty state is one.
LEMMA NothingType == Nothing \in State
  BY DEF Nothing, State, Version, Absent

\* What a batch carries of a state is a state.
LEMMA SelectType == ASSUME NEW m \in State, NEW S PROVE Select(m, S) \in State
  BY DEF Select, State, Version, Absent

\* Absorbing yields a state that is nowhere older than the one before, and
\* takes every entry from the old state or from the batch.
LEMMA AbsorbFacts ==
  ASSUME NEW m \in State, NEW items \in State
  PROVE  /\ Absorb(m, items) \in State
         /\ \A k \in Key : Absorb(m, items)[k] >= m[k]
         /\ \A k \in Key : Absorb(m, items)[k] # m[k] =>
              Absorb(m, items)[k] = items[k] /\ items[k] > m[k]
  BY DEF Absorb, Supersedes, State, Version, Absent

\* An origination changes the entry of its key, to the current second or to
\* the one version of a channel announcement.
LEMMA StampFacts ==
  ASSUME NEW m \in State, NEW k \in Key, NEW t \in Nat
  PROVE  /\ StampOf(k, t) \in Nat
         /\ StampOf(k, t) <= t
         /\ Stamped(m, k, t) \in State
         /\ Stamped(m, k, t)[k] = StampOf(k, t)
         /\ \A j \in Key : j # k => Stamped(m, k, t)[j] = m[j]
  BY DEF StampOf, Stamped, State, Version

\* compute_diff may read the two states in either order: swapping the
\* arguments, the request and the result leaves the answer unchanged.
THEOREM DiffOrientation ==
  ASSUME NEW x \in State, NEW y \in State, NEW ia \in Nat, NEW ib \in Nat,
         NEW K \in SUBSET Key, NEW which \in Side
  PROVE  ComputeDiff(x, y, ia, ib, K, which) = Diff(x, y, K, which)
<1>1. CASE ia <= ib
  BY <1>1 DEF ComputeDiff
<1>2. CASE ~(ia <= ib)
  <2> DEFINE s == Diff(y, x, K, Invert(which))
             r == Diff(x, y, K, which)
  <2>1. WantA(Invert(which)) = WantB(which) /\ WantB(Invert(which)) = WantA(which)
    BY DEF WantA, WantB, Invert, Side
  <2>2. \A k \in K : x[k] \in Int /\ y[k] \in Int
    BY DEF State, Version, Absent
  <2>3. s.b_only = r.a_only /\ s.a_only = r.b_only
    BY DEF Diff
  <2>4. s.intersection = r.intersection
    BY DEF Diff
  <2>5. s.b_newer = r.a_newer /\ s.a_newer = r.b_newer
    BY <2>1 DEF Diff
  <2>6. Reorient(s) = r
    BY <2>3, <2>4, <2>5 DEF Reorient, Diff
  <2> QED
    BY <1>2, <2>6 DEF ComputeDiff
<1> QED
  BY <1>1, <1>2

\* The entries of one kind are keys.
LEMMA KeysType == ASSUME NEW kind PROVE KeysOf(kind) \in SUBSET Key
  BY DEF KeysOf

\* Every key has an originator, and it is a node.
LEMMA OriginIsNode == ASSUME NEW k \in Key PROVE Origins[k] # {} /\ Origins[k] \subseteq Node
  BY KeyAssumption

-----------------------------------------------------------------------------

\* What handle_sketch reads off the difference: the reply carries entries of
\* the receiver, the request names entries the sender has.
LEMMA SketchDiffFacts ==
  ASSUME TypeOK, NEW i \in Node, NEW j \in Node, NEW kind \in Kind
  PROVE  LET d == SketchDiff(i, j, kind)
         IN  /\ d.b_newer \in State
             /\ d.a_newer \in State
             /\ \A k \in Key : d.b_newer[k] # Absent =>
                  d.b_newer[k] = store[j][k] /\ store[j][k] > store[i][k]
             /\ \A k \in Key : d.a_newer[k] # Absent => store[i][k] # Absent
             /\ \A k \in Key : d.b_newer[k] # Absent => k \in d.b_only
             /\ d.a_only \in SUBSET Key /\ d.b_only \in SUBSET Key
<1> DEFINE which == IF FullReconciliation THEN "Both" ELSE "B"
           d == SketchDiff(i, j, kind)
           e == Diff(store[i], store[j], KeysOf(kind), which)
<1>1. store[i] \in State /\ store[j] \in State
  BY DEF TypeOK
<1>2. which \in Side /\ Idx[i] \in Nat /\ Idx[j] \in Nat
  BY KeyAssumption DEF Side
<1>3. d = e
  BY <1>1, <1>2, KeysType, DiffOrientation DEF SketchDiff
<1>4. /\ e.b_newer = IF WantB(which)
                     THEN Select(store[j], {k \in KeysOf(kind) : store[j][k] > store[i][k]})
                     ELSE Nothing
      /\ e.a_newer = IF WantA(which)
                     THEN Select(store[i], {k \in KeysOf(kind) : store[i][k] > store[j][k]})
                     ELSE Nothing
  BY DEF Diff
<1> HIDE DEF e
<1>5. e.b_newer \in State /\ e.a_newer \in State
  BY <1>1, <1>4, NothingType, SelectType
<1>6. ASSUME NEW k \in Key, e.b_newer[k] # Absent
      PROVE  e.b_newer[k] = store[j][k] /\ store[j][k] > store[i][k]
  BY <1>4, <1>6 DEF Select, Nothing
<1>7. ASSUME NEW k \in Key, e.a_newer[k] # Absent
      PROVE  store[i][k] # Absent
  BY <1>4, <1>7 DEF Select, Nothing
<1>8. /\ e.b_only = {k \in KeysOf(kind) : store[j][k] # Absent /\ store[i][k] # store[j][k]}
      /\ e.a_only = {k \in KeysOf(kind) : store[i][k] # Absent /\ store[i][k] # store[j][k]}
  BY DEF Diff, e
<1>9. e.a_only \in SUBSET Key /\ e.b_only \in SUBSET Key
  BY <1>8, KeysType
<1>10. ASSUME NEW k \in Key, e.b_newer[k] # Absent PROVE k \in e.b_only
  <2>1. e.b_newer[k] = store[j][k] /\ store[j][k] > store[i][k]
    BY <1>10, <1>6
  <2>2. store[j][k] \in Version /\ store[i][k] \in Version
    BY <1>1 DEF State
  <2>3. k \in KeysOf(kind)
    BY <1>4, <1>10 DEF Select, Nothing
  <2> QED
    BY <2>1, <2>2, <2>3, <1>10, <1>8 DEF Version, Absent
<1> QED
  BY <1>3, <1>5, <1>6, <1>7, <1>9, <1>10

-----------------------------------------------------------------------------
(***************************************************************************)
(* Facts about Issued                                                      *)
(***************************************************************************)

\* What a node stores is a state, and an entry of it a version.
LEMMA StoreType ==
  ASSUME TypeOK, NEW n \in Node, NEW k \in Key
  PROVE  store[n] \in State /\ store[n][k] \in Version
  BY DEF TypeOK, State

\* Having nothing is never being ahead.
LEMMA AbsentIsIssued == ASSUME TypeOK, NEW k \in Key PROVE Issued(k, Absent)
<1>1. PICK o \in Origins[k] : o \in Node
  BY OriginIsNode
<1> QED
  BY <1>1, StoreType DEF Issued, Version, Absent

\* Whatever is issued is at most the current second.
LEMMA IssuedIsPast ==
  ASSUME TypeOK, NoFutureStamp, NEW k \in Key, NEW v \in Version, Issued(k, v)
  PROVE  v <= now
<1>1. PICK o \in Origins[k] : v <= store[o][k]
  BY DEF Issued
<1>2. o \in Node
  BY <1>1, OriginIsNode
<1> QED
  BY <1>1, <1>2, StoreType DEF NoFutureStamp, TypeOK, Version, Absent

\* What is issued stays issued while no store regresses.
LEMMA IssuedStays ==
  ASSUME TypeOK, TypeOK',
         \A n \in Node, k \in Key : store'[n][k] >= store[n][k],
         NEW k \in Key, NEW v \in Version, Issued(k, v)
  PROVE  Issued(k, v)'
<1>1. PICK o \in Origins[k] : v <= store[o][k]
  BY DEF Issued
<1>2. o \in Node
  BY <1>1, OriginIsNode
<1>3. v <= store'[o][k]
  BY <1>1, <1>2, StoreType DEF TypeOK, State, Version, Absent
<1> QED
  BY <1>1, <1>3 DEF Issued

-----------------------------------------------------------------------------
(***************************************************************************)
(* Type correctness                                                        *)
(***************************************************************************)

\* The initial state is well typed.
LEMMA TypeInit == Init => TypeOK
  BY NothingType DEF Init, TypeOK

\* A batch sent to a node is a gossip message.
LEMMA GossipType ==
  ASSUME NEW n \in Node, NEW items \in State PROVE Gossip(n, items) \in GossipMsg
  BY DEF Gossip, GossipMsg

\* Every step keeps the state well typed.
LEMMA TypeStep == TypeOK /\ [Next]_vars => TypeOK'
<1> SUFFICES ASSUME TypeOK, [Next]_vars PROVE TypeOK'
  OBVIOUS
<1>1. ASSUME NEW n \in Node, NEW k \in Key, Originate(n, k) PROVE TypeOK'
  <2>1. StampOf(k, now) \in Nat /\ Stamped(store[n], k, now) \in State
    BY StampFacts, StoreType DEF TypeOK
  <2>2. [Nothing EXCEPT ![k] = StampOf(k, now)] \in State
    BY <2>1, NothingType DEF State, Version
  <2>3. \A p \in Peers[n] : p \in Node
    BY SketchAssumption
  <2>4. msgs' \subseteq msgs \cup GossipMsg
    BY <1>1, <2>2, <2>3, GossipType DEF Originate
  <2> QED
    BY <1>1, <2>1, <2>4 DEF Originate, TypeOK
<1>2. ASSUME NEW n \in Node, NEW p \in Node, Tick(n, p) PROVE TypeOK'
  <2>1. \A kind \in Kind : Sketch(n, p, kind) \in SketchMsg
    BY DEF Sketch, SketchMsg
  <2> QED
    BY <1>2, <2>1 DEF Tick, TypeOK
<1>3. ASSUME NEW m \in msgs, RecvGossip(m) PROVE TypeOK'
  <2>1. m \in GossipMsg
    BY <1>3 DEF RecvGossip, TypeOK, SketchMsg, InventoryMsg
  <2>2. m.to \in Node /\ m.items \in State
    BY <2>1 DEF GossipMsg
  <2>3. Absorb(store[m.to], m.items) \in State
    BY <2>2, AbsorbFacts, StoreType DEF TypeOK
  <2> QED
    BY <1>3, <2>3 DEF RecvGossip, TypeOK
<1>4. ASSUME NEW m \in msgs, RecvDelayed(m) PROVE TypeOK'
  BY <1>4 DEF RecvDelayed, TypeOK, GossipMsg
<1>5. ASSUME NEW m \in scheduled, HandleSketch(m) PROVE TypeOK'
  <2> DEFINE d == SketchDiff(m.from, m.to, m.kind)
  <2>1. m \in SketchMsg
    BY <1>5 DEF HandleSketch, TypeOK, InventoryMsg
  <2>2. m.from \in Node /\ m.to \in Node /\ m.kind \in Kind
    BY <2>1 DEF SketchMsg
  <2>3. d.b_newer \in State
    BY <2>2, SketchDiffFacts
  <2>4. Reply(m, d) \subseteq GossipMsg
    BY <2>2, <2>3, GossipType DEF Reply
  <2>5. FollowUp(m, d) \subseteq InventoryMsg
    BY <2>2 DEF FollowUp, Inventory, InventoryMsg
  <2> HIDE DEF d
  <2>6. msgs' \subseteq msgs \cup Reply(m, d) \cup FollowUp(m, d)
    BY <1>5 DEF HandleSketch, d
  <2> QED
    BY <1>5, <2>4, <2>5, <2>6 DEF HandleSketch, TypeOK
<1>6. ASSUME NEW m \in scheduled, HandleInventory(m) PROVE TypeOK'
  <2>1. m \in InventoryMsg
    BY <1>6 DEF HandleInventory, TypeOK, SketchMsg
  <2>2. m.from \in Node /\ m.to \in Node
    BY <2>1 DEF InventoryMsg
  <2>3. Select(store[m.to], m.keys) \in State
    BY <2>2, SelectType DEF TypeOK
  <2>4. Gossip(m.from, Select(store[m.to], m.keys)) \in GossipMsg
    BY <2>2, <2>3, GossipType
  <2> QED
    BY <1>6, <2>4 DEF HandleInventory, TypeOK
<1>7. CASE Elapse
  BY <1>7 DEF Elapse, TypeOK
<1>8. CASE UNCHANGED vars
  BY <1>8 DEF vars, TypeOK
<1> QED
  BY <1>1, <1>2, <1>3, <1>4, <1>5, <1>6, <1>7, <1>8 DEF Next

\* Every reachable state is well typed.
THEOREM TypeCorrect == Spec => []TypeOK
  BY TypeInit, TypeStep, PTL DEF Spec

-----------------------------------------------------------------------------
(***************************************************************************)
(* The safety invariants                                                   *)
(***************************************************************************)

\* A step that changes no store keeps what is issued.
LEMMA IssuedUnchanged ==
  ASSUME store' = store, NEW k, NEW v, Issued(k, v) PROVE Issued(k, v)'
  BY DEF Issued

\* The inductive invariant holds initially: nothing is stored or in flight.
LEMMA InvInit == Init => IInv
<1> SUFFICES ASSUME Init PROVE IInv
  OBVIOUS
<1>1. TypeOK
  BY TypeInit
<1>2. \A n \in Node, k \in Key : store[n][k] = Absent
  BY DEF Init, Nothing
<1>3. NobodyAhead
  BY <1>1, <1>2, AbsentIsIssued DEF NobodyAhead, Init
<1>4. NoFutureStamp
  BY <1>2 DEF NoFutureStamp, Init, Absent
<1>5. InventoryAnswerable
  BY DEF InventoryAnswerable, Init
<1> QED
  BY <1>1, <1>3, <1>4, <1>5 DEF IInv

\* Originating: the new version is the current second, which no stored
\* version exceeds, so the originator's entry does not fall back.
LEMMA OriginateFacts ==
  ASSUME IInv, NEW n \in Node, NEW k \in Key, Originate(n, k)
  PROVE  /\ StampOf(k, now) >= store[n][k]
         /\ store'[n][k] = StampOf(k, now)
         /\ \A j \in Key : j # k => store'[n][j] = store[n][j]
         /\ \A m \in Node \ {n} : store'[m] = store[m]
<1>1. store[n] \in State /\ store[n][k] \in Version /\ now \in Nat
  BY StoreType DEF IInv, TypeOK
<1>2. store' = [store EXCEPT ![n] = Stamped(store[n], k, now)]
  BY DEF Originate
<1>3. StampOf(k, now) >= store[n][k]
  <2>1. CASE KindOf[k] = "ChanAnns"
    <3>1. store[n][k] = Absent
      BY <2>1 DEF Originate, MayStamp
    <3> QED
      BY <1>1, <3>1, StampFacts DEF Absent
  <2>2. CASE KindOf[k] # "ChanAnns"
    BY <1>1, <2>2 DEF StampOf, IInv, NoFutureStamp, Version, Absent
  <2> QED
    BY <2>1, <2>2
<1>4. store'[n] = Stamped(store[n], k, now) /\ \A m \in Node \ {n} : store'[m] = store[m]
  BY <1>2 DEF IInv, TypeOK
<1>5. /\ Stamped(store[n], k, now)[k] = StampOf(k, now)
      /\ \A j \in Key : j # k => Stamped(store[n], k, now)[j] = store[n][j]
  BY <1>1, StampFacts
<1> QED
  BY <1>3, <1>4, <1>5

\* No store falls back, in any step.
LEMMA GrowthStep ==
  ASSUME IInv, [Next]_vars, NEW n \in Node, NEW k \in Key
  PROVE  store'[n][k] >= store[n][k]
<1> USE DEF IInv
<1>1. store[n][k] \in Version /\ store \in [Node -> State]
  BY StoreType DEF TypeOK
<1>2. ASSUME store' = store PROVE store'[n][k] >= store[n][k]
  BY <1>1, <1>2 DEF Version, Absent
<1>3. ASSUME NEW o \in Node, NEW j \in Key, Originate(o, j)
      PROVE  store'[n][k] >= store[n][k]
  BY <1>1, <1>3, OriginateFacts DEF Version, Absent
<1>4. ASSUME NEW m \in msgs, RecvGossip(m) PROVE store'[n][k] >= store[n][k]
  <2>1. m \in GossipMsg
    BY <1>4 DEF RecvGossip, TypeOK, SketchMsg, InventoryMsg
  <2>2. m.to \in Node /\ m.items \in State /\ store[m.to] \in State
    BY <2>1, <1>1 DEF GossipMsg
  <2>3. CASE n = m.to
    BY <1>1, <1>4, <2>2, <2>3, AbsorbFacts DEF RecvGossip
  <2>4. CASE n # m.to
    BY <1>1, <1>4, <2>4 DEF RecvGossip, Version, Absent
  <2> QED
    BY <2>3, <2>4
<1> QED
  BY <1>2, <1>3, <1>4
     DEF Next, vars, Tick, RecvDelayed, HandleSketch, HandleInventory, Elapse

\* In every step the gossip put in flight is issued.
LEMMA NewGossipIssued ==
  ASSUME IInv, [Next]_vars, TypeOK',
         NEW g \in msgs' \ msgs, g.type = "gossip", NEW k \in Key
  PROVE  Issued(k, g.items[k])'
<1> USE DEF IInv
<1>0. \A m \in Node, j \in Key : store'[m][j] >= store[m][j]
  BY GrowthStep
<1>1. ASSUME NEW n \in Node, NEW j \in Key, Originate(n, j)
      PROVE  Issued(k, g.items[k])'
  <2>1. g.items = [Nothing EXCEPT ![j] = StampOf(j, now)]
    BY <1>1 DEF Originate, Gossip
  <2>2. CASE k = j
    <3>1. g.items[k] = StampOf(j, now)
      BY <2>1, <2>2 DEF Nothing
    <3>2. store'[n][j] = StampOf(j, now) /\ n \in Origins[k]
      BY <1>1, <2>2, OriginateFacts DEF Originate
    <3>3. StampOf(j, now) \in Nat
      BY StampFacts, StoreType DEF TypeOK
    <3> QED
      BY <2>2, <3>1, <3>2, <3>3 DEF Issued
  <2>3. CASE k # j
    <3>1. g.items[k] = Absent
      BY <2>1, <2>3 DEF Nothing
    <3> QED
      BY <3>1, <1>0, AbsentIsIssued, IssuedStays DEF Version
  <2> QED
    BY <2>2, <2>3
<1>2. ASSUME NEW m \in scheduled, HandleSketch(m) PROVE Issued(k, g.items[k])'
  <2> DEFINE d == SketchDiff(m.from, m.to, m.kind)
  <2>1. m \in SketchMsg
    BY <1>2 DEF HandleSketch, TypeOK, InventoryMsg
  <2>2. m.from \in Node /\ m.to \in Node /\ m.kind \in Kind
    BY <2>1 DEF SketchMsg
  <2>3. g.items = d.b_newer
    BY <1>2 DEF HandleSketch, Reply, FollowUp, Gossip, Inventory
  <2>4. d.b_newer[k] # Absent => d.b_newer[k] = store[m.to][k]
    BY <2>2, SketchDiffFacts
  <2> HIDE DEF d
  <2>5. Issued(k, g.items[k])
    BY <2>2, <2>3, <2>4, AbsentIsIssued DEF NobodyAhead
  <2> QED
    BY <1>2, <2>5, IssuedUnchanged DEF HandleSketch
<1>3. ASSUME NEW m \in scheduled, HandleInventory(m) PROVE Issued(k, g.items[k])'
  <2>1. m \in InventoryMsg
    BY <1>3 DEF HandleInventory, TypeOK, SketchMsg
  <2>2. m.to \in Node
    BY <2>1 DEF InventoryMsg
  <2>3. g.items = Select(store[m.to], m.keys)
    BY <1>3 DEF HandleInventory, Gossip
  <2>4. g.items[k] = store[m.to][k] \/ g.items[k] = Absent
    BY <2>3 DEF Select
  <2>5. Issued(k, g.items[k])
    BY <2>2, <2>4, AbsentIsIssued DEF NobodyAhead
  <2> QED
    BY <1>3, <2>5, IssuedUnchanged DEF HandleInventory
<1>4. ASSUME NEW n \in Node, NEW p \in Node, Tick(n, p) PROVE FALSE
  BY <1>4 DEF Tick, Sketch
<1>5. ASSUME msgs' \subseteq msgs PROVE FALSE
  BY <1>5
<1> QED
  BY <1>1, <1>2, <1>3, <1>4, <1>5 DEF Next, vars, RecvGossip, RecvDelayed, Elapse

\* Every step preserves the inductive invariant.
LEMMA InvStep == IInv /\ [Next]_vars => IInv'
<1> SUFFICES ASSUME IInv, [Next]_vars PROVE IInv'
  OBVIOUS
<1>0. TypeOK'
  BY TypeStep DEF IInv
<1>1. \A n \in Node, k \in Key : store'[n][k] >= store[n][k]
  BY GrowthStep
<1>2. \A m \in msgs : m.type = "gossip" => m.items \in State
  BY DEF IInv, TypeOK, GossipMsg, SketchMsg, InventoryMsg
<1>3. \A m \in msgs', k \in Key : m.type = "gossip" => Issued(k, m.items[k])'
  <2> SUFFICES ASSUME NEW m \in msgs', NEW k \in Key, m.type = "gossip"
               PROVE  Issued(k, m.items[k])'
    OBVIOUS
  <2>1. CASE m \in msgs
    <3>1. m.items[k] \in Version /\ Issued(k, m.items[k])
      BY <1>2, <2>1 DEF IInv, NobodyAhead, State
    <3> QED
      BY <1>0, <1>1, <3>1, IssuedStays DEF IInv
  <2>2. CASE m \notin msgs
    BY <1>0, <2>2, NewGossipIssued
  <2> QED
    BY <2>1, <2>2
<1>4. ASSUME NEW n \in Node, NEW k \in Key PROVE Issued(k, store[n][k])'
  <2>1. store[n][k] \in Version /\ Issued(k, store[n][k])
    BY StoreType DEF IInv, NobodyAhead
  <2>2. CASE store'[n][k] = store[n][k]
    BY <1>0, <1>1, <2>1, <2>2, IssuedStays DEF IInv
  <2>3. ASSUME NEW o \in Node, NEW j \in Key, Originate(o, j), store'[n][k] # store[n][k]
        PROVE  Issued(k, store[n][k])'
    <3>1. n = o /\ k = j
      BY <2>3, OriginateFacts
    <3>2. n \in Origins[k]
      BY <2>3, <3>1 DEF Originate
    <3>3. store'[n][k] \in Version
      BY <1>0 DEF TypeOK, State
    <3> QED
      BY <3>2, <3>3 DEF Issued, Version, Absent
  <2>4. ASSUME NEW m \in msgs, RecvGossip(m), store'[n][k] # store[n][k]
        PROVE  Issued(k, store[n][k])'
    <3>1. m.type = "gossip" /\ m.items \in State /\ store \in [Node -> State]
      BY <1>2, <2>4 DEF RecvGossip, IInv, TypeOK
    <3>2. n = m.to /\ store'[n] = Absorb(store[n], m.items)
      BY <2>4, <3>1 DEF RecvGossip
    <3>3. store'[n][k] = m.items[k]
      BY <2>4, <3>1, <3>2, AbsorbFacts
    <3>4. m.items[k] \in Version /\ Issued(k, m.items[k])
      BY <3>1 DEF IInv, NobodyAhead, State
    <3> QED
      BY <1>0, <1>1, <3>3, <3>4, IssuedStays DEF IInv
  <2> QED
    BY <2>2, <2>3, <2>4
       DEF Next, vars, Tick, RecvDelayed, HandleSketch, HandleInventory, Elapse
<1>5. NobodyAhead'
  BY <1>3, <1>4 DEF NobodyAhead
<1>6. NoFutureStamp'
  <2>1. CASE store' = store /\ now' >= now
    <3>1. ASSUME NEW n \in Node, NEW k \in Key PROVE store[n][k] <= now'
      BY <2>1, <1>0, StoreType DEF IInv, NoFutureStamp, TypeOK, Version, Absent
    <3> QED
      BY <2>1, <3>1 DEF NoFutureStamp
  <2>2. ASSUME NEW n \in Node, NEW k \in Key, Originate(n, k) PROVE NoFutureStamp'
    <3>1. now' = now /\ StampOf(k, now) <= now
      BY <2>2, StampFacts, StoreType DEF Originate, IInv, TypeOK
    <3>2. \A m \in Node, j \in Key :
            store'[m][j] = store[m][j] \/ store'[m][j] = StampOf(k, now)
      BY <2>2, OriginateFacts
    <3> QED
      BY <3>1, <3>2 DEF NoFutureStamp, IInv
  <2>3. ASSUME NEW m \in msgs, RecvGossip(m) PROVE NoFutureStamp'
    <3>1. m.type = "gossip" /\ m.items \in State /\ store \in [Node -> State]
      BY <1>2, <2>3 DEF RecvGossip, IInv, TypeOK
    <3>2. \A k \in Key : m.items[k] <= now
      BY <3>1, IssuedIsPast DEF IInv, NobodyAhead, State
    <3>3. \A n \in Node, k \in Key :
            store'[n][k] = store[n][k] \/ store'[n][k] = m.items[k]
      BY <2>3, <3>1, AbsorbFacts DEF RecvGossip
    <3>4. now' = now
      BY <2>3 DEF RecvGossip
    <3> QED
      BY <3>2, <3>3, <3>4 DEF NoFutureStamp, IInv
  <2>4. now \in Nat
    BY DEF IInv, TypeOK
  <2> QED
    BY <2>1, <2>2, <2>3, <2>4
       DEF Next, vars, Tick, RecvDelayed, HandleSketch, HandleInventory, Elapse
<1>7. InventoryAnswerable'
  <2> DEFINE Answerable(m) == m.keys # {} /\ \A k \in m.keys : store[m.to][k] # Absent
  <2>1. ASSUME NEW m \in msgs \cup scheduled, m.type = "inventory"
        PROVE  Answerable(m)'
    <3>1. m \in InventoryMsg
      BY <2>1 DEF IInv, TypeOK, GossipMsg, SketchMsg
    <3>2. m.to \in Node /\ m.keys \subseteq Key
      BY <3>1 DEF InventoryMsg
    <3>3. Answerable(m)
      BY <2>1 DEF IInv, InventoryAnswerable
    <3>4. ASSUME NEW k \in m.keys PROVE store'[m.to][k] # Absent
      <4>1. store[m.to][k] # Absent /\ store[m.to][k] \in Version
        BY <3>2, <3>3, StoreType DEF IInv
      <4>2. store'[m.to][k] >= store[m.to][k] /\ store'[m.to][k] \in Version
        BY <1>0, <1>1, <3>2, StoreType DEF TypeOK, State
      <4> QED
        BY <4>1, <4>2 DEF Version, Absent
    <3> QED
      BY <3>3, <3>4
  <2>2. ASSUME NEW h \in scheduled, HandleSketch(h),
               NEW m \in msgs' \ msgs, m.type = "inventory"
        PROVE  Answerable(m)'
    <3> DEFINE d == SketchDiff(h.from, h.to, h.kind)
    <3>1. h \in SketchMsg
      BY <2>2 DEF HandleSketch, IInv, TypeOK, InventoryMsg
    <3>2. h.from \in Node /\ h.to \in Node /\ h.kind \in Kind
      BY <3>1 DEF SketchMsg
    <3>3. /\ d.a_newer \in State
          /\ \A k \in Key : d.a_newer[k] # Absent => store[h.from][k] # Absent
      BY <3>2, SketchDiffFacts DEF IInv
    <3> HIDE DEF d
    <3>4. m \in FollowUp(h, d)
      BY <2>2 DEF HandleSketch, Reply, Gossip, d
    <3>5. /\ m.to = h.from
          /\ m.keys = {k \in Key : d.a_newer[k] # Absent}
          /\ d.a_newer # Nothing
      BY <3>4 DEF FollowUp, Inventory
    <3>6. m.keys # {}
      BY <3>3, <3>5 DEF Nothing, State
    <3> QED
      BY <2>2, <3>3, <3>5, <3>6 DEF HandleSketch
  <2>3. ASSUME NEW m \in msgs' \cup scheduled', m.type = "inventory",
               m \notin msgs \cup scheduled
        PROVE  Answerable(m)'
    <3>1. m \in msgs' \ msgs
      BY <2>3 DEF Next, vars, Originate, Tick, RecvGossip, RecvDelayed,
                  HandleSketch, HandleInventory, Elapse
    <3>2. PICK h \in scheduled : HandleSketch(h)
      BY <2>3, <3>1 DEF Next, vars, Originate, Tick, RecvGossip, RecvDelayed,
                        HandleInventory, Elapse, Gossip, Sketch
    <3> QED
      BY <2>2, <2>3, <3>1, <3>2
  <2> QED
    BY <2>1, <2>3 DEF InventoryAnswerable
<1> QED
  BY <1>0, <1>5, <1>6, <1>7 DEF IInv

\* The inductive invariant holds in every reachable state.
THEOREM Invariance == Spec => []IInv
  BY InvInit, InvStep, PTL DEF Spec

\* No node and no message is ahead of the originators of a key.
THEOREM NobodyIsAhead == Spec => []NobodyAhead
<1>1. IInv => NobodyAhead
  BY DEF IInv
<1> QED
  BY <1>1, Invariance, PTL

\* No stored version lies in the future.
THEOREM StampsArePast == Spec => []NoFutureStamp
<1>1. IInv => NoFutureStamp
  BY DEF IInv
<1> QED
  BY <1>1, Invariance, PTL

\* A node finds every key an inventory asks it for.
THEOREM InventoriesAreAnswered == Spec => []InventoryAnswerable
<1>1. IInv => InventoryAnswerable
  BY DEF IInv
<1> QED
  BY <1>1, Invariance, PTL

\* No step makes a node fall back to an older version.
THEOREM StoresGrow == Spec => NeverRegress
<1>1. IInv /\ [Next]_vars => [\A n \in Node, k \in Key : store'[n][k] >= store[n][k]]_vars
  BY GrowthStep
<1> QED
  BY <1>1, Invariance, PTL DEF Spec, NeverRegress

-----------------------------------------------------------------------------
(***************************************************************************)
(* What a sketch is answered with                                          *)
(***************************************************************************)

\* A sketch that overflows is not answered; of the two halves of the others
\* only the receiver's goes into the answer, so it fits the capacity.
LEMMA AnswerFits ==
  ASSUME TypeOK, NEW i \in Node, NEW j \in Node, NEW kind \in Kind,
         ~Overflows(SketchDiff(i, j, kind), kind)
  PROVE  Cardinality({k \in Key : SketchDiff(i, j, kind).b_newer[k] # Absent}) <= Capacity[kind]
<1> DEFINE d == SketchDiff(i, j, kind)
           sent == {k \in Key : d.b_newer[k] # Absent}
<1>1. sent \subseteq d.b_only /\ d.a_only \subseteq Key /\ d.b_only \subseteq Key
  BY SketchDiffFacts
<1>2. IsFiniteSet(Key)
  BY KeyAssumption
<1>3. IsFiniteSet(d.a_only) /\ IsFiniteSet(d.b_only)
  BY <1>1, <1>2, FS_Subset
<1>4. Cardinality(d.a_only) \in Nat /\ Cardinality(d.b_only) \in Nat
  BY <1>3, FS_CardinalityType
<1>5. Cardinality(sent) <= Cardinality(d.b_only) /\ Cardinality(sent) \in Nat
  <2>1. IsFiniteSet(sent) /\ Cardinality(sent) <= Cardinality(d.b_only)
    BY <1>1, <1>3, FS_Subset
  <2> QED
    BY <2>1, FS_CardinalityType
<1>6. ~(Cardinality(d.a_only) + Cardinality(d.b_only) > Capacity[kind])
  BY DEF Overflows, TotalDiff
<1>7. Capacity[kind] \in Nat
  BY SketchAssumption
<1> HIDE DEF d, sent
<1>8. Cardinality(sent) <= Capacity[kind]
  BY <1>4, <1>5, <1>6, <1>7
<1> QED
  BY <1>8 DEF sent, d

\* The gossip that handling a sketch adds to the mailboxes is its reply.
LEMMA AnswerStep ==
  ASSUME TypeOK, NEW m \in scheduled, HandleSketch(m),
         NEW g \in msgs' \ msgs, g.type = "gossip"
  PROVE  IsNews(m, g)
<1> DEFINE d == SketchDiff(m.from, m.to, m.kind)
<1>1. m \in SketchMsg
  BY DEF HandleSketch, TypeOK, SketchMsg, InventoryMsg
<1>2. m.from \in Node /\ m.to \in Node /\ m.kind \in Kind
  BY <1>1 DEF SketchMsg
<1>3. ~Overflows(d, m.kind) /\ g \in Reply(m, d) \cup FollowUp(m, d)
  BY DEF HandleSketch
<1>4. g = Gossip(m.from, d.b_newer)
  <2>1. g \notin FollowUp(m, d)
    BY DEF FollowUp, Inventory
  <2> QED
    BY <2>1, <1>3 DEF Reply
<1>5. g.to = m.from /\ g.items = d.b_newer
  BY <1>4 DEF Gossip
<1>6. \A k \in Key : d.b_newer[k] # Absent => d.b_newer[k] > store[m.from][k]
  BY <1>2, SketchDiffFacts
<1>7. Cardinality({k \in Key : d.b_newer[k] # Absent}) <= Capacity[m.kind]
  BY <1>2, <1>3, AnswerFits
<1> QED
  BY <1>5, <1>6, <1>7 DEF IsNews

\* Whatever a sketch is answered with is newer than what its sender has when
\* the sketch is handled, and is no more than the sketch has room for.
THEOREM OnlyNewsIsSent == Spec => AnswersAreNews
<1>1. TypeOK /\ [Next]_vars =>
        [\A m \in scheduled : HandleSketch(m) =>
           \A g \in msgs' \ msgs : g.type = "gossip" => IsNews(m, g)]_vars
  BY AnswerStep
<1> QED
  BY <1>1, TypeCorrect, PTL DEF Spec, AnswersAreNews

-----------------------------------------------------------------------------
(***************************************************************************)
(* Refinement: an origination is a Publish, the delivery of a batch is a   *)
(* Learn, time passes in both, and everything else only moves messages.    *)
(***************************************************************************)

\* Nothing stored is also the initial state of the abstract specification.
LEMMA PromiseInit == Init => Promise!Init
  BY DEF Init, Promise!Init, Nothing, Promise!Nothing, Absent, Promise!Absent

\* An origination publishes: the stamp is not older than the stored version.
LEMMA OriginatePublishes ==
  ASSUME IInv, NEW n \in Node, NEW k \in Key, Originate(n, k)
  PROVE  Promise!Publish(n, k)
<1>1. StampOf(k, now) >= store[n][k]
  BY OriginateFacts
<1>2. StampOf(k, now) = Promise!StampOf(k, now)
  BY DEF StampOf, Promise!StampOf
<1>3. Stamped(store[n], k, now) = Promise!Stamped(store[n], k, now)
  BY <1>2 DEF Stamped, Promise!Stamped
<1> QED
  BY <1>1, <1>2, <1>3 DEF Originate, Promise!Publish

\* The delivery of a batch makes the receiver learn issued, newer versions.
LEMMA RecvLearns ==
  ASSUME IInv, IInv', NEW m \in msgs, RecvGossip(m)
  PROVE  Promise!Learn(m.to)
<1> DEFINE s == Absorb(store[m.to], m.items)
<1>1. /\ m \in GossipMsg
      /\ now' = now
      /\ store' = [store EXCEPT ![m.to] = s]
  BY DEF RecvGossip, IInv, TypeOK, SketchMsg, InventoryMsg
<1>2. /\ m.to \in Node
      /\ m.items \in State
      /\ store \in [Node -> State]
  BY <1>1 DEF GossipMsg, IInv, TypeOK
<1>3. /\ s \in State
      /\ \A k \in Key : s[k] # store[m.to][k] =>
           s[k] = m.items[k] /\ m.items[k] > store[m.to][k]
  BY <1>2, AbsorbFacts
<1> HIDE DEF s
<1>4. store'[m.to] = s
  BY <1>1, <1>2
<1>5. \A k \in Key : s[k] <= now
  BY <1>1, <1>2, <1>4 DEF IInv, NoFutureStamp
<1>6. s \in [Key -> Promise!Past]
  BY <1>3, <1>5 DEF State, Version, Absent, Promise!Past, Promise!Absent, IInv, TypeOK
<1>7. \A k \in Key : Promise!Issued(k, m.items[k])
  BY <1>1 DEF IInv, NobodyAhead, Issued, Promise!Issued, RecvGossip
<1> QED
  BY <1>1, <1>3, <1>6, <1>7 DEF Promise!Learn

\* Every step is a step of the abstract specification or changes neither the
\* stores nor the time.
LEMMA PromiseStep == IInv /\ IInv' /\ [Next]_vars => [Promise!Next]_(Promise!vars)
<1> SUFFICES ASSUME IInv, IInv', [Next]_vars PROVE [Promise!Next]_(Promise!vars)
  OBVIOUS
<1>1. ASSUME NEW n \in Node, NEW k \in Key, Originate(n, k)
      PROVE  Promise!Next
  BY <1>1, OriginatePublishes DEF Promise!Next
<1>2. ASSUME NEW m \in msgs, RecvGossip(m) PROVE Promise!Next
  <2>1. m.to \in Node
    BY <1>2 DEF RecvGossip, IInv, TypeOK, GossipMsg, SketchMsg, InventoryMsg
  <2> QED
    BY <1>2, <2>1, RecvLearns DEF Promise!Next
<1>3. CASE Elapse
  BY <1>3 DEF Elapse, Promise!Elapse, Promise!Next
<1>4. CASE UNCHANGED <<store, now>>
  BY <1>4 DEF Promise!vars
<1> QED
  BY <1>1, <1>2, <1>3, <1>4
     DEF Next, vars, Tick, RecvDelayed, HandleSketch, HandleInventory

\* Every behaviour of the sketch nodes is one the abstract specification
\* allows.
THEOREM SketchKeepsPromise == Spec => KeepsPromise
<1>1. IInv /\ IInv' /\ [Next]_vars => [Promise!Next]_(Promise!vars)
  BY PromiseStep
<1> QED
  BY <1>1, PromiseInit, Invariance, PTL DEF Spec, KeepsPromise, Promise!Spec

-----------------------------------------------------------------------------
(***************************************************************************)
(* The locks compute_diff takes while it reads the two states              *)
(***************************************************************************)

(***************************************************************************)
(* A non-empty set of states has a greatest element.                       *)
(***************************************************************************)
LEMMA LeastByRelation ==
  ASSUME NEW T, T \subseteq Nat, NEW R,
         \E x \in T : \A y \in T : <<y, x>> \notin R,
         \A x, y \in Nat : x < y => <<x, y>> \in R
  PROVE  \E x \in T : \A y \in T : x <= y
<1>1. PICK x \in T : \A y \in T : <<y, x>> \notin R
  OBVIOUS
<1>2. ASSUME NEW y \in T PROVE x <= y
  <2>1. x \in Nat /\ y \in Nat
    OBVIOUS
  <2>2. ~(y < x)
    BY <1>1, <2>1, Zenon
  <2> QED
    BY <2>1, <2>2
<1> QED
  BY <1>2

LEMMA LeastNat ==
  ASSUME NEW T, T \subseteq Nat, T # {}
  PROVE  \E x \in T : \A y \in T : x <= y
<1>1. \E x \in T : \A y \in T : <<y, x>> \notin OpToRel(<, Nat)
  BY NatLessThanWellFounded, WFMin, Zenon
<1>2. \A x, y \in Nat : x < y => <<x, y>> \in OpToRel(<, Nat)
  BY Zenon DEF OpToRel
<1> QED
  BY <1>1, <1>2, LeastByRelation, Zenon

LEMMA GreatestState ==
  ASSUME NEW T, T \subseteq StateIdx, T # {}
  PROVE  \E x \in T : \A y \in T : y <= x
<1> DEFINE M == {N - d : d \in T}
<1>1. \A d \in T : N - d \in Nat
  BY LocksAssumption DEF StateIdx
<1>5. M \subseteq Nat /\ M # {}
  BY <1>1
<1> HIDE DEF M
<1>2. PICK m \in M : \A y \in M : m <= y
  BY <1>5, LeastNat
<1>3. PICK x \in T : m = N - x
  BY <1>2 DEF M
<1>4. ASSUME NEW y \in T PROVE y <= x
  <2>1. m <= N - y
    BY <1>2 DEF M
  <2> QED
    BY <2>1, <1>3, LocksAssumption DEF StateIdx
<1> QED
  BY <1>4

----------------------------------------------------------------------------
(***************************************************************************)
(* The inductive invariant.                                                *)
(***************************************************************************)

(* A call has two different arguments, a write one target. *)
Arguments ==
    /\ \A r \in Reader : pc[r] \in {"idle", "first", "second", "diff", "rest", "done"}
    /\ \A w \in Writer : pc[w] \in {"idle", "bit", "drain", "release"}
    /\ \A r \in Reader : pc[r] # "idle" => a[r] \in StateIdx /\ b[r] \in StateIdx /\ a[r] # b[r]
    /\ \A w \in Writer : pc[w] # "idle" => target[w] \in StateIdx

HasFirst(r) == pc[r] \in {"second", "diff", "rest", "done"}
HasSecond(r) == pc[r] \in {"diff", "rest", "done"}

(* A reader is inside the locks it has taken. *)
Shared ==
    /\ \A r \in Reader : HasFirst(r) => r \in readers[First(r)]
    /\ \A r \in Reader : HasSecond(r) => r \in readers[Second(r)]
    /\ \A s \in StateIdx : \A r \in readers[s] :
         HasFirst(r) /\ (s = First(r) \/ (HasSecond(r) /\ s = Second(r)))

(* The write bit belongs to a writer that waits for readers or writes. *)
Exclusive ==
    /\ \A s \in StateIdx : bit[s] # Nobody =>
         pc[bit[s]] \in {"drain", "release"} /\ target[bit[s]] = s
    /\ \A w \in Writer : pc[w] \in {"drain", "release"} => bit[target[w]] = w

(* While a map is written nobody reads it. *)
Alone == \A w \in Writer : pc[w] = "release" => readers[target[w]] = {}

SideOfFirst(r) == IF SideAFirst(r) THEN "a" ELSE "b"
SideOfSecond(r) == IF SideAFirst(r) THEN "b" ELSE "a"

(* What has been read is what the map still holds. *)
Seen ==
    \A r \in Reader :
      /\ pc[r] \in {"rest", "done"} => result[r][SideOfFirst(r)] = map[First(r)]
      /\ pc[r] = "done" => result[r][SideOfSecond(r)] = map[Second(r)]

LocksInv == LocksTypeOK /\ Arguments /\ Shared /\ Exclusive /\ Alone /\ Seen

----------------------------------------------------------------------------
(* The arguments in the order of the locks. *)
LEMMA Order ==
  ASSUME Arguments, NEW r \in Reader, pc[r] # "idle"
  PROVE  /\ First(r) \in StateIdx /\ Second(r) \in StateIdx
         /\ First(r) < Second(r)
         /\ {First(r), Second(r)} = {a[r], b[r]}
  BY LocksAssumption DEF Arguments, First, Second, Swapped, StateIdx

LEMMA LocksInitHolds == LocksInit => LocksInv
<1> SUFFICES ASSUME LocksInit PROVE LocksInv
  OBVIOUS
<1>1. LocksTypeOK
  BY DEF LocksInit, LocksTypeOK, NoResult
<1>2. Arguments /\ Seen /\ Alone
  BY DEF LocksInit, Arguments, Seen, Alone
<1>3. Shared /\ Exclusive
  BY DEF LocksInit, Shared, Exclusive, HasFirst, HasSecond
<1> QED
  BY <1>1, <1>2, <1>3 DEF LocksInv

LEMMA LocksTypeStep == LocksTypeOK /\ Arguments /\ [LocksNext]_locksVars => LocksTypeOK'
<1> SUFFICES ASSUME LocksTypeOK, Arguments, [LocksNext]_locksVars PROVE LocksTypeOK'
  OBVIOUS
<1> USE DEF LocksTypeOK
<1>1. CASE UNCHANGED locksVars
  BY <1>1 DEF locksVars
<1>2. ASSUME NEW r \in Reader, Call(r) PROVE LocksTypeOK'
  BY <1>2, LocksAssumption DEF Call, StateIdx
<1>3. ASSUME NEW r \in Reader, ReadFirst(r) PROVE LocksTypeOK'
  BY <1>3 DEF ReadFirst
<1>4. ASSUME NEW r \in Reader, ReadSecond(r) PROVE LocksTypeOK'
  BY <1>4 DEF ReadSecond
<1>5. ASSUME NEW r \in Reader, DiffFirst(r) PROVE LocksTypeOK'
  <2>1. map[First(r)] \in {0, 1}
    BY <1>5, Order DEF DiffFirst
  <2>2. pc' \in [Reader \cup Writer ->
                 {"idle", "first", "second", "diff", "rest", "done", "bit", "drain", "release"}]
    BY <1>5 DEF DiffFirst
  <2>3. result' \in [Reader -> [a : {0, 1}, b : {0, 1}]]
    BY <1>5, <2>1 DEF DiffFirst
  <2> QED
    BY <1>5, <2>2, <2>3 DEF DiffFirst
<1>6. ASSUME NEW r \in Reader, DiffSecond(r) PROVE LocksTypeOK'
  <2>1. map[Second(r)] \in {0, 1}
    BY <1>6, Order DEF DiffSecond
  <2>2. pc' \in [Reader \cup Writer ->
                 {"idle", "first", "second", "diff", "rest", "done", "bit", "drain", "release"}]
    BY <1>6 DEF DiffSecond
  <2>3. result' \in [Reader -> [a : {0, 1}, b : {0, 1}]]
    BY <1>6, <2>1 DEF DiffSecond
  <2> QED
    BY <1>6, <2>2, <2>3 DEF DiffSecond
<1>7. ASSUME NEW r \in Reader, Return(r) PROVE LocksTypeOK'
  BY <1>7 DEF Return, NoResult
<1>8. ASSUME NEW w \in Writer, Write(w) PROVE LocksTypeOK'
  BY <1>8, LocksAssumption DEF Write, StateIdx
<1>9. ASSUME NEW w \in Writer, TakeBit(w) PROVE LocksTypeOK'
  BY <1>9 DEF TakeBit
<1>10. ASSUME NEW w \in Writer, Insert(w) PROVE LocksTypeOK'
  <2>1. target[w] \in StateIdx
    BY <1>10 DEF Insert, Arguments
  <2>2. map' \in [StateIdx -> {0, 1}]
    BY <1>10, <2>1 DEF Insert
  <2>3. pc' \in [Reader \cup Writer ->
                 {"idle", "first", "second", "diff", "rest", "done", "bit", "drain", "release"}]
    BY <1>10 DEF Insert
  <2> QED
    BY <1>10, <2>2, <2>3 DEF Insert
<1>11. ASSUME NEW w \in Writer, Release(w) PROVE LocksTypeOK'
  BY <1>11 DEF Release
<1> QED
  BY <1>1, <1>2, <1>3, <1>4, <1>5, <1>6, <1>7, <1>8, <1>9, <1>10, <1>11
     DEF LocksNext, GoRead, GoWrite

LEMMA ArgumentsStep == LocksInv /\ [LocksNext]_locksVars => Arguments'
<1> SUFFICES ASSUME LocksInv, [LocksNext]_locksVars PROVE Arguments'
  OBVIOUS
<1> USE LocksAssumption DEF LocksInv, LocksTypeOK, Arguments
<1>1. CASE UNCHANGED locksVars
  BY <1>1 DEF locksVars
<1>2. ASSUME NEW r \in Reader, Call(r) PROVE Arguments'
  BY <1>2 DEF Call
<1>3. ASSUME NEW r \in Reader, GoRead(r) PROVE Arguments'
  BY <1>3 DEF GoRead, ReadFirst, ReadSecond, DiffFirst, DiffSecond, Return
<1>4. ASSUME NEW w \in Writer, Write(w) PROVE Arguments'
  BY <1>4 DEF Write
<1>5. ASSUME NEW w \in Writer, GoWrite(w) PROVE Arguments'
  BY <1>5 DEF GoWrite, TakeBit, Insert, Release
<1> QED
  BY <1>1, <1>2, <1>3, <1>4, <1>5 DEF LocksNext

LEMMA SharedStep == LocksInv /\ [LocksNext]_locksVars => Shared'
<1> SUFFICES ASSUME LocksInv, [LocksNext]_locksVars PROVE Shared'
  OBVIOUS
<1> USE LocksAssumption DEF LocksInv, LocksTypeOK, Shared, HasFirst, HasSecond
<1> DEFINE SameArguments == \A r \in Reader : First(r)' = First(r) /\ Second(r)' = Second(r)
<1>1. a' = a /\ b' = b => SameArguments
  BY DEF First, Second, Swapped
<1> HIDE DEF SameArguments
<1>2. CASE UNCHANGED locksVars
  BY <1>1, <1>2 DEF locksVars, SameArguments
<1>3. ASSUME NEW r \in Reader, Call(r) PROVE Shared'
  BY <1>3 DEF Call, First, Second, Swapped
<1>4. ASSUME NEW r \in Reader, ReadFirst(r) PROVE Shared'
  <2>1. First(r) \in StateIdx /\ First(r) # Second(r)
    BY <1>4, Order DEF ReadFirst, StateIdx
  <2>2. \A s \in StateIdx : \A q : q \in readers'[s] <=> q \in readers[s] \/ (s = First(r) /\ q = r)
    BY <1>4 DEF ReadFirst
  <2>3. \A q \in Reader : pc'[q] = IF q = r THEN "second" ELSE pc[q]
    BY <1>4 DEF ReadFirst
  <2>4. SameArguments /\ pc[r] = "first"
    BY <1>1, <1>4 DEF ReadFirst
  <2>5. \A q \in Reader : HasFirst(q) => First(q) \in StateIdx /\ Second(q) \in StateIdx
    BY Order
  <2>6. ASSUME NEW q \in Reader
        PROVE  /\ HasFirst(q)' => q \in readers'[First(q)]
               /\ HasSecond(q)' => q \in readers'[Second(q)]
    BY <2>1, <2>2, <2>3, <2>4, <2>5
  <2>7. ASSUME NEW s \in StateIdx, NEW q \in readers'[s]
        PROVE  HasFirst(q)' /\ (s = First(q) \/ (HasSecond(q)' /\ s = Second(q)))
    <3>1. CASE q = r
      BY <3>1, <2>1, <2>2, <2>3, <2>4
    <3>2. CASE q # r
      <4>1. q \in readers[s]
        BY <3>2, <2>2
      <4>3. q \in Reader
        BY <4>1
      <4>2. HasFirst(q) /\ (s = First(q) \/ (HasSecond(q) /\ s = Second(q)))
        BY <4>1 DEF Shared
      <4> QED
        BY <4>3, <4>2, <3>2, <2>3
    <3> QED
      BY <3>1, <3>2
  <2>8. \A s \in StateIdx : \A q \in readers'[s] : q \in Reader
    <3>1. \A s \in StateIdx : \A q \in readers[s] : q \in Reader
      OBVIOUS
    <3> QED
      BY <3>1, <2>2
  <2> QED
    BY <2>4, <2>6, <2>7, <2>8 DEF SameArguments
<1>5. ASSUME NEW r \in Reader, ReadSecond(r) PROVE Shared'
  <2>1. Second(r) \in StateIdx /\ First(r) # Second(r)
    BY <1>5, Order DEF ReadSecond, StateIdx
  <2>2. \A s \in StateIdx : \A q : q \in readers'[s] <=> q \in readers[s] \/ (s = Second(r) /\ q = r)
    BY <1>5 DEF ReadSecond
  <2>3. \A q \in Reader : pc'[q] = IF q = r THEN "diff" ELSE pc[q]
    BY <1>5 DEF ReadSecond
  <2>4. SameArguments /\ pc[r] = "second"
    BY <1>1, <1>5 DEF ReadSecond
  <2>5. \A q \in Reader : HasFirst(q) => First(q) \in StateIdx /\ Second(q) \in StateIdx
    BY Order
  <2>6. ASSUME NEW q \in Reader
        PROVE  /\ HasFirst(q)' => q \in readers'[First(q)]
               /\ HasSecond(q)' => q \in readers'[Second(q)]
    BY <2>1, <2>2, <2>3, <2>4, <2>5
  <2>7. ASSUME NEW s \in StateIdx, NEW q \in readers'[s]
        PROVE  HasFirst(q)' /\ (s = First(q) \/ (HasSecond(q)' /\ s = Second(q)))
    <3>1. CASE q = r
      BY <3>1, <2>1, <2>2, <2>3, <2>4
    <3>2. CASE q # r
      <4>1. q \in readers[s]
        BY <3>2, <2>2
      <4>3. q \in Reader
        BY <4>1
      <4>2. HasFirst(q) /\ (s = First(q) \/ (HasSecond(q) /\ s = Second(q)))
        BY <4>1 DEF Shared
      <4> QED
        BY <4>3, <4>2, <3>2, <2>3
    <3> QED
      BY <3>1, <3>2
  <2>8. \A s \in StateIdx : \A q \in readers'[s] : q \in Reader
    <3>1. \A s \in StateIdx : \A q \in readers[s] : q \in Reader
      OBVIOUS
    <3> QED
      BY <3>1, <2>2
  <2> QED
    BY <2>4, <2>6, <2>7, <2>8 DEF SameArguments
<1>6. ASSUME NEW r \in Reader, DiffFirst(r) \/ DiffSecond(r) PROVE Shared'
  <2>1. SameArguments /\ readers' = readers
    BY <1>1, <1>6 DEF DiffFirst, DiffSecond
  <2>2. pc[r] \in {"diff", "rest"} /\ pc'[r] \in {"rest", "done"}
    BY <1>6 DEF DiffFirst, DiffSecond
  <2>3. \A q \in Reader : q # r => pc'[q] = pc[q]
    BY <1>6 DEF DiffFirst, DiffSecond
  <2> QED
    BY <2>1, <2>2, <2>3 DEF SameArguments
<1>7. ASSUME NEW r \in Reader, Return(r) PROVE Shared'
  <2>1. \A q \in Reader : q # r => /\ First(q)' = First(q) /\ Second(q)' = Second(q)
                                  /\ pc'[q] = pc[q]
    BY <1>7 DEF Return, First, Second, Swapped
  <2>2. pc'[r] = "idle" /\ \A s \in StateIdx : readers'[s] = readers[s] \ {r}
    BY <1>7 DEF Return
  <2>3. \A q \in Reader : HasFirst(q) => First(q) \in StateIdx /\ Second(q) \in StateIdx
    BY Order
  <2> QED
    BY <2>1, <2>2, <2>3
<1>8. ASSUME NEW w \in Writer, Write(w) \/ GoWrite(w) PROVE Shared'
  <2>1. SameArguments /\ readers' = readers
    BY <1>1, <1>8 DEF Write, GoWrite, TakeBit, Insert, Release
  <2>2. \A q \in Reader : pc'[q] = pc[q]
    BY <1>8 DEF Write, GoWrite, TakeBit, Insert, Release
  <2> QED
    BY <2>1, <2>2 DEF SameArguments
<1> QED
  BY <1>2, <1>3, <1>4, <1>5, <1>6, <1>7, <1>8 DEF LocksNext, GoRead

LEMMA ExclusiveStep == LocksInv /\ [LocksNext]_locksVars => Exclusive'
<1> SUFFICES ASSUME LocksInv, [LocksNext]_locksVars PROVE Exclusive'
  OBVIOUS
<1> USE LocksAssumption DEF LocksInv, LocksTypeOK, Exclusive, Arguments
<1>1. CASE UNCHANGED locksVars
  BY <1>1 DEF locksVars
<1>2. ASSUME NEW r \in Reader, Call(r) \/ GoRead(r) PROVE Exclusive'
  <2>1. target' = target /\ bit' = bit
    BY <1>2 DEF Call, GoRead, ReadFirst, ReadSecond, DiffFirst, DiffSecond, Return
  <2>2. \A w \in Writer : pc'[w] = pc[w]
    BY <1>2 DEF Call, GoRead, ReadFirst, ReadSecond, DiffFirst, DiffSecond, Return
  <2>3. \A s \in StateIdx : bit[s] # Nobody => bit[s] \in Writer
    OBVIOUS
  <2> QED
    BY <2>1, <2>2, <2>3
<1>3. ASSUME NEW w \in Writer, Write(w) PROVE Exclusive'
  BY <1>3 DEF Write
<1>4. ASSUME NEW w \in Writer, TakeBit(w) PROVE Exclusive'
  BY <1>4 DEF TakeBit
<1>5. ASSUME NEW w \in Writer, Insert(w) PROVE Exclusive'
  BY <1>5 DEF Insert
<1>6. ASSUME NEW w \in Writer, Release(w) PROVE Exclusive'
  BY <1>6 DEF Release
<1> QED
  BY <1>1, <1>2, <1>3, <1>4, <1>5, <1>6 DEF LocksNext, GoWrite

(* Nobody may read a map whose write bit is taken. *)
LEMMA AloneStep == LocksInv /\ [LocksNext]_locksVars => Alone'
<1> SUFFICES ASSUME LocksInv, [LocksNext]_locksVars PROVE Alone'
  OBVIOUS
<1> USE LocksAssumption DEF LocksInv, LocksTypeOK, Alone, Arguments
<1>1. CASE UNCHANGED locksVars
  BY <1>1 DEF locksVars
<1>2. ASSUME NEW r \in Reader, ReadFirst(r) PROVE Alone'
  BY <1>2, Order DEF ReadFirst, MayRead, Exclusive
<1>3. ASSUME NEW r \in Reader, ReadSecond(r) PROVE Alone'
  BY <1>3, Order DEF ReadSecond, MayRead, Exclusive
<1>4. ASSUME NEW r \in Reader, Call(r) \/ DiffFirst(r) \/ DiffSecond(r) \/ Return(r) PROVE Alone'
  BY <1>4 DEF Call, DiffFirst, DiffSecond, Return
<1>5. ASSUME NEW w \in Writer, Write(w) \/ TakeBit(w) \/ Release(w) PROVE Alone'
  BY <1>5 DEF Write, TakeBit, Release
<1>6. ASSUME NEW w \in Writer, Insert(w) PROVE Alone'
  BY <1>6 DEF Insert, NoReaders
<1> QED
  BY <1>1, <1>2, <1>3, <1>4, <1>5, <1>6 DEF LocksNext, GoRead, GoWrite

LEMMA SeenStep == LocksInv /\ [LocksNext]_locksVars => Seen'
<1> SUFFICES ASSUME LocksInv, [LocksNext]_locksVars PROVE Seen'
  OBVIOUS
<1> USE LocksAssumption DEF LocksInv, LocksTypeOK, Seen, SideOfFirst, SideOfSecond, SideAFirst,
                            First, Second, Swapped
<1>1. CASE UNCHANGED locksVars
  BY <1>1 DEF locksVars
<1>2. ASSUME NEW r \in Reader, Call(r) \/ ReadFirst(r) \/ ReadSecond(r) \/ Return(r) PROVE Seen'
  BY <1>2 DEF Call, ReadFirst, ReadSecond, Return
<1>3. ASSUME NEW r \in Reader, DiffFirst(r) PROVE Seen'
  BY <1>3 DEF DiffFirst
<1>4. ASSUME NEW r \in Reader, DiffSecond(r) PROVE Seen'
  BY <1>4 DEF DiffSecond
<1>5. ASSUME NEW w \in Writer, Write(w) \/ TakeBit(w) \/ Release(w) PROVE Seen'
  BY <1>5 DEF Write, TakeBit, Release, Arguments
<1>6. ASSUME NEW w \in Writer, Insert(w) PROVE Seen'
  <2>1. readers[target[w]] = {} /\ target[w] \in StateIdx
    BY <1>6 DEF Insert, NoReaders, Arguments
  <2>2. \A r \in Reader : pc[r] \in {"rest", "done"} =>
          First(r) # target[w] /\ Second(r) # target[w]
    BY <2>1 DEF Shared, HasFirst, HasSecond
  <2> QED
    BY <1>6, <2>1, <2>2, Order DEF Insert, Arguments
<1> QED
  BY <1>1, <1>2, <1>3, <1>4, <1>5, <1>6 DEF LocksNext, GoRead, GoWrite

----------------------------------------------------------------------------
(* The invariant above holds in every reachable state. *)
THEOREM LocksInvariance == LocksSpec => []LocksInv
<1>1. LocksInit => LocksInv
  BY LocksInitHolds
<1>2. LocksInv /\ [LocksNext]_locksVars => LocksInv'
  BY LocksTypeStep, ArgumentsStep, SharedStep, ExclusiveStep, AloneStep, SeenStep DEF LocksInv
<1> QED
  BY <1>1, <1>2, PTL DEF LocksSpec

(* Every variable keeps its type, for any number of states and threads. *)
THEOREM LocksTypeCorrect == LocksSpec => []LocksTypeOK
<1>1. LocksInv => LocksTypeOK
  BY DEF LocksInv
<1> QED
  BY <1>1, LocksInvariance, PTL

(* compute_diff sees both maps as they were at one time, on the caller's
   side, whatever the other threads write meanwhile. *)
THEOREM SnapshotTheorem == LocksSpec => []OneSnapshot
<1>1. LocksInv => OneSnapshot
  <2> SUFFICES ASSUME LocksInv, NEW r \in Reader, pc[r] = "done"
               PROVE  result[r] = [a |-> map[a[r]], b |-> map[b[r]]]
    BY DEF OneSnapshot
  <2>1. result[r] \in [a : {0, 1}, b : {0, 1}]
    BY DEF LocksInv, LocksTypeOK
  <2>2. result[r].a = map[a[r]] /\ result[r].b = map[b[r]]
    BY DEF LocksInv, Seen, SideOfFirst, SideOfSecond, SideAFirst, Swapped, First, Second
  <2> QED
    BY <2>1, <2>2
<1> QED
  BY <1>1, LocksInvariance, PTL

----------------------------------------------------------------------------
(***************************************************************************)
(* If nobody could go on, a writer that waits for readers would have a     *)
(* target above every other one's; the reader it waits for would wait for  *)
(* a writer whose target is higher still.                                  *)
(***************************************************************************)
LEMMA SomebodyCanGo ==
  ASSUME LocksInv, NEW t \in Reader \cup Writer, pc[t] # "idle"
  PROVE  \E u \in Reader \cup Writer : CanGo(u)
<1> SUFFICES ASSUME \A u \in Reader \cup Writer : ~CanGo(u) PROVE FALSE
  OBVIOUS
<1> DEFINE D == {w \in Writer : pc[w] = "drain"}
           T == {target[w] : w \in D}
<1>1. \A w \in Writer : pc[w] # "release"
  BY DEF CanGo
<1>2. \A r \in Reader : pc[r] \in {"idle", "first", "second"}
  BY DEF CanGo, LocksInv, Arguments
<1>3. CASE D = {}
  <2>1. \A s \in StateIdx : bit[s] = Nobody
    BY <1>1, <1>3 DEF LocksInv, LocksTypeOK, Exclusive
  <2>2. CASE t \in Reader
    <3>1. First(t) \in StateIdx /\ Second(t) \in StateIdx
      BY <2>2, Order DEF LocksInv
    <3>2. MayRead(First(t)) /\ MayRead(Second(t))
      BY <2>1, <3>1 DEF MayRead
    <3> QED
      BY <1>2, <2>2, <3>2 DEF CanGo
  <2>3. CASE t \in Writer
    <3>1. pc[t] = "bit" /\ target[t] \in StateIdx
      BY <1>1, <1>3, <2>3 DEF LocksInv, Arguments
    <3> QED
      BY <2>1, <2>3, <3>1 DEF CanGo
  <2> QED
    BY <2>2, <2>3
<1>4. CASE D # {}
  <2>1. T \subseteq StateIdx /\ T # {}
    BY <1>4 DEF LocksInv, Arguments
  <2>2. PICK x \in T : \A y \in T : y <= x
    BY <2>1, GreatestState
  <2>3. PICK w \in D : x = target[w]
    BY <2>2
  <2>4. x \in StateIdx /\ readers[x] # {}
    BY <2>1, <2>3 DEF CanGo, NoReaders
  <2>5. PICK r \in Reader : r \in readers[x]
    BY <2>4 DEF LocksInv, LocksTypeOK
  <2>6. pc[r] = "second" /\ x = First(r)
    BY <1>2, <2>4, <2>5 DEF LocksInv, Shared, HasFirst, HasSecond
  <2>7. Second(r) \in StateIdx /\ First(r) < Second(r)
    BY <2>6, Order DEF LocksInv
  <2>8. bit[Second(r)] # Nobody
    BY <2>6 DEF CanGo, MayRead
  <2>9. Second(r) \in T
    BY <1>1, <2>7, <2>8 DEF LocksInv, LocksTypeOK, Exclusive
  <2>10. Second(r) <= First(r)
    BY <2>2, <2>6, <2>9
  <2>11. First(r) \in Nat /\ Second(r) \in Nat
    BY <2>4, <2>6, <2>7, LocksAssumption DEF StateIdx
  <2> QED
    BY <2>7, <2>10, <2>11
<1> QED
  BY <1>3, <1>4

(* As long as a thread is inside a call, one of them can go on: the order by
   index in compute_diff excludes a circle of waiting threads. *)
THEOREM NoCircleTheorem == LocksSpec => []NoCircle
<1>1. LocksInv => NoCircle
  BY SomebodyCanGo DEF NoCircle
<1> QED
  BY <1>1, LocksInvariance, PTL

=============================================================================
