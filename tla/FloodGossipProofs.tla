------------------------- MODULE FloodGossipProofs -------------------------
(***************************************************************************)
(* Theorems about FloodGossip, for every set of nodes and keys, every peer *)
(* graph and every length of the run.                                      *)
(***************************************************************************)
EXTENDS FloodGossip, TLAPS

\* The inductive invariant.  HandedOn needs NobodyAhead: an origination at p
\* overwrites p's entry, and only because nothing p stores lies in the future
\* does p stay level with the peers whose versions it had.
IInv ==
  /\ TypeOK
  /\ NobodyAhead
  /\ HandedOn

-----------------------------------------------------------------------------

\* What a node stores is a state, and an entry of it a version.
LEMMA StoreType ==
  ASSUME TypeOK, NEW n \in Node, NEW k \in Key
  PROVE  store[n] \in State /\ store[n][k] \in Version
  BY DEF TypeOK, State

\* An origination changes the entry of its key, to the current second or to
\* the one version of a channel announcement.
LEMMA StampFacts ==
  ASSUME NEW m \in State, NEW k \in Key, NEW t \in Nat
  PROVE  /\ StampOf(k, t) \in Nat
         /\ StampOf(k, t) <= t
         /\ Stamped(m, k, t) \in State
         /\ Stamped(m, k, t)[k] = StampOf(k, t)
         /\ \A j \in Key : j # k => Stamped(m, k, t)[j] = m[j]
  BY DEF StampOf, Stamped, State, Version

\* The messages of a broadcast are well typed.
LEMMA BroadcastType ==
  ASSUME NEW n \in Node, NEW k \in Key, NEW v \in Nat
  PROVE  Broadcast(n, k, v) \subseteq [to : Node, key : Key, ts : Nat]
<1>1. \A p \in Peers[n] : p \in Node
  BY FloodAssumption
<1> QED
  BY <1>1 DEF Broadcast, Single

\* A fresh message replaces one entry, by a newer version.
LEMMA FreshFacts ==
  ASSUME TypeOK, NEW m \in msgs, Recv(m), Fresh(m)
  PROVE  /\ m.to \in Node /\ m.key \in Key /\ m.ts \in Nat
         /\ m.ts > store[m.to][m.key]
         /\ store'[m.to][m.key] = m.ts
         /\ \A k \in Key : k # m.key => store'[m.to][k] = store[m.to][k]
         /\ \A n \in Node : n # m.to => store'[n] = store[n]
         /\ store' \in [Node -> State]
<1>1. m.to \in Node /\ m.key \in Key /\ m.ts \in Nat
  BY DEF TypeOK
<1>2. store' = [store EXCEPT ![m.to][m.key] = m.ts]
  BY DEF Recv
<1>3. m.ts > store[m.to][m.key]
  BY DEF Fresh, Supersedes
<1>4. store \in [Node -> [Key -> Version]]
  BY DEF TypeOK, State
<1> QED
  BY <1>1, <1>2, <1>3, <1>4 DEF State, Version

\* An origination replaces one entry, by a version that is not older.
LEMMA OriginateFacts ==
  ASSUME TypeOK, NobodyAhead, NEW n \in Node, NEW k \in Key, Originate(n, k)
  PROVE  /\ StampOf(k, now) \in Nat
         /\ StampOf(k, now) <= now
         /\ StampOf(k, now) >= store[n][k]
         /\ store'[n][k] = StampOf(k, now)
         /\ \A j \in Key : j # k => store'[n][j] = store[n][j]
         /\ \A m \in Node : m # n => store'[m] = store[m]
         /\ store' \in [Node -> State]
<1>1. store[n] \in State /\ store[n][k] \in Version /\ now \in Nat
  BY StoreType DEF TypeOK
<1>2. store' = [store EXCEPT ![n] = Stamped(store[n], k, now)]
  BY DEF Originate
<1>3. /\ StampOf(k, now) \in Nat
      /\ StampOf(k, now) <= now
      /\ Stamped(store[n], k, now) \in State
      /\ Stamped(store[n], k, now)[k] = StampOf(k, now)
      /\ \A j \in Key : j # k => Stamped(store[n], k, now)[j] = store[n][j]
  BY <1>1, StampFacts
<1>4. StampOf(k, now) >= store[n][k]
  <2>1. CASE KindOf[k] = "ChanAnns"
    <3>1. store[n][k] = Absent
      BY <2>1 DEF Originate, MayStamp
    <3> QED
      BY <1>3, <3>1 DEF Absent
  <2>2. CASE KindOf[k] # "ChanAnns"
    <3>1. StampOf(k, now) = now
      BY <2>2 DEF StampOf
    <3>2. store[n][k] <= now
      BY DEF NobodyAhead
    <3> QED
      BY <1>1, <3>1, <3>2 DEF Version, Absent
  <2> QED
    BY <2>1, <2>2
<1>5. /\ store'[n] = Stamped(store[n], k, now)
      /\ \A m \in Node : m # n => store'[m] = store[m]
      /\ store' \in [Node -> State]
  BY <1>2, <1>3 DEF TypeOK
<1> QED
  BY <1>3, <1>4, <1>5

-----------------------------------------------------------------------------
(***************************************************************************)
(* Type correctness and growth                                             *)
(***************************************************************************)

\* The initial state is well typed.
LEMMA TypeInit == Init => TypeOK
  BY DEF Init, TypeOK, Nothing, State, Version, Absent

\* Every step from a state that satisfies the invariant is well typed.
LEMMA TypeStep == TypeOK /\ NobodyAhead /\ [Next]_vars => TypeOK'
<1> SUFFICES ASSUME TypeOK, NobodyAhead, [Next]_vars PROVE TypeOK'
  OBVIOUS
<1>1. ASSUME NEW n \in Node, NEW k \in Key, Originate(n, k) PROVE TypeOK'
  BY <1>1, OriginateFacts, BroadcastType DEF Originate, TypeOK
<1>2. ASSUME NEW m \in msgs, Recv(m) PROVE TypeOK'
  <2>1. CASE Fresh(m)
    <3>1. DelayedSend(m.to, m.key, m.ts) \in [node : Node, key : Key, ts : Nat]
      BY <1>2, <2>1, FreshFacts DEF DelayedSend
    <3> QED
      BY <1>2, <2>1, <3>1, FreshFacts DEF Recv, TypeOK
  <2>2. CASE ~ Fresh(m)
    BY <1>2, <2>2 DEF Recv, TypeOK
  <2> QED
    BY <2>1, <2>2
<1>3. ASSUME NEW d \in delayed, DoSend(d) PROVE TypeOK'
  <2>1. d.node \in Node /\ d.key \in Key /\ d.ts \in Nat
    BY DEF TypeOK
  <2> QED
    BY <1>3, <2>1, BroadcastType DEF DoSend, TypeOK
<1>4. CASE Elapse
  BY <1>4 DEF Elapse, TypeOK
<1>5. CASE UNCHANGED vars
  BY <1>5 DEF vars, TypeOK
<1> QED
  BY <1>1, <1>2, <1>3, <1>4, <1>5 DEF Next

\* No store falls back, in any step.
LEMMA GrowthStep ==
  ASSUME TypeOK, NobodyAhead, [Next]_vars, NEW n \in Node, NEW k \in Key
  PROVE  store'[n][k] >= store[n][k]
<1>1. store[n][k] \in Version
  BY StoreType
<1>2. ASSUME store' = store PROVE store'[n][k] >= store[n][k]
  BY <1>1, <1>2 DEF Version, Absent
<1>3. ASSUME NEW o \in Node, NEW j \in Key, Originate(o, j)
      PROVE  store'[n][k] >= store[n][k]
  BY <1>1, <1>3, OriginateFacts DEF Version, Absent
<1>4. ASSUME NEW m \in msgs, Recv(m), Fresh(m) PROVE store'[n][k] >= store[n][k]
  BY <1>1, <1>4, FreshFacts DEF Version, Absent
<1> QED
  BY <1>2, <1>3, <1>4 DEF Next, vars, Recv, DoSend, Elapse

\* What is issued stays issued while no store regresses.
LEMMA IssuedStays ==
  ASSUME TypeOK, TypeOK', NobodyAhead, [Next]_vars,
         NEW k \in Key, NEW v \in Version, Issued(k, v)
  PROVE  Issued(k, v)'
<1>1. PICK o \in Origins[k] : v <= store[o][k]
  BY DEF Issued
<1>2. o \in Node
  BY <1>1, KeyAssumption
<1>3. v <= store'[o][k]
  <2>1. store[o][k] \in Version /\ store'[o][k] \in Version
    BY <1>2, StoreType DEF TypeOK, State
  <2> QED
    BY <1>1, <1>2, <2>1, GrowthStep DEF Version, Absent
<1> QED
  BY <1>1, <1>3 DEF Issued

-----------------------------------------------------------------------------
(***************************************************************************)
(* The safety invariants                                                   *)
(***************************************************************************)

\* The inductive invariant holds initially: nothing is stored or in flight.
LEMMA InvInit == Init => IInv
<1> SUFFICES ASSUME Init PROVE IInv
  OBVIOUS
<1>1. TypeOK
  BY TypeInit
<1>2. \A n \in Node, k \in Key : store[n][k] = Absent
  BY DEF Init, Nothing
<1>3. NobodyAhead
  <2>1. \A k \in Key : Issued(k, Absent)
    BY <1>2, KeyAssumption DEF Issued, Absent
  <2> QED
    BY <1>2, <2>1 DEF NobodyAhead, Init, Absent
<1>4. HandedOn
  BY <1>2, FloodAssumption DEF HandedOn, Absent
<1> QED
  BY <1>1, <1>3, <1>4 DEF IInv

\* Every message and every scheduled forward repeats an issued version.
LEMMA SentIsIssued ==
  ASSUME IInv, TypeOK', [Next]_vars, NEW m \in msgs' \cup delayed'
  PROVE  Issued(m.key, m.ts)'
<1> USE DEF IInv
<1>1. ASSUME NEW x \in msgs \cup delayed, m.key = x.key, m.ts = x.ts
      PROVE  Issued(m.key, m.ts)'
  <2>1. x.key \in Key /\ x.ts \in Version
    BY DEF TypeOK, Version
  <2>2. Issued(x.key, x.ts)
    BY DEF NobodyAhead
  <2> QED
    BY <1>1, <2>1, <2>2, IssuedStays
<1>2. ASSUME NEW n \in Node, NEW k \in Key, Originate(n, k), m \notin msgs \cup delayed
      PROVE  Issued(m.key, m.ts)'
  <2>1. m.key = k /\ m.ts = StampOf(k, now) /\ n \in Origins[k]
    BY <1>2 DEF Originate, Broadcast, Single
  <2>2. store'[n][k] = StampOf(k, now) /\ StampOf(k, now) \in Nat
    BY <1>2, OriginateFacts
  <2> QED
    BY <2>1, <2>2 DEF Issued
<1>3. ASSUME NEW x \in msgs, Recv(x), m \notin msgs \cup delayed
      PROVE  Issued(m.key, m.ts)'
  <2>1. m.key = x.key /\ m.ts = x.ts
    BY <1>3 DEF Recv, DelayedSend
  <2> QED
    BY <1>1, <2>1
<1>4. ASSUME NEW x \in delayed, DoSend(x), m \notin msgs \cup delayed
      PROVE  Issued(m.key, m.ts)'
  <2>1. m.key = x.key /\ m.ts = x.ts
    BY <1>4 DEF DoSend, Broadcast, Single
  <2> QED
    BY <1>1, <2>1
<1>5. CASE m \in msgs \cup delayed
  BY <1>1, <1>5
<1> QED
  BY <1>2, <1>3, <1>4, <1>5 DEF Next, vars, Elapse

\* No step puts a node ahead of the originators of a key or of the time.
LEMMA AheadStep == IInv /\ TypeOK' /\ [Next]_vars => NobodyAhead'
<1> SUFFICES ASSUME IInv, TypeOK', [Next]_vars PROVE NobodyAhead'
  OBVIOUS
<1> USE DEF IInv
<1>1. ASSUME NEW n \in Node, NEW k \in Key
      PROVE  Issued(k, store[n][k])' /\ store'[n][k] <= now'
  <2>1. /\ store[n][k] \in Version /\ Issued(k, store[n][k])
        /\ store[n][k] <= now /\ now \in Nat
    BY StoreType DEF NobodyAhead, TypeOK
  <2>2. now' \in Nat /\ now' >= now
    <3>1. now' = now \/ now' = now + 1
      BY DEF Next, vars, Originate, Recv, DoSend, Elapse
    <3> QED
      BY <2>1, <3>1
  <2>3. CASE store'[n][k] = store[n][k]
    <3>1. Issued(k, store[n][k])'
      BY <2>1, <2>3, IssuedStays
    <3> QED
      BY <2>1, <2>2, <2>3, <3>1 DEF Version, Absent
  <2>4. ASSUME NEW o \in Node, NEW j \in Key, Originate(o, j), store'[n][k] # store[n][k]
        PROVE  Issued(k, store[n][k])' /\ store'[n][k] <= now'
    <3>1. n = o /\ k = j
      BY <2>4, OriginateFacts
    <3>2. now' = now /\ n \in Origins[k]
      BY <2>4, <3>1 DEF Originate
    <3>3. store'[n][k] \in Nat /\ store'[n][k] <= now
      BY <2>4, <3>1, OriginateFacts
    <3> QED
      BY <3>1, <3>2, <3>3 DEF Issued
  <2>5. ASSUME NEW m \in msgs, Recv(m), store'[n][k] # store[n][k]
        PROVE  Issued(k, store[n][k])' /\ store'[n][k] <= now'
    <3>1. Fresh(m) /\ now' = now
      BY <2>5 DEF Recv
    <3>2. n = m.to /\ k = m.key /\ store'[n][k] = m.ts /\ m.ts \in Nat
      BY <2>5, <3>1, FreshFacts
    <3>3. Issued(k, m.ts)
      BY <3>2 DEF NobodyAhead
    <3>4. m.ts <= now
      <4>1. PICK o \in Origins[k] : m.ts <= store[o][k]
        BY <3>3 DEF Issued
      <4>2. o \in Node /\ store[o][k] \in Version /\ store[o][k] <= now
        BY <4>1, KeyAssumption, StoreType DEF NobodyAhead
      <4> QED
        BY <2>1, <3>2, <4>1, <4>2 DEF Version, Absent
    <3>5. Issued(k, m.ts)'
      BY <3>2, <3>3, IssuedStays DEF Version
    <3> QED
      BY <3>1, <3>2, <3>4, <3>5
  <2> QED
    BY <2>3, <2>4, <2>5 DEF Next, vars, DoSend, Elapse
<1>2. \A m \in msgs' \cup delayed' : Issued(m.key, m.ts)'
  BY SentIsIssued
<1> QED
  BY <1>1, <1>2 DEF NobodyAhead

\* Whatever a node has and a peer has not stays on its way to the peer.
LEMMA HandedOnStep == IInv /\ TypeOK' /\ [Next]_vars => HandedOn'
<1> SUFFICES ASSUME IInv, TypeOK', [Next]_vars,
                    NEW n \in Node, NEW p \in Peers[n], NEW k \in Key
             PROVE  \/ store'[p][k] >= store'[n][k]
                    \/ DelayedSend(n, k, store'[n][k]) \in delayed'
                    \/ Single(p, k, store'[n][k]) \in msgs'
  BY DEF HandedOn
<1> DEFINE Goal == \/ store'[p][k] >= store'[n][k]
                   \/ DelayedSend(n, k, store'[n][k]) \in delayed'
                   \/ Single(p, k, store'[n][k]) \in msgs'
<1> USE DEF IInv
<1>1. /\ p \in Node
      /\ store[n][k] \in Version /\ store[p][k] \in Version
      /\ store'[n][k] \in Version /\ store'[p][k] \in Version
  BY FloodAssumption, StoreType DEF TypeOK, State
<1>2. \/ store[p][k] >= store[n][k]
      \/ DelayedSend(n, k, store[n][k]) \in delayed
      \/ Single(p, k, store[n][k]) \in msgs
  BY DEF HandedOn
<1>3. store'[p][k] >= store[p][k]
  BY <1>1, GrowthStep
\* What p has caught up with it does not lose.
<1>4. ASSUME store'[n][k] = store[n][k], store[p][k] >= store[n][k] PROVE Goal
  BY <1>1, <1>3, <1>4 DEF Version, Absent
<1>5. ASSUME NEW o \in Node, NEW j \in Key, Originate(o, j) PROVE Goal
  <2>1. msgs' = msgs \cup Broadcast(o, j, StampOf(j, now)) /\ delayed' = delayed
    BY <1>5 DEF Originate
  <2>2. CASE o = n /\ j = k
    <3>1. store'[n][k] = StampOf(k, now)
      BY <1>5, <2>2, OriginateFacts
    <3>2. Single(p, k, StampOf(k, now)) \in Broadcast(n, k, StampOf(k, now))
      BY DEF Broadcast
    <3> QED
      BY <2>1, <2>2, <3>1, <3>2
  <2>3. CASE ~ (o = n /\ j = k)
    <3>1. store'[n][k] = store[n][k]
      BY <1>5, <2>3, OriginateFacts
    <3> QED
      BY <1>2, <1>4, <2>1, <3>1
  <2> QED
    BY <2>2, <2>3
<1>6. ASSUME NEW m \in msgs, Recv(m) PROVE Goal
  <2>1. msgs' = msgs \ {m} /\ delayed \subseteq delayed'
    BY <1>6 DEF Recv
  <2>2. CASE Fresh(m) /\ m.to = n /\ m.key = k
    BY <1>6, <2>2, FreshFacts DEF Recv
  <2>3. CASE ~ (Fresh(m) /\ m.to = n /\ m.key = k)
    <3>1. store'[n][k] = store[n][k]
      <4>1. CASE Fresh(m)
        BY <1>6, <2>3, <4>1, FreshFacts
      <4>2. CASE ~ Fresh(m)
        BY <1>6, <4>2 DEF Recv
      <4> QED
        BY <4>1, <4>2
    <3>2. CASE m = Single(p, k, store[n][k])
      <4>1. m.to = p /\ m.key = k /\ m.ts = store[n][k]
        BY <3>2 DEF Single
      <4>2. CASE Fresh(m)
        BY <1>1, <1>6, <3>1, <4>1, <4>2, FreshFacts DEF Version, Absent
      <4>3. CASE ~ Fresh(m)
        BY <1>1, <1>4, <3>1, <4>1, <4>3 DEF Fresh, Supersedes, Version, Absent
      <4> QED
        BY <4>2, <4>3
    <3>3. CASE m # Single(p, k, store[n][k])
      BY <1>2, <1>4, <2>1, <3>1, <3>3
    <3> QED
      BY <3>2, <3>3
  <2> QED
    BY <2>2, <2>3
<1>7. ASSUME NEW d \in delayed, DoSend(d) PROVE Goal
  <2>1. /\ store' = store
        /\ delayed' = delayed \ {d}
        /\ msgs' = msgs \cup Broadcast(d.node, d.key, d.ts)
    BY <1>7 DEF DoSend
  <2>2. CASE d = DelayedSend(n, k, store[n][k])
    <3>1. d.node = n /\ d.key = k /\ d.ts = store[n][k]
      BY <2>2 DEF DelayedSend
    <3>2. Single(p, k, store[n][k]) \in Broadcast(d.node, d.key, d.ts)
      BY <3>1 DEF Broadcast
    <3> QED
      BY <2>1, <3>2
  <2>3. CASE d # DelayedSend(n, k, store[n][k])
    BY <1>2, <1>4, <2>1, <2>3
  <2> QED
    BY <2>2, <2>3
<1>8. CASE Elapse
  BY <1>2, <1>4, <1>8 DEF Elapse
<1>9. CASE UNCHANGED vars
  BY <1>2, <1>4, <1>9 DEF vars
<1> QED
  BY <1>5, <1>6, <1>7, <1>8, <1>9 DEF Next

\* Every step preserves the inductive invariant.
LEMMA InvStep == IInv /\ [Next]_vars => IInv'
  BY TypeStep, AheadStep, HandedOnStep DEF IInv

\* The inductive invariant holds in every reachable state.
THEOREM Invariance == Spec => []IInv
  BY InvInit, InvStep, PTL DEF Spec

\* Every reachable state is well typed.
THEOREM TypeCorrect == Spec => []TypeOK
<1>1. IInv => TypeOK
  BY DEF IInv
<1> QED
  BY <1>1, Invariance, PTL

\* No node, message or forward is ahead of the originators or of the time.
THEOREM NobodyIsAhead == Spec => []NobodyAhead
<1>1. IInv => NobodyAhead
  BY DEF IInv
<1> QED
  BY <1>1, Invariance, PTL

\* What a node has and a peer has not is on its way to the peer.
THEOREM VersionsAreHandedOn == Spec => []HandedOn
<1>1. IInv => HandedOn
  BY DEF IInv
<1> QED
  BY <1>1, Invariance, PTL

\* When the flood has died out, peers agree on everything.
THEOREM QuietPeersAgree == Spec => []QuietMeansAgreed
<1>1. IInv => QuietMeansAgreed
  <2> SUFFICES ASSUME IInv, msgs = {}, delayed = {}, NEW n \in Node, NEW p \in Peers[n]
               PROVE  store[n] = store[p]
    BY DEF QuietMeansAgreed
  <2> USE DEF IInv
  <2>1. p \in Node /\ n \in Peers[p]
    BY FloodAssumption
  <2>2. \A k \in Key : store[p][k] >= store[n][k] /\ store[n][k] >= store[p][k]
    BY <2>1 DEF HandedOn
  <2>3. store[n] \in [Key -> Version] /\ store[p] \in [Key -> Version]
    BY <2>1 DEF TypeOK, State
  <2>4. \A k \in Key : store[n][k] = store[p][k]
    BY <2>2, <2>3 DEF Version, Absent
  <2> QED
    BY <2>3, <2>4
<1> QED
  BY <1>1, Invariance, PTL

-----------------------------------------------------------------------------
(***************************************************************************)
(* Refinement: an origination is a Publish, a fresh delivery is a Learn,   *)
(* time passes in both, and everything else only moves messages.           *)
(***************************************************************************)

\* Nothing stored is also the initial state of the abstract specification.
LEMMA PromiseInit == Init => Promise!Init
  BY DEF Init, Promise!Init, Nothing, Promise!Nothing, Absent, Promise!Absent

\* An origination publishes: the stamp is not older than the stored version.
LEMMA OriginatePublishes ==
  ASSUME IInv, NEW n \in Node, NEW k \in Key, Originate(n, k)
  PROVE  Promise!Publish(n, k)
<1>1. StampOf(k, now) >= store[n][k]
  BY OriginateFacts DEF IInv
<1>2. StampOf(k, now) = Promise!StampOf(k, now)
  BY DEF StampOf, Promise!StampOf
<1>3. Stamped(store[n], k, now) = Promise!Stamped(store[n], k, now)
  BY <1>2 DEF Stamped, Promise!Stamped
<1> QED
  BY <1>1, <1>2, <1>3 DEF Originate, Promise!Publish

\* A fresh delivery makes the receiver learn one issued, newer version.
LEMMA RecvLearns ==
  ASSUME IInv, IInv', NEW m \in msgs, Recv(m), Fresh(m)
  PROVE  Promise!Learn(m.to)
<1> DEFINE s == [store[m.to] EXCEPT ![m.key] = m.ts]
<1>1. /\ m.to \in Node /\ m.key \in Key /\ m.ts \in Nat
      /\ m.ts > store[m.to][m.key]
      /\ store[m.to] \in [Key -> Version]
  BY FreshFacts DEF IInv, TypeOK, State
<1>2. store' = [store EXCEPT ![m.to] = s] /\ now' = now
  BY DEF Recv
<1>3. s[m.key] = m.ts /\ \A k \in Key : k # m.key => s[k] = store[m.to][k]
  BY <1>1
<1>4. s \in [Key -> Version]
  BY <1>1 DEF Version
<1> HIDE DEF s
<1>5. store'[m.to] = s
  BY <1>1, <1>2 DEF IInv, TypeOK
<1>6. \A k \in Key : s[k] <= now
  BY <1>1, <1>2, <1>5 DEF IInv, NobodyAhead
<1>7. s \in [Key -> Promise!Past]
  BY <1>4, <1>6 DEF Version, Absent, Promise!Past, Promise!Absent, IInv, TypeOK
<1>8. Promise!Issued(m.key, m.ts)
  BY DEF IInv, NobodyAhead, Issued, Promise!Issued
<1> QED
  BY <1>1, <1>2, <1>3, <1>7, <1>8 DEF Promise!Learn

\* Every step is a step of the abstract specification or changes neither the
\* stores nor the time.
LEMMA PromiseStep == IInv /\ IInv' /\ [Next]_vars => [Promise!Next]_(Promise!vars)
<1> SUFFICES ASSUME IInv, IInv', [Next]_vars PROVE [Promise!Next]_(Promise!vars)
  OBVIOUS
<1>1. ASSUME NEW n \in Node, NEW k \in Key, Originate(n, k) PROVE Promise!Next
  BY <1>1, OriginatePublishes DEF Promise!Next
<1>2. ASSUME NEW m \in msgs, Recv(m), Fresh(m) PROVE Promise!Next
  BY <1>2, RecvLearns, FreshFacts DEF Promise!Next, IInv
<1>3. CASE Elapse
  BY <1>3 DEF Elapse, Promise!Elapse, Promise!Next
<1>4. CASE UNCHANGED <<store, now>>
  BY <1>4 DEF Promise!vars
<1> QED
  BY <1>1, <1>2, <1>3, <1>4 DEF Next, vars, Recv, DoSend

\* Every behaviour of the flooding nodes is one the abstract specification
\* allows.
THEOREM FloodKeepsPromise == Spec => KeepsPromise
<1>1. IInv /\ IInv' /\ [Next]_vars => [Promise!Next]_(Promise!vars)
  BY PromiseStep
<1> QED
  BY <1>1, PromiseInit, Invariance, PTL DEF Spec, KeepsPromise, Promise!Spec

=============================================================================
