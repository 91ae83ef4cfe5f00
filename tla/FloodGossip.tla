---------------------------- MODULE FloodGossip ----------------------------
(***************************************************************************)
(* A population of flooding nodes (node/flooding.rs).  What a node         *)
(* originates it sends to every peer at once; what is fresh to it when it  *)
(* arrives it forwards to every peer one forward_delay later; the rest is  *)
(* dropped.                                                                *)
(*                                                                         *)
(* Every message is a Single.  The mailboxes and the scheduled do_send     *)
(* events are sets, taken in any order: a second copy of a message changes *)
(* nothing but the duplicate counters, which are left out.  Simulated time *)
(* is counted in seconds, the resolution of the timestamps, and moves only *)
(* when no mailbox holds a message.                                        *)
(***************************************************************************)
EXTENDS GossipState

CONSTANTS
  Peers,     \* the peer graph
  MaxTime    \* bound of the model: the last second of the run

ASSUME FloodAssumption ==
  /\ Peers \in [Node -> SUBSET Node]
  /\ \A m, n \in Node : n \in Peers[m] => m \in Peers[n] /\ m # n
  /\ MaxTime \in Nat

VARIABLES
  store,     \* store[n]: NodeState of n
  now,       \* simulated time in seconds
  msgs,      \* messages sent and not yet handled by recv
  delayed    \* the do_send events scheduled by recv

vars == <<store, now, msgs, delayed>>

-----------------------------------------------------------------------------

Single(to, k, v) == [to |-> to, key |-> k, ts |-> v]
DelayedSend(n, k, v) == [node |-> n, key |-> k, ts |-> v]

TypeOK ==
  /\ store \in [Node -> State]
  /\ now \in Nat
  /\ msgs \subseteq [to : Node, key : Key, ts : Nat]
  /\ delayed \subseteq [node : Node, key : Key, ts : Nat]

Init ==
  /\ store = [n \in Node |-> Nothing]
  /\ now = 0
  /\ msgs = {}
  /\ delayed = {}

\* broadcast_single: one message to each peer, the one it came from included.
Broadcast(n, k, v) == {Single(p, k, v) : p \in Peers[n]}

\* originate: stamp and broadcast at once.
Originate(n, k) ==
  /\ n \in Origins[k]
  /\ MayStamp(store[n], k)
  /\ store' = [store EXCEPT ![n] = Stamped(@, k, now)]
  /\ msgs' = msgs \cup Broadcast(n, k, StampOf(k, now))
  /\ UNCHANGED <<now, delayed>>

Fresh(m) == Supersedes(m.ts, store[m.to][m.key])

\* Mutated form: what is already stored is dropped only if it is older.
MutRecvForwardEqual(m) ==
  /\ msgs' = msgs \ {m}
  /\ IF m.ts >= store[m.to][m.key]
     THEN /\ store' = [store EXCEPT ![m.to][m.key] = m.ts]
          /\ delayed' = delayed \cup {DelayedSend(m.to, m.key, m.ts)}
     ELSE UNCHANGED <<store, delayed>>
  /\ UNCHANGED now

\* recv: store and schedule the forward if fresh, drop it otherwise.
Recv(m) ==
  /\ msgs' = msgs \ {m}
  /\ IF Fresh(m)
     THEN /\ store' = [store EXCEPT ![m.to][m.key] = m.ts]
          /\ delayed' = delayed \cup {DelayedSend(m.to, m.key, m.ts)}
     ELSE UNCHANGED <<store, delayed>>
  /\ UNCHANGED now

\* Mutated form: a forward overtaken by a newer version is not sent, and
\* the newer one with it.
MutDoSendDropsKey(d) ==
  /\ delayed' = {e \in delayed : e.node # d.node \/ e.key # d.key}
  /\ msgs' = msgs \cup Broadcast(d.node, d.key, d.ts)
  /\ UNCHANGED <<store, now>>

\* do_send: forward, even when a newer version has been stored meanwhile.
DoSend(d) ==
  /\ delayed' = delayed \ {d}
  /\ msgs' = msgs \cup Broadcast(d.node, d.key, d.ts)
  /\ UNCHANGED <<store, now>>

\* The simulator moves time on only when every mailbox is empty.
Elapse ==
  /\ msgs = {}
  /\ now < MaxTime
  /\ now' = now + 1
  /\ UNCHANGED <<store, msgs, delayed>>

Next ==
  \/ \E n \in Node, k \in Key : Originate(n, k)
  \/ \E m \in msgs : Recv(m)
  \/ \E d \in delayed : DoSend(d)
  \/ Elapse

Spec == Init /\ [][Next]_vars

\* A mailbox is drained in order and a scheduled event runs when its time
\* has come, so no message and no forward waits for ever.  Nothing is
\* assumed of the originations.
Fairness ==
  \A n \in Node, k \in Key, v \in 0 .. MaxTime :
    /\ WF_vars(Single(n, k, v) \in msgs /\ Recv(Single(n, k, v)))
    /\ WF_vars(DelayedSend(n, k, v) \in delayed /\ DoSend(DelayedSend(n, k, v)))

FairSpec == Spec /\ Fairness

-----------------------------------------------------------------------------
(***************************************************************************)
(* Safety                                                                  *)
(***************************************************************************)

\* Some originator of k has version v of it, or a newer one.
Issued(k, v) == \E o \in Origins[k] : v <= store[o][k]

\* No node stores, sends or is about to forward a version that no
\* originator of the key has got to, nor one stamped in the future.
NobodyAhead ==
  /\ \A n \in Node, k \in Key : Issued(k, store[n][k]) /\ store[n][k] <= now
  /\ \A m \in msgs \cup delayed : Issued(m.key, m.ts)

\* What n has and its peer p has not is on its way from n to p, or waits to
\* be forwarded: no version stops spreading because a newer one, a
\* duplicate or an origination came in between.
HandedOn ==
  \A n \in Node : \A p \in Peers[n] : \A k \in Key :
    \/ store[p][k] >= store[n][k]
    \/ DelayedSend(n, k, store[n][k]) \in delayed
    \/ Single(p, k, store[n][k]) \in msgs

\* When nothing is on its way, peers have the same view.
QuietMeansAgreed ==
  msgs = {} /\ delayed = {} => \A n \in Node : \A p \in Peers[n] : store[n] = store[p]

\* What the flooding nodes do is what gossip promises.
Promise == INSTANCE GossipPromise WITH store <- store, now <- now

KeepsPromise == Promise!Spec

(***************************************************************************)
(* Liveness                                                                *)
(***************************************************************************)

\* Every version any node has reaches every node, at that version or a
\* newer one.
Propagates ==
  \A m, n \in Node, k \in Key, v \in 0 .. MaxTime :
    (store[m][k] = v) ~> (store[n][k] >= v)

\* Flooding dies out, also around a cycle: once nothing is originated any
\* more, the last message is delivered and none follows.
DiesOut ==
  (<>[][\A n \in Node, k \in Key : ~ Originate(n, k)]_vars)
    => <>[](msgs = {} /\ delayed = {})

=============================================================================
