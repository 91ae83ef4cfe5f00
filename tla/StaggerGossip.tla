--------------------------- MODULE StaggerGossip ---------------------------
(***************************************************************************)
(* A population of stagger nodes, CLN (node/cln.rs) and LND (node/lnd.rs). *)
(* Both queue what is fresh to them and broadcast the queue at their next  *)
(* tick: a CLN node as one batch, an LND node cut into chunks, the first   *)
(* at once and the others one trickle apart.  What it originates a CLN     *)
(* node broadcasts at once; an LND node puts it at the front of its queue. *)
(*                                                                         *)
(* The mailboxes are a set of messages, taken in any order.  Ticks are not *)
(* timed, so the chunks of several ticks may overlap; module Trickle says  *)
(* when they do.  Simulated time is counted in seconds and moves only when *)
(* no mailbox holds a message.                                             *)
(***************************************************************************)
EXTENDS GossipState, SubBatch, SequencesExt

CONSTANTS
  Peers,                   \* the peer graph
  Proto,                   \* the protocol of every node; a sketch node, which
                           \* takes no step here, belongs to module MixGossip
  Stagger, TrickleDelay,   \* stagger_ms and trickle_ms of the LND nodes
  MinBatchSize,            \* their min_batch_size
  MaxTime,                 \* bound of the model: the last second of the run
  MaxPending               \* bound of the model: queue that still originates

ASSUME StaggerAssumption ==
  /\ Peers \in [Node -> SUBSET Node]
  /\ \A m, n \in Node : n \in Peers[m] => m \in Peers[n] /\ m # n
  /\ Proto \in [Node -> {"cln", "lnd", "sketch"}]
  /\ Stagger \in Nat \ {0} /\ TrickleDelay \in Nat \ {0} /\ Divides(Stagger, TrickleDelay)
  /\ MinBatchSize \in Nat \ {0}
  /\ MaxTime \in Nat
  /\ MaxPending \in Nat

VARIABLES
  store,     \* store[n]: NodeState of n
  now,       \* simulated time in seconds
  msgs,      \* batches sent and not yet handled by recv
  pending,   \* pending[n]: the queue for the next tick
  trains     \* trains[n]: per tick, the chunks that wait for their send_batch

vars == <<store, now, msgs, pending, trains>>

-----------------------------------------------------------------------------

Item == [key : Key, ts : Nat]

ItemOf(k, v) == [key |-> k, ts |-> v]

\* A Single is a batch of one; the items of a batch are in the order in
\* which recv absorbs them.
Batch(to, items) == [to |-> to, items |-> items]

TypeOK ==
  /\ store \in [Node -> State]
  /\ now \in Nat
  /\ \A m \in msgs : m.to \in Node /\ m.items \in Seq(Item) /\ m.items # << >>
  /\ pending \in [Node -> Seq(Item)]
  /\ trains \in [Node -> SUBSET (Seq(Seq(Item) \ {<< >>}) \ {<< >>})]

Init ==
  /\ store = [n \in Node |-> Nothing]
  /\ now = 0
  /\ msgs = {}
  /\ pending = [n \in Node |-> << >>]
  /\ trains = [n \in Node |-> {}]

Broadcast(n, items) == {Batch(p, items) : p \in Peers[n]}

\* The items of one kind, in their order.
OfKind(items, kind) ==
  FoldLeft(LAMBDA acc, it : IF KindOf[it.key] = kind THEN Append(acc, it) ELSE acc,
           << >>, items)

\* GossipBatch::from_mixed, read in the order of recv: channel
\* announcements, channel updates, node announcements.
FromMixed(items) ==
  OfKind(items, "ChanAnns") \o OfKind(items, "ChanUpdates") \o OfKind(items, "NodeAnns")

-----------------------------------------------------------------------------

\* originate of a CLN node: broadcast at once.
OriginateCln(n, k) ==
  /\ Proto[n] = "cln"
  /\ msgs' = msgs \cup Broadcast(n, << ItemOf(k, StampOf(k, now)) >>)
  /\ UNCHANGED pending

\* originate of an LND node: to the front of the queue.
OriginateLnd(n, k) ==
  /\ Proto[n] = "lnd"
  /\ Len(pending[n]) < MaxPending
  /\ pending' = [pending EXCEPT ![n] = << ItemOf(k, StampOf(k, now)) >> \o @]
  /\ UNCHANGED msgs

Originate(n, k) ==
  /\ n \in Origins[k]
  /\ MayStamp(store[n], k)
  /\ store' = [store EXCEPT ![n] = Stamped(@, k, now)]
  /\ OriginateCln(n, k) \/ OriginateLnd(n, k)
  /\ UNCHANGED <<now, trains>>

\* Mutated form: the batch is compared with the state before it.
MutAbsorbItemsAtOnce(m, items) ==
  [state |-> FoldLeft(LAMBDA acc, it : [acc EXCEPT ![it.key] = it.ts], m,
                      SelectSeq(items, LAMBDA it : Supersedes(it.ts, m[it.key]))),
   fresh |-> SelectSeq(items, LAMBDA it : Supersedes(it.ts, m[it.key]))]

\* One item of a batch: stored, and counted as fresh, iff it supersedes.
AbsorbItem(acc, it) ==
  IF Supersedes(it.ts, acc.state[it.key])
  THEN [state |-> [acc.state EXCEPT ![it.key] = it.ts], fresh |-> Append(acc.fresh, it)]
  ELSE acc

\* Absorbing a batch item by item: the state after it and the fresh items.
AbsorbItems(m, items) == FoldLeft(AbsorbItem, [state |-> m, fresh |-> << >>], items)

\* recv: the fresh items join the queue.
Recv(m) ==
  LET absorbed == AbsorbItems(store[m.to], m.items)
  IN  /\ Proto[m.to] # "sketch"
      /\ msgs' = msgs \ {m}
      /\ store' = [store EXCEPT ![m.to] = absorbed.state]
      /\ pending' = [pending EXCEPT ![m.to] = @ \o absorbed.fresh]
      /\ UNCHANGED <<now, trains>>

\* tick of a CLN node: the whole queue in one batch.
TickCln(n) ==
  /\ Proto[n] = "cln"
  /\ pending[n] # << >>
  /\ msgs' = msgs \cup Broadcast(n, FromMixed(pending[n]))
  /\ pending' = [pending EXCEPT ![n] = << >>]
  /\ UNCHANGED <<store, now, trains>>

\* The chunks an LND node cuts its queue into.
Chunked(s) ==
  LET size == CalculateSubBatchSize(Stagger, TrickleDelay, MinBatchSize, Len(s))
      last(i) == IF i * size < Len(s) THEN i * size ELSE Len(s)
  IN  [i \in 1 .. Chunks(size, Len(s)) |-> FromMixed(SubSeq(s, (i - 1) * size + 1, last(i)))]

\* Mutated form: only the first chunk is ever sent.
MutTickLndFirstOnly(n) ==
  /\ Proto[n] = "lnd"
  /\ pending[n] # << >>
  /\ msgs' = msgs \cup Broadcast(n, Head(Chunked(pending[n])))
  /\ pending' = [pending EXCEPT ![n] = << >>]
  /\ UNCHANGED <<store, now, trains>>

\* tick of an LND node: the first chunk now, the others later.
TickLnd(n) ==
  LET chunks == Chunked(pending[n])
  IN  /\ Proto[n] = "lnd"
      /\ pending[n] # << >>
      /\ msgs' = msgs \cup Broadcast(n, Head(chunks))
      /\ trains' = [trains EXCEPT ![n] = @ \cup ({Tail(chunks)} \ {<< >>})]
      /\ pending' = [pending EXCEPT ![n] = << >>]
      /\ UNCHANGED <<store, now>>

\* send_batch: the next chunk of one tick.
SendBatch(n, t) ==
  /\ msgs' = msgs \cup Broadcast(n, Head(t))
  /\ trains' = [trains EXCEPT ![n] = (@ \ {t}) \cup ({Tail(t)} \ {<< >>})]
  /\ UNCHANGED <<store, now, pending>>

\* The simulator moves time on only when every mailbox is empty.
Elapse ==
  /\ msgs = {}
  /\ now < MaxTime
  /\ now' = now + 1
  /\ UNCHANGED <<store, msgs, pending, trains>>

Next ==
  \/ \E n \in Node, k \in Key : Originate(n, k)
  \/ \E m \in msgs : Recv(m)
  \/ \E n \in Node : TickCln(n) \/ TickLnd(n)
  \/ \E n \in Node : \E t \in trains[n] : SendBatch(n, t)
  \/ Elapse

Spec == Init /\ [][Next]_vars

Carries(items, it) == \E i \in DOMAIN items : items[i] = it

\* The ticks are periodic, a mailbox is drained in order and a scheduled
\* chunk is sent when its time has come, so nothing waits for ever.
\* Nothing is assumed of the originations.
Fairness ==
  \A n \in Node :
    /\ WF_vars(TickCln(n) \/ TickLnd(n))
    /\ \A k \in Key, v \in 0 .. MaxTime :
         /\ WF_vars(\E m \in msgs : m.to = n /\ Carries(m.items, ItemOf(k, v)) /\ Recv(m))
         /\ WF_vars(\E t \in trains[n] :
              (\E i \in DOMAIN t : Carries(t[i], ItemOf(k, v))) /\ SendBatch(n, t))

FairSpec == Spec /\ Fairness

-----------------------------------------------------------------------------
(***************************************************************************)
(* Safety                                                                  *)
(***************************************************************************)

\* What waits at n for one of its ticks or trickled chunks.
Waiting(n, it) ==
  \/ Carries(pending[n], it)
  \/ \E t \in trains[n] : \E i \in DOMAIN t : Carries(t[i], it)

\* What n has and its peer p has not is queued at n, in a chunk that has
\* still to leave, or on its way to p.
HandedOn ==
  \A n \in Node : \A p \in Peers[n] : \A k \in Key :
    \/ store[p][k] >= store[n][k]
    \/ Waiting(n, ItemOf(k, store[n][k]))
    \/ \E m \in msgs : m.to = p /\ Carries(m.items, ItemOf(k, store[n][k]))

\* When nothing is queued, scheduled or on its way, peers have the same view.
QuietMeansAgreed ==
  msgs = {} /\ (\A n \in Node : pending[n] = << >> /\ trains[n] = {}) =>
    \A n \in Node : \A p \in Peers[n] : store[n] = store[p]

\* What a node forwards it queues oldest first and never twice, so that its
\* peers see every version it has seen.  (Its own gossip an LND node queues
\* newest first: the peers drop the older versions unseen.)
ForwardedInOrder ==
  \A n \in Node : \A i, j \in DOMAIN pending[n] :
    LET a == pending[n][i]
        b == pending[n][j]
    IN  i < j /\ a.key = b.key /\ n \notin Origins[a.key] => a.ts < b.ts

\* What the stagger nodes do is what gossip promises.
Promise == INSTANCE GossipPromise WITH store <- store, now <- now

KeepsPromise == Promise!Spec

(***************************************************************************)
(* Liveness                                                                *)
(***************************************************************************)

\* Every version any node has reaches all nodes, at that version or a
\* newer one.
Propagates ==
  \A k \in Key, v \in 0 .. MaxTime :
    (\E m \in Node : store[m][k] = v) ~> (\A n \in Node : store[n][k] >= v)

=============================================================================
