---------------------------- MODULE SketchGossip ----------------------------
(***************************************************************************)
(* A population of sketch nodes (node/sketch.rs) reconciling their dedup   *)
(* states pairwise.  Every peer has a periodic ticker that sends one       *)
(* sketch per kind; the receiver compares the two live states one          *)
(* millisecond later and answers with the versions the sender lacks;       *)
(* with full reconciliation it also asks for the versions it lacks itself. *)
(*                                                                         *)
(* The messages in the mailboxes are a set, delivered in any order, which  *)
(* includes every order the per-node mailboxes can produce.  Simulated     *)
(* time is counted in seconds, the resolution of the timestamps: it moves  *)
(* only when no mailbox holds a message, and the one-millisecond events    *)
(* in between are the elements of scheduled.                               *)
(***************************************************************************)
EXTENDS GossipState

CONSTANTS
  Peers,               \* the peer graph
  Capacity,            \* per kind, the largest difference a sketch decodes
  FloodOnOriginate,    \* cfg: also broadcast what is originated
  FullReconciliation,  \* cfg: ask for what the receiver is missing
  MaxTime              \* bound of the model: the last second of the run

ASSUME SketchAssumption ==
  /\ Peers \in [Node -> SUBSET Node]
  /\ \A m, n \in Node : n \in Peers[m] => m \in Peers[n] /\ m # n
  /\ Capacity \in [Kind -> Nat]
  /\ FloodOnOriginate \in BOOLEAN
  /\ FullReconciliation \in BOOLEAN
  /\ MaxTime \in Nat

VARIABLES
  store,      \* store[n]: NodeState of n, readable by its peers
  now,        \* simulated time in seconds
  msgs,       \* messages sent and not yet handled by recv
  scheduled   \* sketches and inventories waiting for their delayed handler

vars == <<store, now, msgs, scheduled>>

-----------------------------------------------------------------------------

\* WireMessage: Single and Batch carry gossip and differ only in form.
Gossip(to, items) == [type |-> "gossip", to |-> to, items |-> items]
Sketch(from, to, kind) == [type |-> "sketch", from |-> from, to |-> to, kind |-> kind]
Inventory(from, to, keys) == [type |-> "inventory", from |-> from, to |-> to, keys |-> keys]

GossipMsg == [type : {"gossip"}, to : Node, items : State]
SketchMsg == [type : {"sketch"}, from : Node, to : Node, kind : Kind]
InventoryMsg == [type : {"inventory"}, from : Node, to : Node, keys : SUBSET Key]

TypeOK ==
  /\ store \in [Node -> State]
  /\ now \in Nat
  /\ msgs \subseteq GossipMsg \cup SketchMsg \cup InventoryMsg
  /\ scheduled \subseteq SketchMsg \cup InventoryMsg

Init ==
  /\ store = [n \in Node |-> Nothing]
  /\ now = 0
  /\ msgs = {}
  /\ scheduled = {}

-----------------------------------------------------------------------------

\* originate: stamp, then broadcast only in the flooding hybrid.
Originate(n, k) ==
  /\ n \in Origins[k]
  /\ MayStamp(store[n], k)
  /\ store' = [store EXCEPT ![n] = Stamped(@, k, now)]
  /\ msgs' = msgs \cup
       IF FloodOnOriginate
       THEN {Gossip(p, [Nothing EXCEPT ![k] = StampOf(k, now)]) : p \in Peers[n]}
       ELSE {}
  /\ UNCHANGED <<now, scheduled>>

\* The stagger is far longer than a round, so a pair's next tick finds its
\* previous sketches handled; this also bounds the messages in flight.
RoundOver(n, p) ==
  ~ \E m \in msgs \cup scheduled : m.type = "sketch" /\ m.from = n /\ m.to = p

\* tick_for_peer: one sketch per kind to one peer.
Tick(n, p) ==
  /\ p \in Peers[n]
  /\ RoundOver(n, p)
  /\ msgs' = msgs \cup {Sketch(n, p, kind) : kind \in Kind}
  /\ UNCHANGED <<store, now, scheduled>>

\* recv of a Single or a Batch: absorb, never re-broadcast.
RecvGossip(m) ==
  /\ m.type = "gossip"
  /\ store' = [store EXCEPT ![m.to] = Absorb(@, m.items)]
  /\ msgs' = msgs \ {m}
  /\ UNCHANGED <<now, scheduled>>

\* recv of a Sketch or an Inventory: schedule its handler.
RecvDelayed(m) ==
  /\ m.type \in {"sketch", "inventory"}
  /\ msgs' = msgs \ {m}
  /\ scheduled' = scheduled \cup {m}
  /\ UNCHANGED <<store, now>>

-----------------------------------------------------------------------------

\* The diff of handle_sketch: side A is the sender, side B the receiver,
\* both read live when the handler runs.
SketchDiff(from, to, kind) ==
  ComputeDiff(store[from], store[to], Idx[from], Idx[to], KeysOf(kind),
              IF FullReconciliation THEN "Both" ELSE "B")

\* Mutated form: a difference of exactly the capacity is refused.
MutOverflowsAtCapacity(d, kind) == TotalDiff(d) >= Capacity[kind]

Overflows(d, kind) == TotalDiff(d) > Capacity[kind]

\* Mutated form: nothing is sent back to the sketch's sender.
MutReplyNone(m, d) == {}

Reply(m, d) == IF d.b_newer # Nothing THEN {Gossip(m.from, d.b_newer)} ELSE {}

\* Mutated form: the receiver asks for the keys it is ahead on.
MutFollowUpOwnSide(m, d) ==
  IF FullReconciliation /\ d.b_newer # Nothing
  THEN {Inventory(m.to, m.from, {k \in Key : d.b_newer[k] # Absent})}
  ELSE {}

FollowUp(m, d) ==
  IF FullReconciliation /\ d.a_newer # Nothing
  THEN {Inventory(m.to, m.from, {k \in Key : d.a_newer[k] # Absent})}
  ELSE {}

\* handle_sketch: on overflow the round ends without an answer.
HandleSketch(m) ==
  LET d == SketchDiff(m.from, m.to, m.kind)
  IN  /\ m.type = "sketch"
      /\ scheduled' = scheduled \ {m}
      /\ msgs' = msgs \cup IF Overflows(d, m.kind) THEN {} ELSE Reply(m, d) \cup FollowUp(m, d)
      /\ UNCHANGED <<store, now>>

\* handle_inventory: answer with the current version of every key asked for.
HandleInventory(m) ==
  LET items == Select(store[m.to], m.keys)
  IN  /\ m.type = "inventory"
      /\ scheduled' = scheduled \ {m}
      /\ msgs' = msgs \cup IF items # Nothing THEN {Gossip(m.from, items)} ELSE {}
      /\ UNCHANGED <<store, now>>

\* The simulator moves time on only when every mailbox is empty.
Elapse ==
  /\ msgs = {}
  /\ now < MaxTime
  /\ now' = now + 1
  /\ UNCHANGED <<store, msgs, scheduled>>

Next ==
  \/ \E n \in Node, k \in Key : Originate(n, k)
  \/ \E n, p \in Node : Tick(n, p)
  \/ \E m \in msgs : RecvGossip(m) \/ RecvDelayed(m)
  \/ \E m \in scheduled : HandleSketch(m) \/ HandleInventory(m)
  \/ Elapse

Spec == Init /\ [][Next]_vars

\* The periodic tickers never stop, a mailbox is drained in order, so nothing
\* in it waits for ever, and a scheduled handler runs when its time has come.
\* Nothing is assumed of the originations: they may never happen, or go on.
Fairness ==
  \A n \in Node :
    /\ \A k \in Key, v \in 0 .. MaxTime :
         WF_vars(\E m \in msgs : m.to = n /\ RecvGossip(m) /\ m.items[k] = v)
    /\ \A p \in Peers[n] :
         /\ WF_vars(Tick(n, p))
         /\ WF_vars(\E m \in msgs : m.to = n /\ RecvDelayed(m) /\ m.from = p)
         /\ WF_vars(\E m \in scheduled : m.to = n /\ m.from = p /\ HandleSketch(m))
         /\ WF_vars(\E m \in scheduled : m.to = n /\ m.from = p /\ HandleInventory(m))

FairSpec == Spec /\ Fairness

-----------------------------------------------------------------------------
(***************************************************************************)
(* Safety                                                                  *)
(***************************************************************************)

\* Some originator of k has version v of it, or a newer one.
Issued(k, v) == \E o \in Origins[k] : v <= store[o][k]

\* No node stores, and no message carries, a version that no originator of
\* the key has got to: originate_stamp overwrites the originator's entry
\* without a look, which is right only as long as nobody is ahead of it.
NobodyAhead ==
  /\ \A n \in Node, k \in Key : Issued(k, store[n][k])
  /\ \A m \in msgs : m.type = "gossip" => \A k \in Key : Issued(k, m.items[k])

\* Every stored version dates from the past: the next origination of the
\* key cannot be older than what any node holds.
NoFutureStamp ==
  \A n \in Node, k \in Key : store[n][k] <= now

\* handle_inventory silently drops the keys it does not find; it never has
\* to, however late the request is handled.
InventoryAnswerable ==
  \A m \in msgs \cup scheduled : m.type = "inventory" =>
    m.keys # {} /\ \A k \in m.keys : store[m.to][k] # Absent

\* A node never falls back to an older version of a key, not even its own
\* when it originates without consulting the stored timestamp.
NeverRegress ==
  [][\A n \in Node, k \in Key : store'[n][k] >= store[n][k]]_vars

\* The gossip g is news to the sender of the sketch m and fits the capacity
\* the sketch was sized for.
IsNews(m, g) ==
  /\ g.to = m.from
  /\ \A k \in Key : g.items[k] # Absent => g.items[k] > store[m.from][k]
  /\ Cardinality({k \in Key : g.items[k] # Absent}) <= Capacity[m.kind]

\* The gossip a sketch is answered with is news to the sketch's sender and
\* fits the capacity the sketch was sized for.
AnswersAreNews ==
  [][\A m \in scheduled : HandleSketch(m) =>
       \A g \in msgs' \ msgs : g.type = "gossip" => IsNews(m, g)]_vars

\* What the sketch nodes do is what gossip promises.
Promise == INSTANCE GossipPromise WITH store <- store, now <- now

KeepsPromise == Promise!Spec

(***************************************************************************)
(* Liveness                                                                *)
(***************************************************************************)

\* With enough capacity every version any node has reaches every node, at
\* that version or a newer one.
Propagates ==
  \A m, n \in Node, k \in Key, v \in 0 .. MaxTime :
    (store[m][k] = v) ~> (store[n][k] >= v)

\* Whatever the capacity, two peers end up with the same entries of a kind
\* unless their difference overflows the sketch.
ReconciledOrOverflow ==
  <>[](\A n \in Node : \A p \in Peers[n] : \A kind \in Kind :
         \/ \A k \in KeysOf(kind) : store[n][k] = store[p][k]
         \/ TotalDiff(SketchDiff(n, p, kind)) > Capacity[kind])

=============================================================================
