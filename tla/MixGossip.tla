------------------------------ MODULE MixGossip ------------------------------
(***************************************************************************)
(* A mixed population, as run_stagger_population of sim.rs wires it: CLN   *)
(* and LND nodes (StaggerGossip) and sketch nodes (SketchGossip) on one    *)
(* peer graph, over one set of node states.                                *)
(*                                                                         *)
(* A sketch node absorbs a batch and does not pass it on; a CLN or LND     *)
(* node takes what a sketch node broadcasts and ignores its sketches and   *)
(* inventories.  So gossip leaves a stagger node to all its peers, and a   *)
(* sketch node only to sketch nodes, but for what it originates itself.    *)
(***************************************************************************)
EXTENDS StaggerGossip

CONSTANTS
  Capacity, FloodOnOriginate, FullReconciliation,  \* of the sketch nodes
  StartAt       \* bound of the model: when a key is originated

VARIABLES
  wires,        \* what sketch nodes send
  scheduled     \* what they schedule

\* msgs, pending and trains are what CLN and LND nodes send, queue and schedule.
staggerVars == <<msgs, pending, trains>>
sketchVars == <<wires, scheduled>>
mixVars == <<store, now, staggerVars, sketchVars>>

ASSUME MixAssumption ==
  /\ Capacity \in [Kind -> Nat]
  /\ FloodOnOriginate \in BOOLEAN
  /\ FullReconciliation \in BOOLEAN
  /\ StartAt \in [Key -> SUBSET Nat]

Sket == INSTANCE SketchGossip WITH msgs <- wires

IsSketch(n) == Proto[n] = "sketch"

MixTypeOK == TypeOK /\ Sket!TypeOK

MixInit == Init /\ Sket!Init

-----------------------------------------------------------------------------

MixOriginate(n, k) ==
  /\ now \in StartAt[k]
  /\ \/ ~IsSketch(n) /\ Originate(n, k) /\ UNCHANGED sketchVars
     \/ IsSketch(n) /\ Sket!Originate(n, k) /\ UNCHANGED staggerVars

\* recv of a sketch node, for a batch of a stagger node: absorbed, no more.
AbsorbBatch(m) ==
  /\ store' = [store EXCEPT ![m.to] = AbsorbItems(@, m.items).state]
  /\ msgs' = msgs \ {m}
  /\ UNCHANGED <<now, pending, trains>>

RecvBatch(m) ==
  /\ \/ Recv(m)
     \/ IsSketch(m.to) /\ AbsorbBatch(m)
  /\ UNCHANGED sketchVars

\* What a sketch node broadcasts, as the batch a stagger node absorbs.
AsItems(m) == SetToSeq({ItemOf(k, m.items[k]) : k \in {k \in Key : m.items[k] # Absent}})

\* Mutated form: what comes from a sketch node is absorbed and not queued.
MutRecvWireKept(m) ==
  /\ ~IsSketch(m.to)
  /\ m.type = "gossip"
  /\ store' = [store EXCEPT ![m.to] = AbsorbItems(@, AsItems(m)).state]
  /\ wires' = wires \ {m}
  /\ UNCHANGED <<now, msgs, pending, trains, scheduled>>

\* recv of a CLN or LND node, for what a sketch node sends.
RecvWire(m) ==
  LET absorbed == AbsorbItems(store[m.to], AsItems(m))
  IN  /\ ~IsSketch(m.to)
      /\ m.type = "gossip"
      /\ store' = [store EXCEPT ![m.to] = absorbed.state]
      /\ pending' = [pending EXCEPT ![m.to] = @ \o absorbed.fresh]
      /\ wires' = wires \ {m}
      /\ UNCHANGED <<now, msgs, trains, scheduled>>

\* The empty arms of their match.
Ignore(m) ==
  /\ ~IsSketch(m.to)
  /\ m.type \in {"sketch", "inventory"}
  /\ wires' = wires \ {m}
  /\ UNCHANGED <<store, now, scheduled, staggerVars>>

\* Mutated form: a sketch node passes on what it learns.
MutRecvSketchNodeRelays(m) ==
  /\ IsSketch(m.to)
  /\ \/ Sket!RecvGossip(m) /\ msgs' = msgs \cup Broadcast(m.to, AsItems(m))
     \/ Sket!RecvDelayed(m) /\ UNCHANGED msgs
  /\ UNCHANGED <<pending, trains>>

\* recv of a sketch node, for what another one sends.
RecvSketchNode(m) ==
  /\ IsSketch(m.to)
  /\ Sket!RecvGossip(m) \/ Sket!RecvDelayed(m)
  /\ UNCHANGED staggerVars

TickStagger(n) == (TickCln(n) \/ TickLnd(n)) /\ UNCHANGED sketchVars

SendTrickled(n, t) == SendBatch(n, t) /\ UNCHANGED sketchVars

TickSketch(n, p) == IsSketch(n) /\ Sket!Tick(n, p) /\ UNCHANGED staggerVars

HandleSketch(m) == Sket!HandleSketch(m) /\ UNCHANGED staggerVars

HandleInventory(m) == Sket!HandleInventory(m) /\ UNCHANGED staggerVars

MixElapse ==
  /\ msgs = {} /\ wires = {}
  /\ now < MaxTime
  /\ now' = now + 1
  /\ UNCHANGED <<store, staggerVars, sketchVars>>

MixNext ==
  \/ \E n \in Node, k \in Key : MixOriginate(n, k)
  \/ \E m \in msgs : RecvBatch(m)
  \/ \E m \in wires : RecvWire(m) \/ Ignore(m) \/ RecvSketchNode(m)
  \/ \E n \in Node : TickStagger(n)
  \/ \E n \in Node : \E t \in trains[n] : SendTrickled(n, t)
  \/ \E n, p \in Node : TickSketch(n, p)
  \/ \E m \in scheduled : HandleSketch(m) \/ HandleInventory(m)
  \/ MixElapse

MixSpec == MixInit /\ [][MixNext]_mixVars

-----------------------------------------------------------------------------

\* What goes from n to its peer p by itself: a stagger node broadcasts
\* whatever it learns, sketch nodes reconcile among themselves.
Passes(n, p) == IsSketch(n) => IsSketch(p)

\* The originators of k, and with flood_on_originate also the peers of those
\* that are sketch nodes.
Started(k) ==
  Origins[k] \cup {p \in Node : FloodOnOriginate /\ Peers[p] \cap Origins[k] # {}}

\* Where k gets to from there.
Reached ==
  LET Closed(S) == \A n \in S : \A p \in Peers[n] : Passes(n, p) => p \in S
  IN  [k \in Key |->
        {n \in Node : \A S \in SUBSET Node : Started(k) \subseteq S /\ Closed(S) => n \in S}]

\* Sketch nodes are no bridge: what a sketch node has by reconciliation or
\* from a peer's broadcast it never gives to a CLN or LND node, and so a
\* stagger node behind one does not learn of it on any path through it.
StaysAmongSketches == \A n \in Node, k \in Key : store[n][k] # Absent => n \in Reached[k]

\* What n owes all its peers: everything, or for a sketch node what nobody
\* else originates.  (The channel announcement it hears from the other
\* endpoint first it does not originate any more, and so broadcasts never.)
Owes(n, k) == IsSketch(n) => FloodOnOriginate /\ Origins[k] = {n}

\* What n owes a peer of either kind and the peer has not waits at n or is
\* on its way, also across the kinds.
OwedIsHandedOn ==
  \A n \in Node : \A p \in Peers[n] : \A k \in Key :
    Owes(n, k) =>
      LET it == ItemOf(k, store[n][k])
      IN  \/ store[p][k] >= it.ts
          \/ Waiting(n, it)
          \/ \E m \in msgs : m.to = p /\ Carries(m.items, it)
          \/ \E m \in wires : m.type = "gossip" /\ m.to = p /\ m.items[k] = it.ts

\* What the mixed population does is what gossip promises, too (KeepsPromise of
\* StaggerGossip).

=============================================================================
