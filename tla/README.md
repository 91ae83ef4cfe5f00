# lnconv-sim in TLA+

This directory holds TLA+ models of the gossip simulator in `lnconv-sim/`
(Rust, crate `lnconv-core`), the TLC instances that check them and the TLAPS
proofs about them. Paths below are relative to
`lnconv-sim/crates/lnconv-core/src/` unless they start with `lnsim/`,
`netsim/` or `configs/`.

The simulator runs a population of Lightning nodes, each a model of the NeXosim
discrete-event library with a mailbox, and measures how fast, and at what
cost, gossip reaches all of them. Four protocols can be compared: flooding,
the staggered broadcasts of CLN and LND, and set reconciliation by sketches.

## 1. Inventory

| Component | State | Operations | Interacts with |
|---|---|---|---|
| Dedup state (`state.rs`, `channels.rs`) | per node three maps, each under its own RwLock: `(scid, direction)`, node and scid to timestamp | absorb (in every node type), `originate_stamp`, `compute_diff` | read by the peers of a sketch node, live |
| Flooding node (`node/flooding.rs`) | dedup state, buffered first-seen entries | `recv`, `do_send`, `originate`, `flush_summary` | peers' mailboxes, own scheduled events |
| CLN node (`node/cln.rs`) | the same and `pending` | `recv`, `originate`, `tick`, `flush_summary` | the same |
| LND node (`node/lnd.rs`) | the same and `pending`; chunks in scheduled events | `recv`, `originate`, `tick`, `send_batch`, `flush_summary` | the same |
| Sketch node (`node/sketch.rs`) | the same, offsets and capacities | `recv`, `tick_for_peer`, `handle_sketch`, `handle_inventory`, `originate` | peers' mailboxes and peers' dedup states |
| Metrics pipeline (`metrics.rs`, `metrics_aggregator.rs`) | per node `first_seen_pending`; in the aggregator thread `in_flight`, `inflight_by_channel`, `latest_version`, `finalized` | `send_first_seen_batch`, `handle_one_first_seen`, `finalize_remaining` | one event queue from all nodes, writer channels |
| Statistics writer (`stats_writer.rs`) | one thread and channel for each file | `send`, `close`, `run_stream` | aggregator and runner hold sender clones |
| Driver (`sim.rs`) | population, wiring, prelaunched events | `run`, `drive_simulation`, `run_flooding`, `run_stagger_population` | everything |
| Peer graph (`topology/synthetic.rs`, `graph.rs`) | undirected graph, hub set | `build_peer_graph` | driver |
| Event sources (`events/`) | schedule of originations | `build` of one-shot, Poisson, replay | driver |
| Go simulator (`netsim/`, `lnsim/`) | event heap, nodes, queues, reconciliation sets | `Start`, `SendMessage`, `StaggerTick`, `HandleUpdate`, `ReconcileTick`, ... | single-threaded, by events |

Also present and not modelled: configuration, CSV and parquet input, reports,
plots, the command line, benches, payments and path finding of the Go
simulator. `PROJECT.json` lists every part with its status.

What is hard in this code, and what would make it correct:

* **Staleness.** A sketch is answered one millisecond after it arrived, from the
  live states of both ends; a follow-up request names keys read from one
  peer's state and is handled later still. Replies must be news, requests
  answerable.
* **Ordering.** Versions of a key overtake each other on different paths, in
  trickled chunks, in delayed forwards and in the reports to the aggregator.
  No node may fall back, no version may stop spreading because another one
  crossed it, no report may reopen or close the wrong message.
* **Unchecked overwriting.** `originate_stamp` writes the current second without
  looking at what is stored. That is right only if nobody can be ahead of an
  originator.
* **Symmetry.** `compute_diff` takes its locks in index order and has to turn
  request and result around with them.
* **Boundaries.** A sketch at its capacity, a last chunk that is shorter, whole
  seconds that round a trickle to zero, two originations in one second.
* **Accounting.** A message must get exactly one row, at full coverage, by
  supersession or at the end, from batches in any order.
* **Progress.** Versions reach everyone, flooding dies out, the run ends.
* **Threads.** The writers end only when every clone of the sender is gone, so the
  order in which the runner drops and joins decides whether the run ends; a
  writer that crashes must not block or silently shorten it.
* **Locks.** Threads of the executor read two maps at a time and write others; a
  comparison must see one moment, and nobody may wait in a circle or for ever.
* **Populations.** In a mixed network each kind of node handles some messages of the
  others and ignores the rest; what crosses must be what the kinds promise.
* **Tables kept by hand.** The replay keeps, next to the windows used, a list of the
  entities with room and an index into it, and changes them by swap and remove. A
  place that is not corrected shows several saturations later.
* **Repairs.** The peer graph rejects edges into hubs and replaces them afterwards;
  the replacement must not undo the cap, and must restore the degree.

## 2. Modules

| Module | Models | Based on |
|---|---|---|
| `GossipState` | the dedup state: absorbing, stamping, diffing; no variables | `state.rs`, the absorb functions of `node/*.rs` |
| `GossipPromise` | abstract specification: what any of the protocols may do to the dedup states | what `originate_stamp` and the absorb functions have in common |
| `SketchGossip` | sketch nodes | `node/sketch.rs` |
| `FloodGossip` | flooding nodes | `node/flooding.rs` |
| `StaggerGossip` | CLN and LND nodes, untimed, in one population | `node/cln.rs`, `node/lnd.rs` |
| `SubBatch`, `Trickle` | the sizing of LND chunks, and one LND node in time | `node/lnd.rs` |
| `Aggregator` | the way of first-seen reports to finished rows | `metrics.rs`, `metrics_aggregator.rs` |
| `MetricsShutdown` | the threads of the metrics pipeline and the end of a run | `metrics.rs`, `metrics_aggregator.rs`, `stats_writer.rs`, `sim.rs`, `main.rs` |
| `MixGossip` | CLN, LND and sketch nodes in one network: extends `StaggerGossip`, instantiates `SketchGossip` | `sim.rs` (`run_stagger_population`, `wire_connection`), `node/*.rs` |
| `StateLocks` | the RwLocks of one map per node, under readers and writers in several threads | `state.rs` |
| `ReplayWindows` | the replay of a captured trace, from rows to originations | `events/parquet_replay.rs` |
| `PeerGraph` | the construction of the peer graph | `topology/synthetic.rs` |
| `MCSketch`, `MCFlood`, `MCStagger`, `MCMix`, `MCAggregator`, `MCReplay`, `MCPeer` | instances for TLC | |
| `SketchGossipProofs` | theorems on `SketchGossip`, and on the two modules `state.rs` is modelled by: the operators of `GossipState` and the locks | |
| `FloodGossipProofs`, `TrickleProofs`, `MetricsShutdownProofs`, `ReplayProofs`, `PeerGraphProofs`, `AggregatorProofs` | theorems on the module of that name | |
| `MixGossipProofs` | theorems on `StaggerGossip` and `MixGossip` | |

`SketchGossip`, `FloodGossip` and `StaggerGossip` extend `GossipState`, and they
and `MixGossip` instantiate `GossipPromise` with their own `store` and `now`
(`Promise`); that each of them implements it is the property `KeepsPromise`. In `GossipPromise` only an
originator makes a version, stamped with the current second and not older than
what it has (`Publish`), and a node otherwise only moves to newer versions that
some originator has got to (`Learn`); nothing is said of messages.

### Correspondence

A **key** is one entry of one of the three maps. A **version** is its timestamp,
`Absent` if there is none; channel announcements have the one version 0.
`Idx` is `NodeState::idx`. `Origins` says who originates a key: a channel update
and a node announcement have one originator, a channel announcement is emitted
by both ends of the channel, as the event sources have it.

The **mailboxes** are one set of messages from which any may be taken. NeXosim
delivers to a mailbox in the order of sending from one sender; the set allows
that order and others, so the safety results hold for more behaviours than the
simulator has. Two equal messages in flight are one element: absorbing is
idempotent, and the counters that could tell the copies apart are left out.
A handler is one step. In the code a handler may suspend while it sends, after
it has changed its state; the state it sends from has been read by then, and a
message sent later is, for the unordered set, a message delivered later.

**Time** (`now`) is counted in seconds because timestamps are, and advances
(`Elapse`) only when no mailbox holds a message: the simulator handles
everything due before it moves on. Delays below a second (the forward delay, the
millisecond before a sketch is handled) and the tick intervals are not measured;
what waits for them is in `delayed`, `scheduled`, `pending` or `trains`, and may
wait for any time. `Trickle` measures them, in milliseconds, for one LND node.

`SketchGossip`: `Tick` is `tick_for_peer`, `RecvGossip` and `RecvDelayed` the arms
of `recv`, `HandleSketch` and `HandleInventory` the delayed handlers. A sketch has
no content in the code either: it names its sender, and `SketchDiff` reads both
live states. `RoundOver` keeps a pair's next tick back until its previous
sketches have been handled, which the stagger intervals (seconds, against a
millisecond) do in the code; it also bounds the messages.

`FloodGossip`: `Recv` is `recv` with the absorb functions, `DoSend` the delayed
forward, which sends the received version and not the stored one.

`StaggerGossip`: the queue is a sequence, because LND puts its own gossip at the
front. `AbsorbItems` folds `AbsorbItem` over a batch in the order `recv` does, `FromMixed`
sorts a batch by kind, `Chunked` cuts as `tick` does, `trains` holds for every tick the chunks not yet sent.

`MixGossip` extends `StaggerGossip`, whose `msgs` are what stagger nodes send, and
instantiates `SketchGossip` (`Sket`) over the same `store` and `now`, with a set of its
own for what sketch nodes send (`wires`). A step of a node is the step of its module
with the other module's variables unchanged; new are the crossings: `AbsorbBatch` (a
sketch node absorbs a batch and does not pass it on), `RecvWire` (a CLN or LND node
takes a sketch node's broadcast into its queue) and `Ignore` (the empty arms for
sketches and inventories).

`StateLocks`: a thread is a `Reader`, which runs `compute_diff` on two states in
either order of its arguments, or a `Writer`, which runs `originate_stamp` or one of
the absorb functions. `bit` and `readers` are parking_lot's lock: a writer takes the
write bit, which keeps new readers out, then waits for those inside (`TakeBit`,
`Insert`). `DiffFirst` and `DiffSecond` are two moments of the helper's loops, which
read both maps; `result` is by the caller's sides. A write changes the map to one of
two values, which is enough to see that a comparison mixes two moments. Nothing is
assumed of who calls, so more meets than in the simulator.

`ReplayWindows`: `LoadRow` reads a row; times count from the first row of all, which may name
nothing, so that the first event may come later. `Place`, `FindFull` and `Drop` are the turns of
the loop of `reshape` with `try_place`, `Evict` the swap and remove, `EmitTuples` the
originations of one event. Random choices are open; `used`, `hasFree`, `hasFreePos`
are the fields of `Capacity`.

`PeerGraph`: `Pick`, `AddEdges` and `TopUp` are one node's turn in the three loops of
`build_peer_graph`; `replaced` is a history variable. Random choices are open.

`Trickle`: gossip is counted, `wait` is the time to the next tick, `scheduled`
the chunks with their due times; `Pass` moves to the next event.

`Aggregator`: `Originate` and `Absorb` stand for the nodes' first-seen entries
(with `held` for the dedup state), `FlushSummary` ships a buffer, `Aggregate`
is one call of `handle_one_first_seen`, `FinalizeRemaining` the drain at the
end. `slots` and `coverage` are `MsgInflight`, `byChannel` is
`inflight_by_channel`, `latest` is `latest_version`; `recorded` is a history
variable. Times and percentiles are left out.

`MetricsShutdown`: `runner` is where `sim::run` and then `main` stand, from the first
rows written to the report; `todo` the rows the aggregator has still to send for
the event it handles, so that a send can wait or fail between two of them;
`holders` the places where a clone of the `RowSender` lives. A step is what happens
between two operations at which a thread can wait. Rows are counted, per stream;
what a report turns into is open, within `MaxRows` (which messages are finished is
the subject of `Aggregator`). `Crash` stands for the `expect`s on opening, writing and
closing a file; what detached threads do after the process has ended is left out.

## 3. What the runs check

| Run | Instance | Question |
|---|---|---|
| `sketch_line` | 3 sketch nodes in a line, one channel update, 2 versions, broadcast on origination, no follow-up requests, capacity 2 (one stale key) | Do versions reach the far end, where only reconciliation takes them (`Propagates`)? Is nobody ahead of an originator (`NobodyAhead`), is every step one of `GossipPromise`, so that no node falls back (`KeepsPromise`)? |
| `sketch_pair` | 2 sketch nodes, a channel update each, 2 versions, full reconciliation, capacity 1 (a missing key fits, a stale one overflows) | Can every follow-up request be answered (`InventoryAnswerable`)? Is every answer news to the sender and within the capacity (`AnswersAreNews`)? Do the peers agree in the end unless the sketch overflows (`ReconciledOrOverflow`)? |
| `flood_ring` | 4 flooding nodes in a ring, one channel update, 2 versions | Is what a peer lacks always on its way (`HandedOn`), does everything arrive (`Propagates`), does flooding die out on a cycle (`DiesOut`)? `KeepsPromise`. |
| `stagger_line` | LND - LND - CLN, a channel update of the first, 2 versions, up to 3 items in its queue, chunks of at least 1 | With own gossip newest first in one batch and the chunks of several ticks interleaved: does what the peer lacks always wait or travel (`HandedOn`), arrive (`Propagates`), and leave in order and once (`ForwardedInOrder`)? `KeepsPromise`. |
| `mix` | CLN - LND - sketch - sketch, a channel update of the first and of each sketch node, the last one a second later | Does gossip of a sketch node that is not broadcast stay among sketch nodes (`StaysAmongSketches`)? Does what a node owes its peers of either kind arrive or travel (`OwedIsHandedOn`)? Does the composition still implement `GossipPromise` (`KeepsPromise`)? |
| `trickle_seconds` | one LND node, 7 s stagger, 2 s trickle, minimum 2, up to 16 pending | Have all chunks left before the next tick (`OutBeforeNextTick`), each item once (`AllOut`)? |
| `trickle_millis` | 1000 ms stagger, 100 ms trickle, minimum 10 (`configs/lnd-all.toml`) | fails: `NeverOverflowsWindow` |
| `aggregator` | 3 nodes, a channel update and a node announcement, 2 versions, 4 reports | `OneRowEach`, `IndexExact`, `SupersededIsOlder`, `ReportsConserved`, `CompleteUnlessSuperseded`; and `RunEnds`. |
| `shutdown` | the six writers, those of `msg_stats` and `run_meta` may crash; 2 reports, at most one row of a kind each, channels of 1, buffers of 2 | After the end of a run, is every row in its file (`AllInFiles`), has the aggregator handled every report before it ends (`AllHandled`)? Does nothing panic but after a crash (`PanicsOnlyOnCrash`), and does the run end in any case (`Terminates`)? |
| `replay` | 2 nodes, 1 channel, 1 stranger, a run of 5 s (2 windows of 2 s and a second that belongs to none), 3 rows | Is the rate limit kept whatever is deferred, moved or jittered (`RateLimit`), everything before the deadline (`WithinRun`), the list of entities with room exact (`HasFreeExact`)? Does every event that is placed leave each node it belongs to, once, and nothing else leave (`NothingLost`)? Is none dropped without need (`NoNeedlessDrop`), and does the loop over random entities end (`Finishes`)? |
| `peer` | 6 nodes, 3 hubs with channels between any two of them, caps 2, 1 and 1, one node without channels | Has a hub at most one peer beyond its cap for each of its picks that was rejected (`HubBounded`)? Does nobody end with fewer peers than it picked while there is somebody to replace who rejected it (`DegreeKept`)? |
| `locks` | 2 readers, 2 writers, 2 states | Is a comparison of one moment and from the caller's side (`OneSnapshot`)? Can one of the waiting threads always go on (`NoCircle`), and does every call return (`CallsReturn`)? |

What a sketch node owes (`Owes`) is less than one might expect. A channel announcement is
emitted by both endpoints. A sketch node that hears it first from the other end has it
already, does not originate it any more, and so never broadcasts it: a stagger node
behind it need not get it. A sketch node therefore owes only keys nobody else originates.
A first form of the invariant left that out and held in the `mix` run, which has no such
announcement; it turned out not to be inductive, and an instance with one refuted it.

### Bounds, and why they are enough

* *Nodes.* A line of three is the smallest graph in which a version must be
  relayed; a ring of four the smallest with two paths to a node that is not a
  peer, where copies meet; two suffice for what happens between two peers.
* *Versions (`MaxTime = 1`, `MaxVersion = 1`).* Two versions are enough for one to
  overtake, replace or cross another, and with the repeated origination in one
  second also for equal ones. Safety properties relate two versions at a time.
* *Keys.* One key shows how versions of a key interact; two share a batch, a
  sketch or a queue. Keys do not interact otherwise.
* *`MaxPending`* stops originations (never receptions) while an LND queue holds
  that many; with chunks of one item a queue of two or three leaves in as many
  chunks, and the chunks of two ticks interleave.
* *`StartAt`* (`mix`) says in which second a key is originated: the update of the last
  sketch node comes a second after the others, when they have been reconciled or
  not. Both kinds of crossing happen with a queue at the LND node between.
* *Two windows, three rows* (`replay`): three announcements of the channel fill
  both windows and leave one to be dropped, announcements of a node one to be moved. The run
  is no multiple of the window: rows of its last second, and at the deadline itself,
  count for the last window. A run shorter than one window is left to the
  proofs, which hold for every length.
* *Six nodes* (`peer`): each of three hubs may keep one that keeps the next, so
  that a replacement can lead to a hub that has kept the node already and the degree pass
  the cap; the bound of `HubBounded` is reached. There are leaves of two hubs, and a node
  that can replace any of them.
* *Two readers, two writers, two states* (`locks`): both directions of comparison
  meet, each with a writer at either state; the proofs cover any number.
* *`MaxSeen = 4`* reports cover a message at all three nodes and leave one that is
  late, repeated or superseding.
* *Channels of 1, buffers of 2*, with up to three rows for one file: sends wait, a
  buffer is flushed when full and once more, half full, at the end; a crash may
  come before, between and after them.
* *Capacity* 1 and 2 make a missing key fit exactly and a stale key (which counts
  once on each side) fit exactly or overflow.

### Where the code does other than it says

* A run shows one. `trickle_millis`: `calculate_sub_batch_size` divides whole seconds,
  so with a 100 ms trickle every chunk has the minimum size, and 120 items take
  1.1 s of a 1 s stagger. The chunks of two ticks then interleave. With a stagger
  below one second and a smaller trickle the division is by zero: `Divides` is an
  assumption of the models, the configuration does not enforce it.

The others are in the models, and no property denies them:

* `originate` of the flooding node is documented (`node/flooding.rs:315`) to bump the
  timestamp past any stored value; `originate_stamp` does not look at the stored
  value, as its own comment states, so a second origination in one second has the
  timestamp, and the identity, of the first. The peers drop it;
  `total_first_seen` counts it.
* `metrics.rs:594` says that coverage counts the nodes that ever recorded a message.
  For a superseded message it depends on the order in which the nodes' buffers are
  flushed, because a report handled after its message has been finished is
  dropped (`CompleteUnlessSuperseded` says what does hold).
* `stats_writer.rs:26` says that a writer's crash is a hard error. It is one if it
  comes during the last flush. Before, it makes the aggregator panic on its next row,
  `finalize_remaining` drops the error of the join, and the run goes on to its
  report with files that were never closed.
* The head of `events/parquet_replay.rs` (line 53) says that an event whose window is
  taken is deferred to a later one of its entity. `try_place` takes any free window,
  also an earlier one.
* `build_peer_graph` says that with the hub cap on, hubs end up with exactly their
  cap of peers. On a line of five nodes, 0 to 4, with a cap of 1, let hub 1 keep 0,
  hub 2 keep 1 and hub 3 keep 2. Then 1 rejects 2 and 2 rejects 3. Node 2 may replace its
  edge by one to 3, which has kept it, and 3 replaces its own by one to 0: it ends
  with two peers. What holds is `InvitedOnly`, a
  hub has only peers it kept or replaced an edge by, and `HubBounded`, at most its cap and
  one for each of its picks that was rejected. The comment also calls the result
  deterministic in the seed; the counterparties are drawn from a `HashSet`, whose order
  differs from run to run.

The inequality documented for the chunk size
(`node/lnd.rs`, comment of `calculate_sub_batch_size`) holds for one chunk fewer
than it says (stagger 3 s, trickle 2 s, minimum 1, batch 2); the consequence drawn
from it, that the chunks leave before the next tick, is `OutBeforeNextTick` and
proved. Own gossip of an LND node leaves in the first chunk, as the comment of
`originate` says, only if that chunk is large enough for all of it.

## 4. Fairness

Liveness is checked under weak fairness of the handlers only: a message in a
mailbox is taken in the end, because a mailbox is drained in order (for each
key and version separately, since an unordered set could starve one); a
scheduled event runs, because the simulator handles every event when its time
has come; a periodic ticker never stops. Nothing is assumed of originations, and
nothing of `Elapse`: a run may stay in its first second for ever. In `Aggregator`
the thread never blocks but on an empty queue, and the simulation reaches its
deadline. In `ReplayWindows` the loops of the one thread go on. In `MetricsShutdown`
each thread goes on when it can: an operating-system thread that is not blocked is
scheduled. In `StateLocks` so does a thread that no lock holds up, and a lock is
granted in the end to a thread that finds it free again and again (strong fairness
of `ReadFirst`, `ReadSecond` and `TakeBit`): parking_lot queues the threads that wait
and is documented to be eventually fair. `Insert` needs weak fairness only, since the
write bit keeps new readers out.

The liveness results are about the protocol, not about a run of limited length:
what has not arrived by the deadline does not arrive.

## 5. What is proved

Every safety property that a passing run checks is also proved: for every number of
nodes, every peer graph, set of keys, capacity and configuration, under the
assumptions named in the modules (`KeyAssumption`, `SketchAssumption`,
`FloodAssumption`, `StaggerAssumption`, `MixAssumption`, `TrickleAssumption`,
`AggregatorAssumption`, `ShutdownAssumption`, `LocksAssumption`, `ReplayAssumption`,
`PeerAssumption`). They say of which kind the constants are, that peers are
peers of each other and the two ends of a channel different nodes, that there are finitely many keys or nodes where something is
counted, and that the division of the chunk size is not by zero.

* `SketchGossipProofs!DiffOrientation`: `compute_diff` returns the caller's view
  whichever lock comes first. The lemmas around it say what absorbing and
  stamping preserve; the other proofs cite them.
* `SketchGossipProofs`, on the nodes: `TypeOK`, `NobodyAhead`, `NoFutureStamp`,
  `InventoryAnswerable`, `NeverRegress`, `AnswersAreNews`, and that the module
  implements `GossipPromise`. The inductive invariant (`IInv`) is the conjunction of the
  first four: the type invariant, `NobodyAhead`, which covers the versions in
  messages and so gives `NoFutureStamp` and `NeverRegress` when one is absorbed
  or overwritten, and `InventoryAnswerable`, which is inductive because entries
  are never removed. `NeverRegress` needs both: an originator writes `now`
  without looking, and only `NoFutureStamp` says that this is no step back. `AnswersAreNews` follows from the orientation of the comparison, and
  from the answer holding only the receiver's half of a difference that was found to
  fit.
* `FloodGossipProofs`: `TypeOK`, `NobodyAhead`, `HandedOn`, `QuietMeansAgreed` and
  the implementation of `GossipPromise`. `HandedOn` is inductive together with
  `NobodyAhead`: when a newer version replaces a stored one the old one loses
  its claim and the new one is scheduled in the same step, and an origination
  cannot bring back an older one. `QuietMeansAgreed` follows from it by reading
  it in both directions of an edge.
* `TrickleProofs`: `LastChunkInWindow`, the arithmetic of the chunk size (the last
  chunk of any batch is due strictly before the stagger is over), and from it
  `AllOutBeforeNextTick`: `OutBeforeNextTick`, for all durations that are
  whole seconds (`WholeSeconds`). The invariant adds that every due time is at
  most what the last chunk's was minus the time passed. `NothingLeftOver` (`AllOut`):
  at any moment the chunks of the last tick up to some number have left and the others
  are scheduled one trickle apart (`InOrder`), and the first so many of them amount to
  as many full chunks or to the whole batch.
* `MetricsShutdownProofs`: `TypeOK`, `AllInFiles`, `AllHandled`, `CountIsRows` and
  `PanicsOnlyOnCrash`, for every channel and buffer size and every set of writers
  that may crash. The invariant says who holds a clone of the sender at which
  point (`Held`), that a closed stream is empty and without senders
  (`ClosedIsEmpty`), that the sentinel is the last event (`SentinelLast`), what a join
  has shown (`Joined`), and that rows are neither lost nor doubled (`Conserved`,
  `Counted`). None of the properties is inductive without the holders: that a send
  cannot meet a closed channel follows from the sender still being held. `CountIsRows`,
  that the count printed is that of the rows written, is proved and part of no run.
* `SketchGossipProofs`, on the locks (`LocksSpec`): `LocksTypeOK`, `OneSnapshot` and
  `NoCircle`, for any number of states and threads. The invariant says that a reader is inside exactly the locks it has
  taken (`Shared`), whose write bit is set (`Exclusive`), that nobody reads while a
  writer writes (`Alone`), and that what has been read is still what the map holds
  (`Seen`). For `NoCircle`: among the writers that wait for readers take one whose
  state has the greatest index; the reader it waits for is inside that lock, its
  first, and waits for a second one of a greater index, where again a writer waits
  for readers.
* `ReplayProofs`: `TypeOK`, `RateLimit`, `HasFreeExact`, `WithinRun`, `NothingLost` and
  `NoNeedlessDrop`, for every trace, every length of the run and of the window. The
  invariant adds that every placed event has its window recorded in `used`, so that
  a window is free only if no event is in it; `HasFreeExact` is preserved by the swap
  and remove of `Evict` because the index is exact before it. `NothingLost` keeps the
  books (`Accounted`): what was read waits, is placed or was dropped, and what has been
  handed to the driver is what the placed events up to the last emitted one turn into, and
  nothing else. That no origination leaves twice needs `RateLimit`, two events of an
  entity have different times, and that the ends of a channel differ, which
  `ReplayAssumption` takes from the registry.
* `PeerGraphProofs`: `TypeOK`, `InvitedOnly`, `HubBounded` and `DegreeKept`, for every channel graph. The
  invariant adds that hubs pick no strangers, that there are no edges before the
  picks are complete, and that a node has no replacements before its turn. For
  `DegreeKept`: after the second loop a node is connected to every pick that does not
  reject it, and its count of rejections is exact (`Connected`); the replacements
  are new peers, as many as were dropped unless nobody is left (`ToppedUp`). Edges are
  only added, so nothing later takes that away. `HubBounded` follows from `InvitedOnly` and
  the sizes (`Sizes`): a hub keeps at most its cap of picks, and has at most as many
  replacements as rejected picks. `InvitedOnly` is part of no run.
* `AggregatorProofs`: `TypeOK`, `OneRowEach`, `IndexExact`, `SupersededIsOlder`,
  `ReportsConserved` and `CompleteUnlessSuperseded`, for any number of nodes and order of
  reports. None of them is inductive by itself. `OneRowEach` and `IndexExact` rest on each
  other: a message is opened once because it is not among the finished ones, and the
  index finds exactly the open ones to supersede. `SupersededIsOlder` needs that no version
  of a channel update is open that `latest_version` does not know of (`LatestIsLatest`),
  the number in a row that coverage counts the slots (`CoverageExact`), and
  `ReportsConserved` that nothing is queued or counted that no node recorded
  (`OnlyRecorded`).
* `MixGossipProofs`, on `StaggerGossip`: `TypeOK`, `ForwardedInOrder`, `HandedOn`, `QuietMeansAgreed`
  and the implementation of `GossipPromise`. Absorbing a batch and sorting it by kind are
  folds over a sequence. That a fold runs through its sequence from element to
  element (`FoldRun`) is shown by induction over a set of numbers (`SetInduction`),
  itself a consequence of the well-foundedness of the natural numbers. From it come
  `AbsorbFacts` (what a batch does to a node, and what it leaves to forward),
  `FromMixedFacts` (sorting neither loses nor adds an item and keeps the order of a
  key) and `ChunkedFacts` (neither does cutting). The steps are then described by what
  they do to the stores (`Published`, `Learned`, `Kept`), each a step of `GossipPromise`
  as long as everything queued or sent has been issued by an originator (`OnlyIssued`), and
  to the queues (`Emits`, `Moves`, `Takes`). `HandedOn` is inductive with `OnlyIssued`: what a node
  stores of a key is what waits or travels, and an origination cannot bring back an
  older version. `ForwardedInOrder` needs that what a node has queued is at most what it
  stores.
* `MixGossipProofs`, on `MixGossip`: `MixTypeOK`, `StaysAmongSketches`, `OwedIsHandedOn` and the
  implementation of `GossipPromise`. The same descriptions of steps serve again, with the
  crossings as further ways to learn and to take. Where a key gets to (`Reached`) is a
  least closed set, so `StaysAmongSketches` has to be known of everything queued, sent
  and scheduled as well (`QueuesReach`, `GoodWire`). What a sketch node owes stays sent or
  arrived until it originates again, because nobody else issues the key.

## 6. What is only model-checked

Liveness (`Propagates`, `ReconciledOrOverflow`, `DiesOut`, `RunEnds`, `Terminates`,
`Finishes`, `CallsReturn`): the prover has no rule for fairness and none for `ENABLED`.
`NeverOverflowsWindow` is what `trickle_millis` refutes.

`AllOut` and `OutBeforeNextTick` are proved for durations that are whole seconds; for
others the code does not keep them.

Recursive definitions are in general out of the prover's reach, because the library's
theorems on induction take an operator as a parameter, which the installed provers
cannot instantiate. The folds of `StaggerGossip` are proved about all the same, with
the induction over a set named above; each use of it makes a set of the numbers
for which the claim holds.

## 7. Not modelled

Sizes, byte and duplicate counters, reservoirs and percentiles: no property here
is about them, and no decision of a node reads them. Hashing of message
identities: `derive_id` is taken to be injective, so a message is its key and
timestamp. Real time in the dissemination models: see section 2. The final
flush at the deadline itself is modelled to the extent that what is recorded
after it may stay in a buffer. Lost messages and restarts do not exist in the
simulator.

The capacity of a mailbox: what a handler does that waits for a full mailbox is
the executor's choice, which is an external library. Configuration, CSV input, graph
statistics, reports, plots and schemas are pure input and output. The one-shot and
Poisson sources draw from distributions and keep no state; `random_regular` is one
library call. The Go programs under `netsim/` and `lnsim/` are an older, separate
simulator that shares no code with the Rust one: a single thread around an event
heap, two of whose suspicious spots (the unsigned byte counter of
`netsim/network.go` and the clearing of reconciliation sets in
`lnsim/setreconcil.go`) are listed as hazards.

## 8. Plan

1. Done: the node protocols, their abstract specification and composition
   (`GossipState`, `GossipPromise`, `SketchGossip`, `FloodGossip`, `StaggerGossip`,
   `MixGossip`), the chunks in time (`SubBatch`, `Trickle`), the metrics (`Aggregator`,
   `MetricsShutdown`), the locks (`StateLocks`), the replay (`ReplayWindows`) and the
   peer graph (`PeerGraph`). Every safety property of these is proved.
2. Proofs: an abstract specification of the aggregator (what a message's row may be,
   without index and queue), with `Aggregator` shown to implement it.
3. The Go simulator, if it is to be kept: its reconciliation sets first.
