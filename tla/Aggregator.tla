----------------------------- MODULE Aggregator -----------------------------
(***************************************************************************)
(* The first-seen pipeline: every node buffers what it sees for the first  *)
(* time (PerNodeMetrics::first_seen_pending), flush_summary ships the      *)
(* buffer as one batch through the event queue, and the aggregator thread  *)
(* (metrics_aggregator.rs) turns the entries into one finished row per     *)
(* message: at full coverage, when a newer version of the same channel     *)
(* update supersedes it, or at the end of the run.                         *)
(*                                                                         *)
(* A batch is the sequence of its entries, so the queue is a sequence of   *)
(* entries and the aggregator handles one per step.  The time stamps of    *)
(* the entries, the sizes and the counter events are left out; the gossip  *)
(* behind the entries is reduced to which versions a node can come to see. *)
(***************************************************************************)
EXTENDS Integers, Sequences, FiniteSets

CONSTANTS
  Node,         \* the nodes
  Key,          \* the subjects of gossip
  ChanUpdate,   \* the keys that are channel updates: only these supersede
  Owner,        \* the node that originates a key
  MaxVersion,   \* bound of the model: the last version of a key
  MaxSeen       \* bound of the model: entries recorded in the run

ASSUME AggregatorAssumption ==
  /\ IsFiniteSet(Node)
  /\ ChanUpdate \subseteq Key
  /\ Owner \in [Key -> Node]
  /\ MaxVersion \in Nat
  /\ MaxSeen \in Nat

Absent == -1

Version == Absent .. MaxVersion

\* A message is a version of a key; derive_id gives every node the same id.
Msg == [key : Key, ts : 0 .. MaxVersion]

\* What a node reports: that it has seen a message for the first time.
Entry == [node : Node, msg : Msg]

VARIABLES
  \* the nodes
  held,         \* held[n][k]: the version stored in n's dedup state
  pending,      \* pending[n]: first_seen_pending, entries not yet shipped
  recorded,     \* every entry ever recorded (history variable)
  seenCount,    \* total_first_seen
  flushed,      \* nodes whose flush at the end of the run has happened
  \* the runner
  stopped,      \* FinalizeAndShutdown has been written to the queue
  \* the event queue
  queue,
  \* the aggregator thread
  slots,        \* in_flight, times: the nodes that reported each open message
  coverage,     \* in_flight, coverage: their number
  byChannel,    \* inflight_by_channel: the open channel updates
  latest,       \* latest_version: the newest version of each seen so far
  finalized,    \* messages whose row has been written
  rows,         \* the rows: message, coverage and why it was finished
  count,        \* finalized_count
  done          \* the thread has returned

nodeVars == <<held, pending, recorded, seenCount, flushed>>
openVars == <<slots, coverage, byChannel, latest>>
rowVars == <<finalized, rows, count>>
vars == <<nodeVars, stopped, queue, openVars, rowVars, done>>

TypeOK ==
  /\ held \in [Node -> [Key -> Version]]
  /\ pending \in [Node -> Seq(Msg)]
  /\ recorded \subseteq Entry
  /\ seenCount \in Nat
  /\ flushed \subseteq Node
  /\ stopped \in BOOLEAN
  /\ queue \in Seq(Entry)
  /\ slots \subseteq Entry
  /\ coverage \in [Msg -> Nat]
  /\ byChannel \subseteq Msg
  /\ latest \in [ChanUpdate -> Version]
  /\ finalized \subseteq Msg
  /\ rows \subseteq [msg : Msg, coverage : Nat, cause : {"covered", "superseded", "drained"}]
  /\ count \in Nat
  /\ done \in BOOLEAN

Init ==
  /\ held = [n \in Node |-> [k \in Key |-> Absent]]
  /\ pending = [n \in Node |-> << >>]
  /\ recorded = {}
  /\ seenCount = 0
  /\ flushed = {}
  /\ stopped = FALSE
  /\ queue = << >>
  /\ slots = {}
  /\ coverage = [m \in Msg |-> 0]
  /\ byChannel = {}
  /\ latest = [k \in ChanUpdate |-> Absent]
  /\ finalized = {}
  /\ rows = {}
  /\ count = 0
  /\ done = FALSE

-----------------------------------------------------------------------------
(***************************************************************************)
(* The nodes                                                               *)
(***************************************************************************)

Message(k, v) == [key |-> k, ts |-> v]
FirstSeen(n, m) == [node |-> n, msg |-> m]

Record(n, m) ==
  /\ ~ stopped
  /\ seenCount < MaxSeen
  /\ held' = [held EXCEPT ![n][m.key] = m.ts]
  /\ pending' = [pending EXCEPT ![n] = Append(@, m)]
  /\ recorded' = recorded \cup {FirstSeen(n, m)}
  /\ seenCount' = seenCount + 1
  /\ UNCHANGED <<flushed, stopped, queue, openVars, rowVars, done>>

\* originate: the stamp is the current second, which may be the stored one;
\* the entry is recorded all the same.
Originate(k, v) ==
  /\ v >= held[Owner[k]][k]
  /\ Record(Owner[k], Message(k, v))

\* An absorb of what the owner has issued, when it is news to n.
Absorb(n, k, v) ==
  /\ FirstSeen(Owner[k], Message(k, v)) \in recorded
  /\ v > held[n][k]
  /\ Record(n, Message(k, v))

Entries(n) == [i \in DOMAIN pending[n] |-> FirstSeen(n, pending[n][i])]

\* Mutated form: the buffer is emptied but only its first entry shipped.
MutShippedFirst(n) == IF pending[n] = << >> THEN << >> ELSE << FirstSeen(n, pending[n][1]) >>

Shipped(n) == Entries(n)

\* flush_summary: periodic, forced by a full buffer, or at the end of the
\* run; what is recorded after the last one stays in the buffer.
FlushSummary(n) ==
  /\ ~ stopped
  /\ queue' = queue \o Shipped(n)
  /\ pending' = [pending EXCEPT ![n] = << >>]
  /\ flushed' \in {flushed, flushed \cup {n}}
  /\ UNCHANGED <<held, recorded, seenCount, stopped, openVars, rowVars, done>>

\* finalize_remaining of the runner: the simulation has reached its
\* deadline, so every node has been through its flush at that time.
Stop ==
  /\ ~ stopped
  /\ flushed = Node
  /\ stopped' = TRUE
  /\ UNCHANGED <<nodeVars, queue, openVars, rowVars, done>>

-----------------------------------------------------------------------------
(***************************************************************************)
(* The aggregator                                                          *)
(***************************************************************************)

Open == {e.msg : e \in slots}

Row(m, n, cause) == [msg |-> m, coverage |-> n, cause |-> cause]

\* Mutated form: any other version supersedes, an older one too.
MutSupersedesOther(m) == m.key \in ChanUpdate /\ m.ts # latest[m.key]

Supersedes(m) == m.key \in ChanUpdate /\ m.ts > latest[m.key]

\* The open versions a superseding message m closes.
Killed(m) ==
  IF Supersedes(m) THEN {x \in byChannel : x.key = m.key /\ x # m} \cap Open ELSE {}

\* What is left of the index of open versions after m has been compared.
Indexed(m) ==
  IF Supersedes(m) THEN {x \in byChannel : x.key # m.key} ELSE byChannel

\* Mutated form: a node's second report of a message is counted again.
MutCountedAgain(e) == FALSE

Counted(e) == e \in slots

\* Mutated form: a covered message stays in the index.
MutIndexAfterCoverKept(m) == Indexed(m) \cup {m}

IndexAfterCover(m) == Indexed(m) \ {m}

\* Close the messages of S; m, if it is covered, with them.
CloseRows(S, covered, m) ==
  LET new == {Row(x, coverage[x], "superseded") : x \in S}
             \cup IF covered THEN {Row(m, coverage[m] + 1, "covered")} ELSE {}
  IN  /\ rows' = rows \cup new
      /\ count' = count + Cardinality(S) + IF covered THEN 1 ELSE 0
      /\ finalized' = finalized \cup S \cup IF covered THEN {m} ELSE {}

\* Mutated form: finished messages are not remembered.
MutFinishedForgotten(m) == FALSE

Finished(m) == m \in finalized

\* handle_one_first_seen.
HandleOne(e) ==
  LET m == e.msg
      killed == Killed(m)
      covered == ~ Counted(e) /\ coverage[m] + 1 = Cardinality(Node)
      closed == killed \cup IF covered THEN {m} ELSE {}
  IN  IF Finished(m)
      THEN UNCHANGED <<openVars, rowVars>>
      ELSE /\ latest' = IF Supersedes(m) THEN [latest EXCEPT ![m.key] = m.ts] ELSE latest
           /\ slots' = {s \in slots \cup {e} : s.msg \notin closed}
           /\ coverage' = [x \in Msg |->
                IF x \in closed THEN 0
                ELSE IF x = m /\ ~ Counted(e) THEN coverage[x] + 1 ELSE coverage[x]]
           /\ byChannel' =
                IF covered THEN IndexAfterCover(m)
                ELSE IF Counted(e) \/ m.key \notin ChanUpdate THEN Indexed(m)
                ELSE Indexed(m) \cup {m}
           /\ CloseRows(killed, covered, m)

\* The thread takes the next entry of the queue.
Aggregate ==
  /\ queue # << >>
  /\ queue' = Tail(queue)
  /\ HandleOne(Head(queue))
  /\ UNCHANGED <<nodeVars, stopped, done>>

\* Mutated form: the messages still open are dropped at the end.
MutDrainedNone == {}

Drained == {m \in Open : m \notin finalized}

\* finalize_remaining of the aggregator, on FinalizeAndShutdown, which is
\* the last event of the queue.
FinalizeRemaining ==
  /\ stopped /\ queue = << >> /\ ~ done
  /\ rows' = rows \cup {Row(m, coverage[m], "drained") : m \in Drained}
  /\ count' = count + Cardinality(Drained)
  /\ finalized' = finalized \cup Drained
  /\ slots' = {}
  /\ coverage' = [m \in Msg |-> 0]
  /\ byChannel' = {}
  /\ done' = TRUE
  /\ UNCHANGED <<nodeVars, stopped, queue, latest>>

\* The pipeline has ended.
Ended == done /\ UNCHANGED vars

Next ==
  \/ \E k \in Key, v \in 0 .. MaxVersion : Originate(k, v)
  \/ \E n \in Node, k \in Key, v \in 0 .. MaxVersion : Absorb(n, k, v)
  \/ \E n \in Node : FlushSummary(n)
  \/ Stop
  \/ Aggregate
  \/ FinalizeRemaining
  \/ Ended

Spec == Init /\ [][Next]_vars

\* The thread never blocks on anything but an empty queue, and the
\* simulation reaches its deadline.
Fairness ==
  /\ WF_vars(Aggregate)
  /\ WF_vars(FinalizeRemaining)
  /\ WF_vars(Stop)
  /\ \A n \in Node : WF_vars(FlushSummary(n) /\ n \notin flushed /\ n \in flushed')

FairSpec == Spec /\ Fairness

-----------------------------------------------------------------------------
(***************************************************************************)
(* Safety                                                                  *)
(***************************************************************************)

\* Every message gets at most one row, and the counter, the set of finished
\* messages and the rows agree; a finished message is not open again.
OneRowEach ==
  /\ \A r, s \in rows : r.msg = s.msg => r = s
  /\ finalized = {r.msg : r \in rows}
  /\ count = Cardinality(rows)
  /\ Open \cap finalized = {}

\* The index by channel holds the open channel updates and nothing else: a
\* missing one would outlive its successor, a stale one would be finished
\* twice.
IndexExact == byChannel = {m \in Open : m.key \in ChanUpdate}

\* Only an older version of a channel update is ever finished as superseded:
\* a report that arrives late does not close the version that beat it.
SupersededIsOlder ==
  \A r \in rows : r.cause = "superseded" =>
    r.msg.key \in ChanUpdate /\ r.msg.ts < latest[r.msg.key]

\* No report gets lost on its way: until its message is finished, it waits
\* in the node's buffer or in the queue, or it is counted.
ReportsConserved ==
  \A e \in recorded :
    \/ \E i \in DOMAIN pending[e.node] : pending[e.node][i] = e.msg
    \/ \E i \in DOMAIN queue : queue[i] = e
    \/ e \in slots
    \/ e.msg \in finalized

\* The nodes whose report of m is not stuck in a buffer.
Reporters(m) == {n \in Node : FirstSeen(n, m) \in recorded /\ pending[n] = << >>}

\* A row that was not cut short by a newer version counts every node that
\* shipped its report, and no row counts a node that never recorded.
CompleteUnlessSuperseded ==
  \A r \in rows :
    /\ r.coverage <= Cardinality({n \in Node : FirstSeen(n, r.msg) \in recorded})
    /\ done /\ r.cause # "superseded" => r.coverage >= Cardinality(Reporters(r.msg))

(***************************************************************************)
(* Liveness                                                                *)
(***************************************************************************)

\* The run ends, and every message reported by then has its row.
RunEnds == <>[](done /\ \A e \in recorded : pending[e.node] = << >> => e.msg \in finalized)

=============================================================================
