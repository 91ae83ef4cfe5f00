-------------------------- MODULE MetricsShutdown --------------------------
(***************************************************************************)
(* The threads of the metrics pipeline and how a run takes them down       *)
(* (metrics.rs, metrics_aggregator.rs, stats_writer.rs): the runner, the   *)
(* aggregator thread behind its event queue, and one writer thread for     *)
(* every output file behind a bounded channel.  A writer ends when every   *)
(* clone of the sender is gone, so the runner has to drop what it holds,   *)
(* in the right order, before it may join.                                 *)
(*                                                                         *)
(* Rows are only counted.  A writer may crash where it opens or writes its *)
(* file; what it had not written is lost.  The handle without output files *)
(* (tag_prefix = None), which is for tests, is left out.                   *)
(***************************************************************************)
EXTENDS Integers, Sequences

CONSTANTS
  Depth,        \* PER_STREAM_DEPTH, the capacity of a channel
  FlushEvery,   \* FLUSH_EVERY, the rows a writer buffers
  MayCrash,     \* the streams whose writer may crash
  MaxReports,   \* bound of the model: reports the nodes write to the queue
  MaxRows       \* bound of the model: rows of one kind from one report

Stream == {"msg_stats", "node_counters", "node_reservoirs",
           "overflow_events", "run_meta", "node_pubkey"}

ASSUME ShutdownAssumption ==
  /\ Depth \in Nat \ {0} /\ FlushEvery \in Nat \ {0}
  /\ MayCrash \subseteq Stream
  /\ MaxReports \in Nat /\ MaxRows \in Nat

Report == {"FirstSeenBatch", "NodeCountersDelta", "NodeReservoirDump"}

Sentinel == "FinalizeAndShutdown"

\* Who holds a clone of the RowSender: Metrics::writer_tx, the aggregator's
\* state, and the Writer itself.
Holder == {"writer_tx", "aggregator", "writer"}

VARIABLES
  runner,      \* what the runner does next
  calls,       \* calls of finalize_remaining that have returned
  joinable,    \* aggregator_join still holds the thread's handle
  queue,       \* the event queue
  aggregator,  \* state of the aggregator thread
  todo,        \* the rows it has still to send for the event it handles
  count,       \* finalized_count
  holders,     \* where a clone of the sender still lives
  chan,        \* chan[s]: rows in the channel of stream s
  thread,      \* thread[s]: state of its writer thread
  buf,         \* buf[s]: rows buffered by the writer
  file,        \* file[s]: rows written
  joins,       \* the writers Writer::close has still to join
  reported,    \* reports written to the queue
  produced     \* produced[s]: rows ever sent (history variable)

runnerVars == <<runner, calls, joinable, joins, reported>>
aggVars    == <<aggregator, todo, count>>
writerVars == <<thread, buf, file>>

pipeVars   == <<queue, aggVars, holders, chan, writerVars, produced>>

vars == <<runnerVars, pipeVars>>

TypeOK ==
  /\ runner \in {"setup", "sim", "meta", "finalize", "join", "close", "joining",
                 "returned", "report", "panicked", "failed"}
  /\ calls \in 0 .. 2
  /\ joinable \in BOOLEAN
  /\ queue \in Seq(Report \cup {Sentinel})
  /\ aggregator \in {"running", "draining", "exited", "panicked"}
  /\ todo \in Seq(Stream)
  /\ count \in Nat
  /\ holders \subseteq Holder
  /\ chan \in [Stream -> 0 .. Depth]
  /\ thread \in [Stream -> {"running", "closed", "crashed"}]
  /\ buf \in [Stream -> 0 .. FlushEvery - 1]
  /\ file \in [Stream -> Nat]
  /\ joins \subseteq Stream
  /\ reported \in 0 .. MaxReports
  /\ produced \in [Stream -> Nat]

\* MetricsHandle::new: the writers and the aggregator are spawned, and three
\* clones of the sender handed out.
Init ==
  /\ runner = "setup"
  /\ calls = 0
  /\ joinable = TRUE
  /\ queue = <<>>
  /\ aggregator = "running"
  /\ todo = <<>>
  /\ count = 0
  /\ holders = Holder
  /\ chan = [s \in Stream |-> 0]
  /\ thread = [s \in Stream |-> "running"]
  /\ buf = [s \in Stream |-> 0]
  /\ file = [s \in Stream |-> 0]
  /\ joins = {}
  /\ reported = 0
  /\ produced = [s \in Stream |-> 0]

\* RowSender::send.  It waits while the channel is full and fails when the
\* writer at the other end is gone.
CanSend(s) == thread[s] = "running" /\ chan[s] < Depth

SendFails(s) == thread[s] # "running"

Send(s) ==
  /\ CanSend(s)
  /\ chan' = [chan EXCEPT ![s] = @ + 1]
  /\ produced' = [produced EXCEPT ![s] = @ + 1]

-----------------------------------------------------------------------------
(***************************************************************************)
(* The runner: sim::run and, after it, main                                *)
(***************************************************************************)

\* write_node_pubkey_rows, before the simulation starts.
WriteNodePubkey ==
  /\ runner = "setup"
  /\ produced["node_pubkey"] < MaxRows
  /\ Send("node_pubkey")
  /\ UNCHANGED <<runnerVars, queue, aggVars, holders, writerVars>>

StartSim ==
  /\ runner = "setup"
  /\ runner' = "sim"
  /\ UNCHANGED <<calls, joinable, joins, reported, pipeVars>>

\* A node's flush writes to the event queue, from an executor thread.
WriteReport(e) ==
  /\ runner = "sim"
  /\ reported < MaxReports
  /\ reported' = reported + 1
  /\ queue' = Append(queue, e)
  /\ UNCHANGED <<runner, calls, joinable, joins, aggVars, holders, chan, writerVars, produced>>

\* drive_simulation returns at the deadline.
EndSim ==
  /\ runner = "sim"
  /\ runner' = "meta"
  /\ UNCHANGED <<calls, joinable, joins, reported, pipeVars>>

\* It returns an error: sim::run and main return it and the process ends
\* with the files as they are.
SimFails ==
  /\ runner = "sim"
  /\ runner' = "failed"
  /\ UNCHANGED <<calls, joinable, joins, reported, pipeVars>>

\* write_run_meta, after the simulation.
WriteRunMeta ==
  /\ runner = "meta"
  /\ Send("run_meta")
  /\ runner' = "finalize"
  /\ UNCHANGED <<calls, joinable, joins, reported, queue, aggVars, holders, writerVars>>

\* The expect in RowSender::send, on the runner's own thread.
RunnerPanics ==
  /\ \/ runner = "setup" /\ produced["node_pubkey"] < MaxRows /\ SendFails("node_pubkey")
     \/ runner = "meta" /\ SendFails("run_meta")
  /\ runner' = "panicked"
  /\ UNCHANGED <<calls, joinable, joins, reported, pipeVars>>

\* Mutated form: the sentinel overtakes the reports.
MutQueuedFirst == <<Sentinel>> \o queue

QueuedLast == Append(queue, Sentinel)

\* finalize_remaining: the sentinel is written, and the thread joined if no
\* earlier call has taken its handle.
Finalize ==
  /\ runner = "finalize"
  /\ queue' = QueuedLast
  /\ joinable' = FALSE
  /\ IF joinable THEN runner' = "join" /\ calls' = calls
                 ELSE runner' = "returned" /\ calls' = calls + 1
  /\ UNCHANGED <<joins, reported, aggVars, holders, chan, writerVars, produced>>

\* Mutated form: writer_tx is kept until the handle is dropped.
MutJoinKeepsSender ==
  /\ runner = "join" /\ aggregator = "exited"
  /\ runner' = "close"
  /\ UNCHANGED <<calls, joinable, joins, reported, pipeVars>>

\* The join returns the aggregator's result; writer_tx is dropped.
JoinAggregator ==
  /\ runner = "join" /\ aggregator = "exited"
  /\ holders' = holders \ {"writer_tx"}
  /\ runner' = "close"
  /\ UNCHANGED <<calls, joinable, joins, reported, queue, aggVars, chan, writerVars, produced>>

\* The join returns an error: the rest of finalize_remaining is skipped.
JoinPanicked ==
  /\ runner = "join" /\ aggregator = "panicked"
  /\ runner' = "returned"
  /\ calls' = calls + 1
  /\ UNCHANGED <<joinable, joins, reported, pipeVars>>

\* Writer::close drops the last clone and joins the threads.
CloseWriter ==
  /\ runner = "close"
  /\ holders' = holders \ {"writer"}
  /\ joins' = Stream
  /\ runner' = "joining"
  /\ UNCHANGED <<calls, joinable, reported, queue, aggVars, chan, writerVars, produced>>

\* The code joins them in the order of its vector, here in any order.  The
\* expect panics on a thread that has panicked.
JoinWriter(s) ==
  /\ runner = "joining" /\ s \in joins
  /\ thread[s] # "running"
  /\ joins' = joins \ {s}
  /\ runner' = IF thread[s] = "crashed" THEN "panicked" ELSE runner
  /\ UNCHANGED <<calls, joinable, reported, pipeVars>>

ReturnClosed ==
  /\ runner = "joining" /\ joins = {}
  /\ runner' = "returned"
  /\ calls' = calls + 1
  /\ UNCHANGED <<joinable, joins, reported, pipeVars>>

\* completed_count in main calls finalize_remaining again.
CompletedCount ==
  /\ runner = "returned" /\ calls = 1
  /\ runner' = "finalize"
  /\ UNCHANGED <<calls, joinable, joins, reported, pipeVars>>

\* main drops the handle, and what it still holds, and reads the files.
DropHandle ==
  /\ runner = "returned" /\ calls = 2
  /\ runner' = "report"
  /\ holders' = holders \ {"writer_tx", "writer"}
  /\ UNCHANGED <<calls, joinable, joins, reported, queue, aggVars, chan, writerVars, produced>>

-----------------------------------------------------------------------------
(***************************************************************************)
(* The aggregator thread                                                   *)
(***************************************************************************)

Repeated(s, n) == [i \in 1 .. n |-> s]

\* The rows the handling of an event sends, in order: the overflow events of
\* a node come before its counters.  How many messages a batch or the last
\* drain finishes, and how many samples a dump holds, is left open.
StreamOf(e) == IF e = "NodeReservoirDump" THEN "node_reservoirs" ELSE "msg_stats"

RowsOf(e) ==
  IF e = "NodeCountersDelta"
    THEN {Repeated("overflow_events", n) \o <<"node_counters">> : n \in 0 .. MaxRows}
    ELSE {Repeated(StreamOf(e), n) : n \in 0 .. MaxRows}

\* The thread reads the next event.
Read ==
  /\ aggregator = "running" /\ todo = <<>>
  /\ queue # <<>>
  /\ queue' = Tail(queue)
  /\ todo' \in RowsOf(Head(queue))
  /\ aggregator' = IF Head(queue) = Sentinel THEN "draining" ELSE "running"
  /\ UNCHANGED <<runnerVars, count, holders, chan, writerVars, produced>>

\* push_finalized counts a row before it sends it.
CountedRow(s) == IF s = "msg_stats" THEN count + 1 ELSE count

SendRow ==
  /\ todo # <<>>
  /\ Send(Head(todo))
  /\ count' = CountedRow(Head(todo))
  /\ todo' = Tail(todo)
  /\ UNCHANGED <<runnerVars, queue, aggregator, holders, writerVars>>

\* The expect in RowSender::send: the thread unwinds and drops its clone.
AggregatorPanics ==
  /\ todo # <<>>
  /\ SendFails(Head(todo))
  /\ count' = CountedRow(Head(todo))
  /\ todo' = <<>>
  /\ aggregator' = "panicked"
  /\ holders' = holders \ {"aggregator"}
  /\ UNCHANGED <<runnerVars, queue, chan, writerVars, produced>>

\* After the sentinel and the drain the clone is dropped and the thread ends.
Exit ==
  /\ aggregator = "draining" /\ todo = <<>>
  /\ aggregator' = "exited"
  /\ holders' = holders \ {"aggregator"}
  /\ UNCHANGED <<runnerVars, queue, todo, count, chan, writerVars, produced>>

-----------------------------------------------------------------------------
(***************************************************************************)
(* The writer threads: run_stream and run_msg_stats                        *)
(***************************************************************************)

FlushDue(s) == chan[s] > 0 /\ buf[s] + 1 >= FlushEvery

Disconnected(s) == chan[s] = 0 /\ holders = {}

Push(s) ==
  /\ thread[s] = "running" /\ chan[s] > 0
  /\ chan' = [chan EXCEPT ![s] = @ - 1]
  /\ buf' = [buf EXCEPT ![s] = IF FlushDue(s) THEN 0 ELSE @ + 1]
  /\ file' = [file EXCEPT ![s] = IF FlushDue(s) THEN @ + buf[s] + 1 ELSE @]
  /\ UNCHANGED <<runnerVars, queue, aggVars, holders, thread, produced>>

\* Mutated form: the rows left in the buffer are not flushed.
MutCloseStreamUnflushed(s) ==
  /\ thread[s] = "running" /\ Disconnected(s)
  /\ thread' = [thread EXCEPT ![s] = "closed"]
  /\ buf' = [buf EXCEPT ![s] = 0]
  /\ UNCHANGED <<runnerVars, queue, aggVars, holders, chan, file, produced>>

\* Mutated form: an empty channel ends the thread, whoever may still send.
MutCloseStreamEmpty(s) ==
  /\ thread[s] = "running" /\ chan[s] = 0
  /\ thread' = [thread EXCEPT ![s] = "closed"]
  /\ file' = [file EXCEPT ![s] = @ + buf[s]]
  /\ buf' = [buf EXCEPT ![s] = 0]
  /\ UNCHANGED <<runnerVars, queue, aggVars, holders, chan, produced>>

\* The loop ends when the channel is empty and no sender is left.
CloseStream(s) ==
  /\ thread[s] = "running" /\ Disconnected(s)
  /\ thread' = [thread EXCEPT ![s] = "closed"]
  /\ file' = [file EXCEPT ![s] = @ + buf[s]]
  /\ buf' = [buf EXCEPT ![s] = 0]
  /\ UNCHANGED <<runnerVars, queue, aggVars, holders, chan, produced>>

\* The expects on opening the file, on a flush, and on the last flush and
\* the footer.  The receiver goes with the thread.
Crash(s) ==
  /\ s \in MayCrash /\ thread[s] = "running"
  /\ \/ buf[s] + file[s] = 0
     \/ FlushDue(s)
     \/ Disconnected(s)
  /\ thread' = [thread EXCEPT ![s] = "crashed"]
  /\ chan' = [chan EXCEPT ![s] = 0]
  /\ buf' = [buf EXCEPT ![s] = 0]
  /\ UNCHANGED <<runnerVars, queue, aggVars, holders, file, produced>>

-----------------------------------------------------------------------------
Runs ==
  \/ WriteNodePubkey \/ StartSim \/ EndSim \/ WriteRunMeta \/ RunnerPanics
  \/ Finalize \/ JoinAggregator \/ JoinPanicked \/ CloseWriter
  \/ ReturnClosed \/ CompletedCount \/ DropHandle
  \/ \E s \in Stream : JoinWriter(s)

Aggregates == Read \/ SendRow \/ AggregatorPanics \/ Exit

Writes(s) == Push(s) \/ CloseStream(s)

Next ==
  \/ Runs
  \/ SimFails
  \/ \E e \in Report : WriteReport(e)
  \/ Aggregates
  \/ \E s \in Stream : Writes(s)
  \/ \E s \in Stream : Crash(s)

Spec == Init /\ [][Next]_vars

\* Every thread that can go on does; nothing obliges a writer to crash or the
\* simulation to fail.
FairSpec ==
  Spec /\ WF_vars(Runs) /\ WF_vars(Aggregates) /\ \A s \in Stream : WF_vars(Writes(s))

-----------------------------------------------------------------------------
(***************************************************************************)
(* Properties                                                              *)
(***************************************************************************)

NoCrash == \A s \in Stream : thread[s] # "crashed"

\* When finalize_remaining has returned, and no writer has crashed, every
\* file is closed and holds every row that was ever sent to it: the order in
\* which the sender's clones are dropped and the threads joined loses none.
AllInFiles ==
  runner \in {"returned", "report"} /\ NoCrash
    => \A s \in Stream : thread[s] = "closed" /\ file[s] = produced[s]

\* An aggregator that has ended regularly has handled every report written
\* before the sentinel; a second sentinel is all that may be left.
AllHandled ==
  aggregator = "exited" =>
    /\ todo = <<>>
    /\ \A i \in 1 .. Len(queue) : queue[i] = Sentinel

\* The number of messages main prints is the number of rows in the file.
CountIsRows ==
  runner \in {"returned", "report"} /\ NoCrash => count = file["msg_stats"]

\* "stats writer channel closed before sim end": this expect, and the one in
\* Writer::close, fire only if a writer has crashed, never because of the
\* order of the shutdown.
PanicsOnlyOnCrash == aggregator = "panicked" \/ runner = "panicked" => ~ NoCrash

\* The joins return: the run ends, whichever writers crash and when.
Terminates == <>(runner \in {"report", "panicked", "failed"})

=============================================================================
