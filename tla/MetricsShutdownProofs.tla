----------------------- MODULE MetricsShutdownProofs -----------------------
(***************************************************************************)
(* Proofs about MetricsShutdown, for every capacity, buffer size, set of   *)
(* streams that may crash and number of reports and rows.                  *)
(***************************************************************************)
EXTENDS MetricsShutdown, TLAPS

\* Every row sent to a stream whose writer lives is in its channel, in the
\* writer's buffer or in the file.
Conserved ==
  \A s \in Stream : thread[s] # "crashed" => produced[s] = chan[s] + buf[s] + file[s]

\* A closed stream is empty, and nobody is left who could send to it.
ClosedIsEmpty ==
  \A s \in Stream : thread[s] = "closed" => holders = {} /\ chan[s] = 0 /\ buf[s] = 0

\* Who holds a clone, by how far the shutdown has come.
Held ==
  /\ "aggregator" \in holders <=> aggregator \in {"running", "draining"}
  /\ todo # <<>> => aggregator \in {"running", "draining"}
  /\ runner \in {"setup", "sim", "meta", "join"} => "writer_tx" \in holders
  /\ (runner = "finalize" /\ joinable) => "writer_tx" \in holders
  /\ runner = "close" => "writer_tx" \notin holders
  /\ runner = "joining" => holders = {}

\* The sentinel is the last event: nothing is reported after it.
SentinelLast ==
  /\ runner \in {"setup", "sim", "meta"} =>
       /\ joinable
       /\ aggregator \in {"running", "panicked"}
       /\ \A i \in 1 .. Len(queue) : queue[i] # Sentinel
  /\ \A i, j \in 1 .. Len(queue) : (i < j /\ queue[i] = Sentinel) => queue[j] = Sentinel
  /\ aggregator \in {"draining", "exited"} =>
       \A i \in 1 .. Len(queue) : queue[i] = Sentinel

\* What the runner knows of the others' states after the joins.
Joined ==
  /\ runner \in {"join", "close", "joining", "returned", "report"} => ~ joinable
  /\ runner \in {"close", "joining"} => aggregator = "exited"
  /\ runner = "joining" => \A s \in Stream \ joins : thread[s] = "closed"
  /\ runner \in {"returned", "report"} \/ (runner = "finalize" /\ ~ joinable) =>
       \/ aggregator = "panicked"
       \/ \A s \in Stream : thread[s] = "closed"

\* Only the aggregator sends rows of messages, and it counts them.
Counted == aggregator # "panicked" => count = produced["msg_stats"]

\* finalize_remaining is called twice.
Called == calls = 2 => runner \in {"returned", "report"}

IInv ==
  /\ TypeOK
  /\ Called
  /\ Conserved
  /\ ClosedIsEmpty
  /\ Held
  /\ SentinelLast
  /\ Joined
  /\ Counted
  /\ PanicsOnlyOnCrash

-----------------------------------------------------------------------------
(***************************************************************************)
(* Types                                                                   *)
(***************************************************************************)

\* Repeating a stream gives a sequence of streams.
LEMMA RepeatedTyped ==
  ASSUME NEW s \in Stream, NEW n \in Nat PROVE Repeated(s, n) \in Seq(Stream)
BY DEF Repeated

\* The rows of any event are rows of some streams.
LEMMA RowsTyped ==
  ASSUME NEW e, NEW rows \in RowsOf(e) PROVE rows \in Seq(Stream)
<1>0. MaxRows \in Nat
  BY ShutdownAssumption
<1>1. CASE e = "NodeCountersDelta"
  <2>1. PICK n \in 0 .. MaxRows : rows = Repeated("overflow_events", n) \o <<"node_counters">>
    BY <1>1 DEF RowsOf
  <2>2. Repeated("overflow_events", n) \in Seq(Stream)
    BY <1>0, RepeatedTyped DEF Stream
  <2>3. <<"node_counters">> \in Seq(Stream)
    BY DEF Stream
  <2> QED
    BY <2>1, <2>2, <2>3
<1>2. CASE e # "NodeCountersDelta"
  <2>1. PICK n \in 0 .. MaxRows : rows = Repeated(StreamOf(e), n)
    BY <1>2 DEF RowsOf
  <2>2. StreamOf(e) \in Stream
    BY DEF StreamOf, Stream
  <2> QED
    BY <1>0, <2>1, <2>2, RepeatedTyped
<1> QED
  BY <1>1, <1>2

\* The first element of a row sequence is a stream.
LEMMA HeadTyped ==
  ASSUME NEW S, NEW q \in Seq(S), q # <<>>
  PROVE  Head(q) \in S /\ Tail(q) \in Seq(S)
OBVIOUS

\* Sending keeps to the capacity.
LEMMA SendTyped ==
  ASSUME TypeOK, NEW s \in Stream, Send(s)
  PROVE  chan' \in [Stream -> 0 .. Depth] /\ produced' \in [Stream -> Nat]
BY ShutdownAssumption DEF TypeOK, Send, CanSend

\* Every step keeps the types, and the number of calls.
LEMMA TypeStep == TypeOK /\ Called /\ [Next]_vars => TypeOK' /\ Called'
<1> SUFFICES ASSUME TypeOK, Called, [Next]_vars PROVE TypeOK' /\ Called'
  OBVIOUS
<1> USE DEF TypeOK, Called, runnerVars, aggVars, writerVars, pipeVars
<1>0. /\ Depth \in Nat \ {0} /\ FlushEvery \in Nat \ {0} /\ MaxReports \in Nat
      /\ "node_pubkey" \in Stream /\ "run_meta" \in Stream
  BY ShutdownAssumption DEF Stream
<1>1. CASE WriteNodePubkey
  BY <1>0, <1>1, SendTyped DEF WriteNodePubkey
<1>2. CASE StartSim
  BY <1>0, <1>2 DEF StartSim
<1>3. CASE EndSim
  BY <1>0, <1>3 DEF EndSim
<1>4. CASE WriteRunMeta
  BY <1>0, <1>4, SendTyped DEF WriteRunMeta
<1>5. CASE RunnerPanics
  BY <1>0, <1>5 DEF RunnerPanics
<1>6. CASE Finalize
  <2>1. queue' \in Seq(Report \cup {Sentinel}) /\ joinable' = FALSE
    BY <1>6 DEF Finalize, QueuedLast
  <2>2. \/ runner' = "join" /\ calls' = calls
        \/ runner' = "returned" /\ calls' = calls + 1
    BY <1>6, Zenon DEF Finalize
  <2>3. calls \in 0 .. 1
    BY <1>6 DEF Finalize
  <2>4. runner' \in {"join", "returned"} /\ calls' \in 0 .. 2 /\ Called'
    BY <2>2, <2>3
  <2> QED
    BY <1>6, <2>1, <2>4 DEF Finalize
<1>7. CASE JoinAggregator
  BY <1>0, <1>7 DEF JoinAggregator
<1>8. CASE JoinPanicked
  BY <1>0, <1>8 DEF JoinPanicked
<1>9. CASE CloseWriter
  BY <1>0, <1>9 DEF CloseWriter
<1>10. CASE ReturnClosed
  BY <1>0, <1>10 DEF ReturnClosed
<1>11. CASE CompletedCount
  BY <1>0, <1>11 DEF CompletedCount
<1>12. CASE DropHandle
  BY <1>0, <1>12 DEF DropHandle
<1>13. ASSUME NEW s \in Stream, JoinWriter(s) PROVE TypeOK' /\ Called'
  BY <1>0, <1>13 DEF JoinWriter
<1>14. ASSUME NEW e \in Report, WriteReport(e) PROVE TypeOK' /\ Called'
  BY <1>0, <1>14 DEF WriteReport
<1>15. CASE Read
  BY <1>15, RowsTyped DEF Read
<1>16. CASE SendRow
  <2>1. Head(todo) \in Stream /\ Tail(todo) \in Seq(Stream)
    BY <1>16, HeadTyped DEF SendRow
  <2>2. chan' \in [Stream -> 0 .. Depth] /\ produced' \in [Stream -> Nat]
    BY <1>16, <2>1, SendTyped DEF SendRow
  <2>3. count' \in Nat
    BY <1>16 DEF SendRow, CountedRow
  <2> QED
    BY <1>16, <2>1, <2>2, <2>3 DEF SendRow
<1>17. CASE AggregatorPanics
  BY <1>17 DEF AggregatorPanics, CountedRow
<1>18. CASE Exit
  BY <1>0, <1>18 DEF Exit
<1>19. ASSUME NEW s \in Stream, Push(s) PROVE TypeOK' /\ Called'
  <2>1. /\ chan[s] \in 0 .. Depth /\ chan[s] > 0
        /\ buf[s] \in 0 .. FlushEvery - 1
        /\ file[s] \in Nat
    BY <1>19 DEF Push
  <2>2. /\ chan[s] - 1 \in 0 .. Depth
        /\ ~ FlushDue(s) => buf[s] + 1 \in 0 .. FlushEvery - 1
        /\ 0 \in 0 .. FlushEvery - 1
        /\ file[s] + buf[s] + 1 \in Nat
    <3> HIDE DEF TypeOK, Called
    <3> QED
      BY <1>0, <2>1 DEF FlushDue
  <2>3. chan' \in [Stream -> 0 .. Depth]
    BY <1>19, <2>2 DEF Push
  <2>4. buf' \in [Stream -> 0 .. FlushEvery - 1]
    BY <1>19, <2>2 DEF Push
  <2>5. file' \in [Stream -> Nat]
    BY <1>19, <2>1, <2>2 DEF Push
  <2> QED
    BY <1>19, <2>3, <2>4, <2>5 DEF Push
<1>20. ASSUME NEW s \in Stream, CloseStream(s) PROVE TypeOK' /\ Called'
  <2>1. buf[s] \in Nat /\ file[s] \in Nat
    BY <1>0
  <2>2. file' \in [Stream -> Nat]
    BY <1>20, <2>1 DEF CloseStream
  <2>3. buf' \in [Stream -> 0 .. FlushEvery - 1]
    BY <1>0, <1>20 DEF CloseStream
  <2> QED
    BY <1>20, <2>2, <2>3 DEF CloseStream
<1>21. ASSUME NEW s \in Stream, Crash(s) PROVE TypeOK' /\ Called'
  <2>1. thread' \in [Stream -> {"running", "closed", "crashed"}]
    BY <1>21 DEF Crash
  <2>2. chan' \in [Stream -> 0 .. Depth] /\ buf' \in [Stream -> 0 .. FlushEvery - 1]
    <3>1. 0 \in 0 .. Depth /\ 0 \in 0 .. FlushEvery - 1
      BY <1>0
    <3> QED
      BY <1>21, <3>1 DEF Crash
  <2> QED
    BY <1>21, <2>1, <2>2 DEF Crash
<1>22. CASE SimFails
  BY <1>22 DEF SimFails
<1>23. CASE UNCHANGED vars
  BY <1>23 DEF vars
<1> QED
  BY <1>1, <1>2, <1>3, <1>4, <1>5, <1>6, <1>7, <1>8, <1>9, <1>10, <1>11,
     <1>12, <1>13, <1>14, <1>15, <1>16, <1>17, <1>18, <1>19, <1>20, <1>21,
     <1>22, <1>23
     DEF Next, Runs, Aggregates, Writes

\* A row sent is a row in the channel.
LEMMA SendConserves ==
  ASSUME TypeOK, Conserved, NEW s \in Stream, Send(s), UNCHANGED writerVars
  PROVE  Conserved'
<1>1. /\ chan[s] \in Nat /\ produced[s] \in Nat /\ buf[s] \in Nat /\ file[s] \in Nat
      /\ Depth \in Nat /\ FlushEvery \in Nat
  BY ShutdownAssumption DEF TypeOK
<1>2. chan'[s] = chan[s] + 1 /\ produced'[s] = produced[s] + 1
  BY DEF TypeOK, Send
<1>3. \A t \in Stream \ {s} : chan'[t] = chan[t] /\ produced'[t] = produced[t]
  BY DEF TypeOK, Send
<1>4. buf' = buf /\ file' = file /\ thread' = thread
  BY DEF writerVars
<1>5. ASSUME NEW t \in Stream, thread'[t] # "crashed"
      PROVE  produced'[t] = chan'[t] + buf'[t] + file'[t]
  <2>1. produced[t] = chan[t] + buf[t] + file[t]
    BY <1>4, <1>5 DEF Conserved
  <2>2. CASE t = s
    BY <1>1, <1>2, <1>4, <2>1, <2>2
  <2>3. CASE t # s
    BY <1>3, <1>4, <2>1, <2>3
  <2> QED
    BY <2>2, <2>3
<1> QED
  BY <1>5 DEF Conserved

-----------------------------------------------------------------------------
(***************************************************************************)
(* No row is lost                                                          *)
(***************************************************************************)

\* Sending, buffering, flushing and closing keep the number of rows.
LEMMA RowsStep == IInv /\ TypeOK' /\ [Next]_vars => Conserved' /\ Counted'
<1> SUFFICES ASSUME IInv, TypeOK', [Next]_vars PROVE Conserved' /\ Counted'
  OBVIOUS
<1> USE DEF IInv, TypeOK, Conserved, Counted, runnerVars, aggVars, writerVars, pipeVars
<1>0. /\ Depth \in Nat /\ FlushEvery \in Nat
      /\ {"node_pubkey", "run_meta", "msg_stats"} \subseteq Stream
  BY ShutdownAssumption DEF Stream
<1>1. CASE WriteNodePubkey
  <2>1. Conserved'
    BY <1>0, <1>1, SendConserves DEF WriteNodePubkey
  <2>2. produced'["msg_stats"] = produced["msg_stats"]
    BY <1>0, <1>1 DEF WriteNodePubkey, Send
  <2> QED
    BY <1>1, <2>1, <2>2 DEF WriteNodePubkey
<1>2. CASE StartSim
  BY <1>2 DEF StartSim
<1>3. CASE EndSim
  BY <1>3 DEF EndSim
<1>4. CASE WriteRunMeta
  <2>1. Conserved'
    BY <1>0, <1>4, SendConserves DEF WriteRunMeta
  <2>2. produced'["msg_stats"] = produced["msg_stats"]
    BY <1>0, <1>4 DEF WriteRunMeta, Send
  <2> QED
    BY <1>4, <2>1, <2>2 DEF WriteRunMeta
<1>5. CASE RunnerPanics
  BY <1>5 DEF RunnerPanics
<1>6. CASE Finalize
  BY <1>6 DEF Finalize
<1>7. CASE JoinAggregator
  BY <1>7 DEF JoinAggregator
<1>8. CASE JoinPanicked
  BY <1>8 DEF JoinPanicked
<1>9. CASE CloseWriter
  BY <1>9 DEF CloseWriter
<1>10. CASE ReturnClosed
  BY <1>10 DEF ReturnClosed
<1>11. CASE CompletedCount
  BY <1>11 DEF CompletedCount
<1>12. CASE DropHandle
  BY <1>12 DEF DropHandle
<1>13. ASSUME NEW s \in Stream, JoinWriter(s) PROVE Conserved' /\ Counted'
  BY <1>13 DEF JoinWriter
<1>14. ASSUME NEW e \in Report, WriteReport(e) PROVE Conserved' /\ Counted'
  BY <1>14 DEF WriteReport
<1>15. CASE Read
  BY <1>15 DEF Read
<1>16. CASE SendRow
  <2>1. Head(todo) \in Stream
    BY <1>16, HeadTyped DEF SendRow
  <2>2. Conserved'
    BY <1>0, <1>16, <2>1, SendConserves DEF SendRow
  <2>3. Counted'
    BY <1>0, <1>16, <2>1 DEF SendRow, Send, CountedRow
  <2> QED
    BY <2>2, <2>3
<1>17. CASE AggregatorPanics
  BY <1>17 DEF AggregatorPanics
<1>18. CASE Exit
  BY <1>18 DEF Exit
<1>19. ASSUME NEW s \in Stream, Push(s) PROVE Conserved' /\ Counted'
  <2>1. /\ chan[s] \in Nat /\ buf[s] \in Nat /\ file[s] \in Nat
    BY <1>0
  <2>2. /\ chan'[s] = chan[s] - 1
        /\ \/ buf'[s] = 0 /\ file'[s] = file[s] + buf[s] + 1
           \/ buf'[s] = buf[s] + 1 /\ file'[s] = file[s]
    BY <1>19 DEF Push
  <2>3. chan'[s] + buf'[s] + file'[s] = chan[s] + buf[s] + file[s]
    <3> HIDE DEF TypeOK, Conserved, IInv
    <3> QED
      BY <2>1, <2>2
  <2>4. \A t \in Stream \ {s} : chan'[t] = chan[t] /\ buf'[t] = buf[t] /\ file'[t] = file[t]
    BY <1>19 DEF Push
  <2> QED
    BY <1>19, <2>3, <2>4 DEF Push
<1>20. ASSUME NEW s \in Stream, CloseStream(s) PROVE Conserved' /\ Counted'
  <2>1. buf[s] \in Nat /\ file[s] \in Nat /\ chan[s] \in Nat
    BY <1>0
  <2>2. buf'[s] = 0 /\ file'[s] = file[s] + buf[s] /\ chan' = chan
    BY <1>20 DEF CloseStream
  <2>3. \A t \in Stream \ {s} : /\ buf'[t] = buf[t] /\ file'[t] = file[t]
                              /\ thread'[t] = thread[t]
    BY <1>20 DEF CloseStream
  <2> QED
    BY <1>20, <2>1, <2>2, <2>3 DEF CloseStream
<1>21. ASSUME NEW s \in Stream, Crash(s) PROVE Conserved' /\ Counted'
  BY <1>21 DEF Crash
<1>22. CASE SimFails
  BY <1>22 DEF SimFails
<1>23. CASE UNCHANGED vars
  BY <1>23 DEF vars
<1> QED
  BY <1>1, <1>2, <1>3, <1>4, <1>5, <1>6, <1>7, <1>8, <1>9, <1>10, <1>11,
     <1>12, <1>13, <1>14, <1>15, <1>16, <1>17, <1>18, <1>19, <1>20, <1>21,
     <1>22, <1>23
     DEF Next, Runs, Aggregates, Writes

-----------------------------------------------------------------------------
(***************************************************************************)
(* Who holds the sender, and who has ended                                 *)
(***************************************************************************)

\* The clones go in order, and nobody ends before the last one is gone.
LEMMA ThreadsStep ==
  IInv /\ TypeOK' /\ [Next]_vars =>
    ClosedIsEmpty' /\ Held' /\ Joined' /\ PanicsOnlyOnCrash'
<1> SUFFICES ASSUME IInv, TypeOK', [Next]_vars
             PROVE  ClosedIsEmpty' /\ Held' /\ Joined' /\ PanicsOnlyOnCrash'
  OBVIOUS
<1> USE DEF IInv, ClosedIsEmpty, Held, Joined, PanicsOnlyOnCrash, NoCrash, TypeOK,
           runnerVars, aggVars, writerVars, pipeVars
<1>0. "node_pubkey" \in Stream /\ "run_meta" \in Stream
  BY DEF Stream
<1>1. CASE WriteNodePubkey
  BY <1>0, <1>1 DEF WriteNodePubkey, Send, CanSend
<1>2. CASE StartSim
  BY <1>2 DEF StartSim
<1>3. CASE EndSim
  BY <1>3 DEF EndSim
<1>4. CASE WriteRunMeta
  BY <1>0, <1>4 DEF WriteRunMeta, Send, CanSend, SentinelLast
<1>5. CASE RunnerPanics
  BY <1>0, <1>5 DEF RunnerPanics, SendFails
<1>6. CASE Finalize
  BY <1>6 DEF Finalize
<1>7. CASE JoinAggregator
  BY <1>7 DEF JoinAggregator
<1>8. CASE JoinPanicked
  BY <1>8 DEF JoinPanicked
<1>9. CASE CloseWriter
  BY <1>9 DEF CloseWriter, Holder
<1>10. CASE ReturnClosed
  BY <1>10 DEF ReturnClosed
<1>11. CASE CompletedCount
  BY <1>11 DEF CompletedCount
<1>12. CASE DropHandle
  BY <1>12 DEF DropHandle
<1>13. ASSUME NEW s \in Stream, JoinWriter(s)
       PROVE  ClosedIsEmpty' /\ Held' /\ Joined' /\ PanicsOnlyOnCrash'
  BY <1>13 DEF JoinWriter
<1>14. ASSUME NEW e \in Report, WriteReport(e)
       PROVE  ClosedIsEmpty' /\ Held' /\ Joined' /\ PanicsOnlyOnCrash'
  BY <1>14 DEF WriteReport
<1>15. CASE Read
  BY <1>15 DEF Read
<1>16. CASE SendRow
  <2>1. Head(todo) \in Stream /\ Tail(todo) \in Seq(Stream)
    BY <1>16, HeadTyped DEF SendRow
  <2> QED
    BY <1>16, <2>1 DEF SendRow, Send, CanSend
<1>17. CASE AggregatorPanics
  <2>1. Head(todo) \in Stream /\ todo' = <<>> /\ thread' = thread
    BY <1>17, HeadTyped DEF AggregatorPanics
  <2>2. "aggregator" \in holders
    BY <1>17 DEF AggregatorPanics
  <2>3. thread[Head(todo)] = "crashed"
    BY <1>17, <2>1, <2>2 DEF AggregatorPanics, SendFails
  <2>4. PanicsOnlyOnCrash'
    BY <2>1, <2>3
  <2>5. runner # "joining" /\ runner # "close"
    BY <1>17, <2>2 DEF AggregatorPanics
  <2> QED
    BY <1>17, <2>1, <2>2, <2>4, <2>5 DEF AggregatorPanics
<1>18. CASE Exit
  BY <1>18 DEF Exit
<1>19. ASSUME NEW s \in Stream, Push(s)
       PROVE  ClosedIsEmpty' /\ Held' /\ Joined' /\ PanicsOnlyOnCrash'
  BY <1>19 DEF Push
<1>20. ASSUME NEW s \in Stream, CloseStream(s)
       PROVE  ClosedIsEmpty' /\ Held' /\ Joined' /\ PanicsOnlyOnCrash'
  BY <1>20 DEF CloseStream, Disconnected
<1>21. ASSUME NEW s \in Stream, Crash(s)
       PROVE  ClosedIsEmpty' /\ Held' /\ Joined' /\ PanicsOnlyOnCrash'
  BY <1>21 DEF Crash
<1>22. CASE SimFails
  BY <1>22 DEF SimFails
<1>23. CASE UNCHANGED vars
  BY <1>23 DEF vars
<1> QED
  BY <1>1, <1>2, <1>3, <1>4, <1>5, <1>6, <1>7, <1>8, <1>9, <1>10, <1>11,
     <1>12, <1>13, <1>14, <1>15, <1>16, <1>17, <1>18, <1>19, <1>20, <1>21,
     <1>22, <1>23
     DEF Next, Runs, Aggregates, Writes

-----------------------------------------------------------------------------
(***************************************************************************)
(* The order of the events                                                 *)
(***************************************************************************)

\* The sentinel is written after all reports and read after them.
LEMMA QueueStep == IInv /\ TypeOK' /\ [Next]_vars => SentinelLast'
<1> SUFFICES ASSUME IInv, TypeOK', [Next]_vars PROVE SentinelLast'
  OBVIOUS
<1> USE DEF IInv, SentinelLast, TypeOK, runnerVars, aggVars, writerVars, pipeVars
<1>1. CASE WriteNodePubkey
  BY <1>1 DEF WriteNodePubkey
<1>2. CASE StartSim
  BY <1>2 DEF StartSim
<1>3. CASE EndSim
  BY <1>3 DEF EndSim
<1>4. CASE WriteRunMeta
  BY <1>4 DEF WriteRunMeta
<1>5. CASE RunnerPanics
  BY <1>5 DEF RunnerPanics
<1>6. CASE Finalize
  <2>1. /\ Len(queue') = Len(queue) + 1
        /\ queue'[Len(queue) + 1] = Sentinel
        /\ \A i \in 1 .. Len(queue) : queue'[i] = queue[i]
        /\ Len(queue) \in Nat
    BY <1>6 DEF Finalize, QueuedLast
  <2>2. runner' \in {"join", "returned"} /\ aggregator' = aggregator
    BY <1>6 DEF Finalize
  <2> HIDE DEF TypeOK
  <2> QED
    BY <2>1, <2>2
<1>7. CASE JoinAggregator
  BY <1>7 DEF JoinAggregator
<1>8. CASE JoinPanicked
  BY <1>8 DEF JoinPanicked
<1>9. CASE CloseWriter
  BY <1>9 DEF CloseWriter
<1>10. CASE ReturnClosed
  BY <1>10 DEF ReturnClosed
<1>11. CASE CompletedCount
  BY <1>11 DEF CompletedCount
<1>12. CASE DropHandle
  BY <1>12 DEF DropHandle
<1>13. ASSUME NEW s \in Stream, JoinWriter(s) PROVE SentinelLast'
  BY <1>13 DEF JoinWriter
<1>14. ASSUME NEW e \in Report, WriteReport(e) PROVE SentinelLast'
  <2>1. /\ Len(queue') = Len(queue) + 1
        /\ queue'[Len(queue) + 1] = e
        /\ \A i \in 1 .. Len(queue) : queue'[i] = queue[i]
        /\ Len(queue) \in Nat
    BY <1>14 DEF WriteReport
  <2>2. e # Sentinel
    BY DEF Report, Sentinel
  <2>3. runner' = "sim" /\ runner = "sim" /\ aggregator' = aggregator /\ joinable' = joinable
    BY <1>14 DEF WriteReport
  <2> HIDE DEF TypeOK
  <2> QED
    BY <2>1, <2>2, <2>3
<1>15. CASE Read
  <2>1. /\ Len(queue) \in Nat /\ Len(queue) > 0
        /\ Len(queue') = Len(queue) - 1
        /\ Head(queue) = queue[1]
        /\ \A i \in 1 .. Len(queue) - 1 : queue'[i] = queue[i + 1]
    BY <1>15 DEF Read
  <2>2. /\ runner' = runner /\ joinable' = joinable
        /\ aggregator' = IF queue[1] = Sentinel THEN "draining" ELSE "running"
    BY <1>15, <2>1 DEF Read
  <2> HIDE DEF TypeOK
  <2>3. \A i, j \in 1 .. Len(queue') : (i < j /\ queue'[i] = Sentinel) => queue'[j] = Sentinel
    BY <2>1
  <2>4. queue[1] = Sentinel => \A i \in 1 .. Len(queue') : queue'[i] = Sentinel
    BY <2>1
  <2>5. runner \in {"setup", "sim", "meta"} =>
          queue[1] # Sentinel /\ \A i \in 1 .. Len(queue') : queue'[i] # Sentinel
    BY <2>1
  <2> QED
    BY <2>2, <2>3, <2>4, <2>5
<1>16. CASE SendRow
  BY <1>16 DEF SendRow
<1>17. CASE AggregatorPanics
  BY <1>17 DEF AggregatorPanics
<1>18. CASE Exit
  BY <1>18 DEF Exit
<1>19. ASSUME NEW s \in Stream, Push(s) PROVE SentinelLast'
  BY <1>19 DEF Push
<1>20. ASSUME NEW s \in Stream, CloseStream(s) PROVE SentinelLast'
  BY <1>20 DEF CloseStream
<1>21. ASSUME NEW s \in Stream, Crash(s) PROVE SentinelLast'
  BY <1>21 DEF Crash
<1>22. CASE SimFails
  BY <1>22 DEF SimFails
<1>23. CASE UNCHANGED vars
  BY <1>23 DEF vars
<1> QED
  BY <1>1, <1>2, <1>3, <1>4, <1>5, <1>6, <1>7, <1>8, <1>9, <1>10, <1>11,
     <1>12, <1>13, <1>14, <1>15, <1>16, <1>17, <1>18, <1>19, <1>20, <1>21,
     <1>22, <1>23
     DEF Next, Runs, Aggregates, Writes

-----------------------------------------------------------------------------
(***************************************************************************)
(* The theorems                                                            *)
(***************************************************************************)

\* The invariant holds when the threads have been spawned.
LEMMA InvInit == Init => IInv
<1> SUFFICES ASSUME Init PROVE IInv
  OBVIOUS
<1>1. TypeOK /\ Called
  BY ShutdownAssumption DEF Init, TypeOK, Called, Stream
<1>2. Conserved /\ ClosedIsEmpty /\ Counted
  BY DEF Init, Conserved, ClosedIsEmpty, Counted, Stream
<1>3. Held /\ SentinelLast /\ Joined /\ PanicsOnlyOnCrash
  BY DEF Init, Held, SentinelLast, Joined, PanicsOnlyOnCrash, Holder
<1> QED
  BY <1>1, <1>2, <1>3 DEF IInv

\* The inductive invariant: what is held by whom at which point of the
\* shutdown, together with the conservation of rows.
THEOREM Invariance == Spec => []IInv
<1>1. IInv /\ [Next]_vars => IInv'
  BY TypeStep, RowsStep, ThreadsStep, QueueStep DEF IInv
<1> QED
  BY <1>1, InvInit, PTL DEF Spec

\* Every reachable state is well typed; no channel exceeds its capacity.
THEOREM TypeCorrect == Spec => []TypeOK
<1>1. IInv => TypeOK
  BY DEF IInv
<1> QED
  BY <1>1, Invariance, PTL

\* When finalize_remaining has returned and no writer has crashed, all files
\* are closed and complete.
THEOREM FilesAreComplete == Spec => []AllInFiles
<1>1. IInv => AllInFiles
  <2> SUFFICES ASSUME IInv, runner \in {"returned", "report"}, NoCrash, NEW s \in Stream
               PROVE  thread[s] = "closed" /\ file[s] = produced[s]
    BY DEF AllInFiles
  <2>1. thread[s] = "closed"
    BY DEF IInv, Joined, PanicsOnlyOnCrash
  <2>2. produced[s] = chan[s] + buf[s] + file[s] /\ chan[s] = 0 /\ buf[s] = 0
    BY <2>1 DEF IInv, Conserved, ClosedIsEmpty
  <2>3. file[s] \in Nat
    BY DEF IInv, TypeOK
  <2> QED
    BY <2>1, <2>2, <2>3
<1> QED
  BY <1>1, Invariance, PTL

\* An aggregator that has ended regularly leaves no report unread.
THEOREM ReportsAreHandled == Spec => []AllHandled
<1>1. IInv => AllHandled
  BY DEF IInv, AllHandled, Held, SentinelLast
<1> QED
  BY <1>1, Invariance, PTL

\* The message count that main prints is the number of rows in the file.
THEOREM CountIsExact == Spec => []CountIsRows
<1>1. IInv => CountIsRows
  <2> SUFFICES ASSUME IInv, runner \in {"returned", "report"}, NoCrash
               PROVE  count = file["msg_stats"]
    BY DEF CountIsRows
  <2>1. "msg_stats" \in Stream
    BY DEF Stream
  <2>2. aggregator # "panicked" /\ thread["msg_stats"] = "closed"
    BY <2>1 DEF IInv, Joined, PanicsOnlyOnCrash
  <2>3. /\ produced["msg_stats"] = chan["msg_stats"] + buf["msg_stats"] + file["msg_stats"]
        /\ chan["msg_stats"] = 0 /\ buf["msg_stats"] = 0
    BY <2>1, <2>2 DEF IInv, Conserved, ClosedIsEmpty
  <2>4. file["msg_stats"] \in Nat
    BY <2>1 DEF IInv, TypeOK
  <2> QED
    BY <2>2, <2>3, <2>4 DEF IInv, Counted
<1> QED
  BY <1>1, Invariance, PTL

\* No expect of the shutdown fires unless a writer has crashed.
THEOREM ShutdownIsOrderly == Spec => []PanicsOnlyOnCrash
<1>1. IInv => PanicsOnlyOnCrash
  BY DEF IInv
<1> QED
  BY <1>1, Invariance, PTL

=============================================================================
