-------------------------- MODULE AggregatorProofs --------------------------
(***************************************************************************)
(* Theorems about Aggregator, for every finite set of nodes, every set of  *)
(* keys and every length of the run.                                       *)
(***************************************************************************)
EXTENDS Aggregator, FiniteSetTheorems, TLAPS

-----------------------------------------------------------------------------
(***************************************************************************)
(* The inductive invariant                                                 *)
(***************************************************************************)

\* The nodes counted for an open message, and those that ever recorded it.
SeenBy(m) == {n \in Node : FirstSeen(n, m) \in slots}
RecordedBy(m) == {n \in Node : FirstSeen(n, m) \in recorded}

\* The counter of an open message is the number of its slots in use.
CoverageExact == \A m \in Msg : coverage[m] = Cardinality(SeenBy(m))

\* Nothing is shipped, queued or counted that no node recorded.
OnlyRecorded ==
  /\ \A n \in Node : \A i \in DOMAIN pending[n] : FirstSeen(n, pending[n][i]) \in recorded
  /\ \A i \in DOMAIN queue : queue[i] \in recorded
  /\ slots \subseteq recorded

\* No version of a channel update gets past the aggregator unnoticed.
LatestIsLatest == \A m \in byChannel : m.ts <= latest[m.key]

\* What a row says of how its message ended.
CauseTells ==
  /\ \A r \in rows : r.cause = "covered" => r.coverage = Cardinality(Node)
  /\ \A r \in rows : r.cause = "drained" => done
  /\ done => stopped /\ queue = << >>

\* What one step adds is finite.
FiniteParts == IsFiniteSet(slots) /\ IsFiniteSet(finalized)

\* The inductive invariant.  None of the safety properties is inductive by
\* itself.  OneRowEach and IndexExact rest on each other, SupersededIsOlder
\* on LatestIsLatest, and the number in a row on CoverageExact.
IInv ==
  /\ TypeOK
  /\ FiniteParts
  /\ OneRowEach
  /\ IndexExact
  /\ LatestIsLatest
  /\ SupersededIsOlder
  /\ OnlyRecorded
  /\ ReportsConserved
  /\ CoverageExact
  /\ CauseTells
  /\ CompleteUnlessSuperseded

-----------------------------------------------------------------------------
(***************************************************************************)
(* Rows and finished messages                                              *)
(***************************************************************************)

\* One row each: as many rows as finished messages.
LEMMA RowsCount ==
  ASSUME NEW R, NEW F, IsFiniteSet(F), F = {r.msg : r \in R},
         \A r, s \in R : r.msg = s.msg => r = s
  PROVE  IsFiniteSet(R) /\ Cardinality(R) = Cardinality(F)
<1> DEFINE g == [x \in F |-> CHOOSE r \in R : r.msg = x]
<1>1. g \in [F -> R] /\ \A x \in F : g[x].msg = x
  OBVIOUS
<1> HIDE DEF g
<1>2. \A r \in R : r.msg \in F /\ g[r.msg] = r
  BY <1>1
<1>3. g \in Injection(F, R) /\ g \in Surjection(F, R)
  <2>1. g \in Injection(F, R)
    BY <1>1 DEF Injection, IsInjective
  <2>2. g \in Surjection(F, R)
    BY <1>1, <1>2 DEF Surjection
  <2> QED
    BY <2>1, <2>2
<1>4. ExistsBijection(F, R)
  BY <1>3 DEF ExistsBijection, Bijection
<1> QED
  BY <1>4, FS_Bijection

\* The open messages are finitely many, and of the type of messages.
LEMMA OpenFacts ==
  ASSUME TypeOK, FiniteParts
  PROVE  Open \subseteq Msg /\ IsFiniteSet(Open)
<1> DEFINE g == [e \in slots |-> e.msg]
<1>1. g \in Surjection(slots, Open)
  BY DEF Surjection, Open
<1>2. IsFiniteSet(Open)
  BY <1>1, FS_Surjection DEF FiniteParts
<1>3. Open \subseteq Msg
  BY DEF TypeOK, Open, Entry
<1> QED
  BY <1>2, <1>3

\* The nodes that saw a message are finitely many.
LEMMA SeenFacts ==
  ASSUME NEW m
  PROVE  /\ IsFiniteSet(SeenBy(m)) /\ Cardinality(SeenBy(m)) \in Nat
         /\ IsFiniteSet(RecordedBy(m)) /\ Cardinality(RecordedBy(m)) \in Nat
<1>1. SeenBy(m) \in SUBSET Node /\ RecordedBy(m) \in SUBSET Node
  BY DEF SeenBy, RecordedBy
<1> QED
  BY <1>1, FS_Subset, FS_CardinalityType, AggregatorAssumption

-----------------------------------------------------------------------------
(***************************************************************************)
(* One step of the aggregator                                              *)
(***************************************************************************)

\* Whether entry e completes its message, and what e closes.
Covers(e) == ~ Counted(e) /\ coverage[e.msg] + 1 = Cardinality(Node)
Closed(e) == Killed(e.msg) \cup IF Covers(e) THEN {e.msg} ELSE {}

\* The rows e adds.
NewRows(e) ==
  {Row(x, coverage[x], "superseded") : x \in Killed(e.msg)}
  \cup IF Covers(e) THEN {Row(e.msg, coverage[e.msg] + 1, "covered")} ELSE {}

\* The head of the queue is an entry some node recorded.
LEMMA HeadFacts ==
  ASSUME TypeOK, OnlyRecorded, queue # << >>
  PROVE  LET e == Head(queue)
         IN  /\ e \in Entry /\ e \in recorded
             /\ e.node \in Node /\ e.msg \in Msg /\ e = FirstSeen(e.node, e.msg)
             /\ Tail(queue) \in Seq(Entry)
             /\ \A i \in DOMAIN Tail(queue) : i + 1 \in DOMAIN queue /\ Tail(queue)[i] = queue[i + 1]
             /\ e = queue[1] /\ 1 \in DOMAIN queue
             /\ \A i \in DOMAIN queue : i # 1 => i - 1 \in DOMAIN Tail(queue)
<1>1. queue \in Seq(Entry)
  BY DEF TypeOK
<1>2. /\ Head(queue) = queue[1] /\ 1 \in DOMAIN queue
      /\ Head(queue) \in Entry /\ Tail(queue) \in Seq(Entry)
  BY <1>1
<1>3. \A i \in DOMAIN Tail(queue) : i + 1 \in DOMAIN queue /\ Tail(queue)[i] = queue[i + 1]
  BY <1>1
<1>4. \A i \in DOMAIN queue : i # 1 => i - 1 \in DOMAIN Tail(queue)
  BY <1>1
<1>5. Head(queue) \in recorded
  BY <1>2 DEF OnlyRecorded
<1> QED
  BY <1>2, <1>3, <1>4, <1>5 DEF Entry, FirstSeen

\* What a message closes is open, older, and of the same channel update.
LEMMA KilledFacts ==
  ASSUME TypeOK, FiniteParts, OneRowEach, LatestIsLatest, NEW m \in Msg
  PROVE  /\ Killed(m) \subseteq Open /\ Killed(m) \subseteq Msg
         /\ m \notin Killed(m)
         /\ IsFiniteSet(Killed(m)) /\ Killed(m) \cap finalized = {}
         /\ \A x \in Killed(m) :
              Supersedes(m) /\ x \in byChannel /\ x.key = m.key /\ x.key \in ChanUpdate /\ x.ts < m.ts
<1>1. Killed(m) \in SUBSET Open /\ m \notin Killed(m)
  BY DEF Killed
<1>2. IsFiniteSet(Killed(m)) /\ Killed(m) \subseteq Msg
  BY <1>1, OpenFacts, FS_Subset
<1>3. Killed(m) \cap finalized = {}
  BY <1>1 DEF OneRowEach
<1>4. ASSUME NEW x \in Killed(m)
      PROVE  Supersedes(m) /\ x \in byChannel /\ x.key = m.key /\ x.key \in ChanUpdate /\ x.ts < m.ts
  <2>1. Supersedes(m) /\ x \in byChannel /\ x.key = m.key
    BY DEF Killed
  <2>2. m.key \in ChanUpdate /\ m.ts > latest[m.key]
    BY <2>1 DEF Supersedes
  <2>3. x.ts <= latest[x.key]
    BY <2>1 DEF LatestIsLatest
  <2>4. x.ts \in Int /\ m.ts \in Int /\ latest[m.key] \in Int
    BY <1>2, <2>2, AggregatorAssumption DEF Msg, TypeOK, Version, Absent
  <2> QED
    BY <2>1, <2>2, <2>3, <2>4
<1> QED
  BY <1>1, <1>2, <1>3, <1>4

\* A node's second report of an open message changes nothing.
LEMMA CountedAgain ==
  ASSUME TypeOK, IndexExact, LatestIsLatest, NEW e \in Entry,
         Counted(e), HandleOne(e)
  PROVE  UNCHANGED <<openVars, rowVars>>
<1>1. CASE Finished(e.msg)
  BY <1>1 DEF HandleOne
<1>2. CASE ~ Finished(e.msg)
  <2> DEFINE m == e.msg
  <2>1. m \in Msg /\ m \in Open
    BY DEF Counted, Open, Entry
  <2>2. ~ Supersedes(m)
    <3>1. CASE m.key \in ChanUpdate
      <4>1. m.ts <= latest[m.key]
        BY <2>1, <3>1 DEF IndexExact, LatestIsLatest
      <4>2. m.ts \in Int /\ latest[m.key] \in Int
        BY <2>1, <3>1, AggregatorAssumption DEF Msg, TypeOK, Version, Absent
      <4> QED
        BY <4>1, <4>2 DEF Supersedes
    <3> QED
      BY <3>1 DEF Supersedes
  <2>3. Killed(m) = {} /\ Indexed(m) = byChannel
    BY <2>2 DEF Killed, Indexed
  <2>4. latest' = latest /\ byChannel' = byChannel
    BY <1>2, <2>2, <2>3 DEF HandleOne
  <2>5. slots' = slots
    BY <1>2, <2>3 DEF HandleOne, Counted
  <2>6. coverage' = [x \in Msg |-> coverage[x]]
    BY <1>2, <2>3 DEF HandleOne
  <2>7. coverage' = coverage
    BY <2>6 DEF TypeOK
  <2>8. rows' = rows /\ finalized' = finalized /\ count' = count + Cardinality({}) + 0
    BY <1>2, <2>3 DEF HandleOne, CloseRows
  <2>9. count' = count
    BY <2>8, FS_EmptySet DEF TypeOK
  <2> QED
    BY <2>4, <2>5, <2>7, <2>8, <2>9 DEF openVars, rowVars
<1> QED
  BY <1>1, <1>2

\* What an entry closes: messages without a row, finitely many.
LEMMA ClosedFacts ==
  ASSUME TypeOK, FiniteParts, OneRowEach, LatestIsLatest, NEW e \in Entry, ~ Finished(e.msg)
  PROVE  /\ Closed(e) \subseteq Msg /\ Closed(e) \subseteq Open \cup {e.msg}
         /\ IsFiniteSet(Closed(e)) /\ Closed(e) \cap finalized = {}
         /\ Cardinality(Closed(e)) = Cardinality(Killed(e.msg)) + IF Covers(e) THEN 1 ELSE 0
<1> DEFINE m == e.msg
<1>1. m \in Msg /\ m \notin finalized
  BY DEF Entry, Finished
<1>2. /\ Killed(m) \subseteq Open /\ Killed(m) \subseteq Msg /\ m \notin Killed(m)
      /\ IsFiniteSet(Killed(m)) /\ Killed(m) \cap finalized = {}
  BY <1>1, KilledFacts
<1>3. CASE Covers(e)
  <2>1. Closed(e) = Killed(m) \cup {m}
    BY <1>3 DEF Closed
  <2>2. IsFiniteSet(Closed(e)) /\ Cardinality(Closed(e)) = Cardinality(Killed(m)) + 1
    BY <1>2, <2>1, FS_AddElement
  <2> QED
    BY <1>1, <1>2, <1>3, <2>1, <2>2
<1>4. CASE ~ Covers(e)
  <2>1. Closed(e) = Killed(m)
    BY <1>4 DEF Closed
  <2>2. Cardinality(Killed(m)) \in Nat
    BY <1>2, FS_CardinalityType
  <2> QED
    BY <1>2, <1>4, <2>1, <2>2
<1> QED
  BY <1>3, <1>4

\* The rows an entry adds: one for every message it closes.
LEMMA NewRowsFacts ==
  ASSUME TypeOK, FiniteParts, OneRowEach, LatestIsLatest, NEW e \in Entry, ~ Finished(e.msg)
  PROVE  /\ {r.msg : r \in NewRows(e)} = Closed(e)
         /\ \A r, s \in NewRows(e) : r.msg = s.msg => r = s
         /\ \A r \in NewRows(e) :
              \/ /\ r.cause = "superseded" /\ r.msg \in Killed(e.msg)
                 /\ r.coverage = coverage[r.msg]
              \/ /\ r.cause = "covered" /\ r.msg = e.msg /\ Covers(e)
                 /\ r.coverage = coverage[e.msg] + 1
         /\ NewRows(e) \subseteq [msg : Msg, coverage : Nat, cause : {"covered", "superseded", "drained"}]
<1> DEFINE m == e.msg
           A == {Row(x, coverage[x], "superseded") : x \in Killed(m)}
           B == IF Covers(e) THEN {Row(m, coverage[m] + 1, "covered")} ELSE {}
<1>1. m \in Msg /\ coverage[m] + 1 \in Nat /\ \A x \in Msg : coverage[x] \in Nat
  BY DEF Entry, TypeOK
<1>2. Killed(m) \subseteq Msg /\ m \notin Killed(m)
  BY <1>1, KilledFacts
<1>3. NewRows(e) = A \cup B /\ Closed(e) = Killed(m) \cup IF Covers(e) THEN {m} ELSE {}
  BY DEF NewRows, Closed
<1>4. \A r \in A : /\ r.msg \in Killed(m) /\ r.coverage = coverage[r.msg] /\ r.cause = "superseded"
                   /\ r = Row(r.msg, coverage[r.msg], "superseded")
  BY DEF Row
<1>5. \A r \in B : /\ r.msg = m /\ r.coverage = coverage[m] + 1 /\ r.cause = "covered" /\ Covers(e)
                   /\ r = Row(m, coverage[m] + 1, "covered")
  BY DEF Row
<1>6. \A x \in Killed(m) : Row(x, coverage[x], "superseded") \in A /\ Row(x, coverage[x], "superseded").msg = x
  BY DEF Row
<1>7. Covers(e) => Row(m, coverage[m] + 1, "covered") \in B /\ Row(m, coverage[m] + 1, "covered").msg = m
  BY DEF Row
<1>8. NewRows(e) \subseteq [msg : Msg, coverage : Nat, cause : {"covered", "superseded", "drained"}]
  <2>1. A \subseteq [msg : Msg, coverage : Nat, cause : {"covered", "superseded", "drained"}]
    BY <1>1, <1>2 DEF Row
  <2>2. B \subseteq [msg : Msg, coverage : Nat, cause : {"covered", "superseded", "drained"}]
    BY <1>1 DEF Row
  <2> QED
    BY <1>3, <2>1, <2>2
<1> HIDE DEF A, B
<1>9. {r.msg : r \in NewRows(e)} = Closed(e)
  <2>1. \A r \in NewRows(e) : r.msg \in Closed(e)
    BY <1>3, <1>4, <1>5
  <2>2. \A x \in Closed(e) : \E r \in NewRows(e) : r.msg = x
    BY <1>3, <1>6, <1>7
  <2> QED
    BY <2>1, <2>2
<1>10. \A r, s \in NewRows(e) : r.msg = s.msg => r = s
  BY <1>2, <1>3, <1>4, <1>5
<1>11. \A r \in NewRows(e) :
         \/ /\ r.cause = "superseded" /\ r.msg \in Killed(m) /\ r.coverage = coverage[r.msg]
         \/ /\ r.cause = "covered" /\ r.msg = m /\ Covers(e) /\ r.coverage = coverage[m] + 1
  BY <1>3, <1>4, <1>5
<1> QED
  BY <1>8, <1>9, <1>10, <1>11

\* The step for a node's first report of a message without a row: what it
\* closes gets its row and leaves the open messages and the index.
LEMMA FreshFacts ==
  ASSUME TypeOK, FiniteParts, OneRowEach, IndexExact, LatestIsLatest, NEW e \in Entry,
         ~ Finished(e.msg), ~ Counted(e), HandleOne(e)
  PROVE  LET m == e.msg
         IN  /\ \A s : s \in slots' <=> (s \in slots \/ s = e) /\ s.msg \notin Closed(e)
             /\ \A x : x \in Open' <=> (x \in Open \/ x = m) /\ x \notin Closed(e)
             /\ \A x : x \in byChannel' <=>
                  (x \in byChannel \/ (x = m /\ m.key \in ChanUpdate)) /\ x \notin Closed(e)
             /\ finalized' = finalized \cup Closed(e)
             /\ rows' = rows \cup NewRows(e)
             /\ count' = count + Cardinality(Closed(e))
             /\ latest' = IF Supersedes(m) THEN [latest EXCEPT ![m.key] = m.ts] ELSE latest
             /\ coverage' = [x \in Msg |-> IF x \in Closed(e) THEN 0
                                          ELSE IF x = m THEN coverage[x] + 1 ELSE coverage[x]]
<1> DEFINE m == e.msg
<1>1. m \in Msg /\ m \notin finalized
  BY DEF Entry, Finished
<1>2. /\ Killed(m) \subseteq Open /\ m \notin Killed(m)
      /\ \A x \in Killed(m) : Supersedes(m) /\ x.key = m.key
  BY <1>1, KilledFacts
<1>3. slots' = {s \in slots \cup {e} : s.msg \notin Closed(e)}
  BY DEF HandleOne, Closed, Covers
<1>4. \A s : s \in slots' <=> (s \in slots \/ s = e) /\ s.msg \notin Closed(e)
  BY <1>3
<1>5. \A x : x \in Open' <=> (x \in Open \/ x = m) /\ x \notin Closed(e)
  BY <1>4 DEF Open
<1>6. \A x : x \in byChannel' <=>
        (x \in byChannel \/ (x = m /\ m.key \in ChanUpdate)) /\ x \notin Closed(e)
  <2>1. byChannel' = IF Covers(e) THEN IndexAfterCover(m)
                     ELSE IF m.key \notin ChanUpdate THEN Indexed(m) ELSE Indexed(m) \cup {m}
    BY DEF HandleOne, Covers
  <2>2. \A x \in byChannel : x \in Open
    BY DEF IndexExact
  <2>3. \A x : x \in Indexed(m) \ {m} <=> x \in byChannel /\ x # m /\ x \notin Killed(m)
    BY <2>2 DEF Indexed, Killed
  <2>4. m \in byChannel => m.key \in ChanUpdate
    BY DEF IndexExact
  <2>5. CASE Covers(e)
    <3>1. Closed(e) = Killed(m) \cup {m} /\ byChannel' = Indexed(m) \ {m}
      BY <2>1, <2>5 DEF Closed, IndexAfterCover
    <3> QED
      BY <2>3, <3>1
  <2>6. CASE ~ Covers(e) /\ m.key \in ChanUpdate
    <3>1. Closed(e) = Killed(m) /\ byChannel' = Indexed(m) \cup {m}
      BY <2>1, <2>6 DEF Closed
    <3>2. \A x : x \in byChannel' <=> x \in Indexed(m) \ {m} \/ x = m
      BY <3>1
    <3> QED
      BY <1>2, <2>3, <2>6, <3>1, <3>2
  <2>7. CASE ~ Covers(e) /\ m.key \notin ChanUpdate
    <3>1. Closed(e) = Killed(m) /\ byChannel' = Indexed(m)
      BY <2>1, <2>7 DEF Closed
    <3>2. m \notin byChannel /\ m \notin Indexed(m)
      BY <2>4, <2>7 DEF Indexed
    <3> QED
      BY <2>3, <2>7, <3>1, <3>2
  <2> QED
    BY <2>5, <2>6, <2>7
<1>7. /\ finalized' = finalized \cup Closed(e)
      /\ rows' = rows \cup NewRows(e)
  BY DEF HandleOne, CloseRows, Closed, NewRows, Covers
<1>8. count' = count + Cardinality(Closed(e))
  <2>1. count' = count + Cardinality(Killed(m)) + IF Covers(e) THEN 1 ELSE 0
    BY DEF HandleOne, CloseRows, Covers
  <2>2. Cardinality(Closed(e)) = Cardinality(Killed(m)) + IF Covers(e) THEN 1 ELSE 0
    BY ClosedFacts
  <2>3. IsFiniteSet(Killed(m))
    BY <1>1, KilledFacts
  <2>4. Cardinality(Killed(m)) \in Nat /\ count \in Nat
    BY <2>3, FS_CardinalityType DEF TypeOK
  <2> QED
    BY <2>1, <2>2, <2>4
<1>9. /\ latest' = IF Supersedes(m) THEN [latest EXCEPT ![m.key] = m.ts] ELSE latest
      /\ coverage' = [x \in Msg |-> IF x \in Closed(e) THEN 0
                                   ELSE IF x = m THEN coverage[x] + 1 ELSE coverage[x]]
  BY DEF HandleOne, Closed, Covers
<1> QED
  BY <1>4, <1>5, <1>6, <1>7, <1>8, <1>9

\* The aggregator takes an entry: it changes nothing but the queue, or it is
\* the first report of that node of a message without a row.
LEMMA AggregateCases ==
  ASSUME IInv, Aggregate
  PROVE  LET e == Head(queue)
         IN  /\ e \in Entry /\ HandleOne(e)
             /\ \/ UNCHANGED <<openVars, rowVars>> /\ (Finished(e.msg) \/ Counted(e))
                \/ ~ Finished(e.msg) /\ ~ Counted(e)
<1> DEFINE e == Head(queue)
<1>1. e \in Entry /\ HandleOne(e)
  BY HeadFacts DEF Aggregate, IInv
<1>2. Counted(e) => UNCHANGED <<openVars, rowVars>>
  BY <1>1, CountedAgain DEF IInv
<1>3. Finished(e.msg) => UNCHANGED <<openVars, rowVars>>
  BY <1>1 DEF HandleOne
<1> QED
  BY <1>1, <1>2, <1>3

-----------------------------------------------------------------------------
(***************************************************************************)
(* Type correctness                                                        *)
(***************************************************************************)

\* The initial state satisfies the invariant.
LEMMA InvInit == Init => IInv
<1> SUFFICES ASSUME Init PROVE IInv
  OBVIOUS
<1>1. TypeOK
  <2>1. stopped \in BOOLEAN /\ done \in BOOLEAN
    BY DEF Init
  <2>2. held \in [Node -> [Key -> Version]] /\ latest \in [ChanUpdate -> Version]
    BY AggregatorAssumption DEF Init, Version, Absent
  <2>3. pending \in [Node -> Seq(Msg)] /\ queue \in Seq(Entry)
    BY DEF Init
  <2>4. coverage \in [Msg -> Nat] /\ seenCount \in Nat /\ count \in Nat
    BY DEF Init
  <2> QED
    BY <2>1, <2>2, <2>3, <2>4 DEF Init, TypeOK
<1>2. FiniteParts /\ OneRowEach
  BY FS_EmptySet DEF Init, FiniteParts, OneRowEach, Open
<1>3. IndexExact /\ LatestIsLatest /\ SupersededIsOlder /\ OnlyRecorded /\ ReportsConserved
  BY DEF Init, IndexExact, LatestIsLatest, SupersededIsOlder, OnlyRecorded, ReportsConserved, Open
<1>4. CoverageExact
  <2>1. \A m \in Msg : SeenBy(m) = {}
    BY DEF Init, SeenBy
  <2> QED
    BY <2>1, FS_EmptySet DEF Init, CoverageExact
<1>5. CauseTells /\ CompleteUnlessSuperseded
  BY DEF Init, CauseTells, CompleteUnlessSuperseded
<1> QED
  BY <1>1, <1>2, <1>3, <1>4, <1>5 DEF IInv

\* A recorded entry is appended to the node's buffer.
LEMMA RecordFacts ==
  ASSUME TypeOK, NEW n \in Node, NEW m \in Msg, Record(n, m)
  PROVE  /\ pending' \in [Node -> Seq(Msg)]
         /\ pending'[n] = Append(pending[n], m)
         /\ \A p \in Node : p # n => pending'[p] = pending[p]
         /\ recorded' = recorded \cup {FirstSeen(n, m)} /\ FirstSeen(n, m) \in Entry
         /\ ~ stopped
         /\ UNCHANGED <<stopped, queue, openVars, rowVars, done>>
  BY DEF Record, TypeOK, Entry, FirstSeen

\* The action behind Originate and Absorb.
LEMMA NodeRecords ==
  ASSUME NEW k \in Key, NEW v \in 0 .. MaxVersion
  PROVE  /\ Message(k, v) \in Msg
         /\ Originate(k, v) => Owner[k] \in Node /\ Record(Owner[k], Message(k, v))
         /\ \A n \in Node : Absorb(n, k, v) => Record(n, Message(k, v))
  BY AggregatorAssumption DEF Message, Msg, Originate, Absorb

\* The entries of a buffer, shipped.
LEMMA ShippedFacts ==
  ASSUME TypeOK, NEW n \in Node
  PROVE  /\ Shipped(n) \in Seq(Entry) /\ DOMAIN Shipped(n) = DOMAIN pending[n]
         /\ \A i \in DOMAIN pending[n] : Shipped(n)[i] = FirstSeen(n, pending[n][i])
<1>1. pending[n] \in Seq(Msg)
  BY DEF TypeOK
<1>2. \A i \in DOMAIN pending[n] : FirstSeen(n, pending[n][i]) \in Entry
  BY <1>1 DEF FirstSeen, Entry
<1> QED
  BY <1>1, <1>2 DEF Shipped, Entries

\* The stages of a step: every action but the flush keeps the queue, its
\* tail, or is the end.
LEMMA NextCases ==
  ASSUME [Next]_vars
  PROVE  \/ \E n \in Node, m \in Msg : Record(n, m)
         \/ \E n \in Node : FlushSummary(n)
         \/ Stop
         \/ Aggregate
         \/ FinalizeRemaining
         \/ UNCHANGED vars
<1>1. ASSUME NEW k \in Key, NEW v \in 0 .. MaxVersion, Originate(k, v)
      PROVE  \E n \in Node, m \in Msg : Record(n, m)
  BY <1>1, NodeRecords
<1>2. ASSUME NEW n \in Node, NEW k \in Key, NEW v \in 0 .. MaxVersion, Absorb(n, k, v)
      PROVE  \E p \in Node, m \in Msg : Record(p, m)
  BY <1>2, NodeRecords
<1> QED
  BY <1>1, <1>2 DEF Next, Ended

\* Every step preserves the types.
LEMMA TypeStep == IInv /\ [Next]_vars => TypeOK'
<1> SUFFICES ASSUME IInv, [Next]_vars PROVE TypeOK'
  OBVIOUS
<1> USE DEF IInv
<1>1. ASSUME NEW n \in Node, NEW m \in Msg, Record(n, m) PROVE TypeOK'
  <2>1. held' \in [Node -> [Key -> Version]]
    BY <1>1 DEF Record, TypeOK, Msg, Version, Absent
  <2>2. pending' \in [Node -> Seq(Msg)] /\ recorded' \subseteq Entry
    BY <1>1, RecordFacts DEF TypeOK
  <2>3. seenCount' \in Nat
    BY <1>1 DEF Record, TypeOK
  <2> QED
    BY <1>1, <2>1, <2>2, <2>3 DEF Record, TypeOK, openVars, rowVars
<1>2. ASSUME NEW n \in Node, FlushSummary(n) PROVE TypeOK'
  <2>1. queue' \in Seq(Entry)
    BY <1>2, ShippedFacts DEF FlushSummary, TypeOK
  <2>2. pending' \in [Node -> Seq(Msg)]
    BY <1>2 DEF FlushSummary, TypeOK
  <2>3. flushed' \subseteq Node
    BY <1>2 DEF FlushSummary, TypeOK
  <2> QED
    BY <1>2, <2>1, <2>2, <2>3 DEF FlushSummary, TypeOK, openVars, rowVars
<1>3. CASE Stop
  BY <1>3 DEF Stop, TypeOK, nodeVars, openVars, rowVars
<1>4. CASE Aggregate
  <2> DEFINE e == Head(queue)
             m == e.msg
  <2>1. queue' \in Seq(Entry) /\ UNCHANGED <<nodeVars, stopped, done>>
    BY <1>4, HeadFacts DEF Aggregate
  <2>2. e \in Entry /\ HandleOne(e) /\ m \in Msg
    BY <1>4, AggregateCases DEF Entry
  <2>3. CASE UNCHANGED <<openVars, rowVars>>
    BY <2>1, <2>3 DEF TypeOK, nodeVars, openVars, rowVars
  <2>4. CASE ~ Finished(m) /\ ~ Counted(e)
    <3>1. slots' \subseteq Entry
      BY <2>2, <2>4, FreshFacts DEF TypeOK
    <3>2. byChannel' \subseteq Msg
      BY <2>2, <2>4, FreshFacts DEF TypeOK
    <3>3. finalized' \subseteq Msg /\ count' \in Nat
      <4>1. finalized' = finalized \cup Closed(e) /\ count' = count + Cardinality(Closed(e))
        BY <2>2, <2>4, FreshFacts
      <4>2. Closed(e) \subseteq Msg /\ Cardinality(Closed(e)) \in Nat
        BY <2>2, <2>4, ClosedFacts, FS_CardinalityType
      <4> QED
        BY <4>1, <4>2 DEF TypeOK
    <3>4. rows' \subseteq [msg : Msg, coverage : Nat, cause : {"covered", "superseded", "drained"}]
      <4>1. rows' = rows \cup NewRows(e)
        BY <2>2, <2>4, FreshFacts
      <4>2. NewRows(e) \subseteq [msg : Msg, coverage : Nat, cause : {"covered", "superseded", "drained"}]
        BY <2>2, <2>4, NewRowsFacts
      <4> QED
        BY <4>1, <4>2 DEF TypeOK
    <3>5. latest' \in [ChanUpdate -> Version]
      <4>1. latest' = IF Supersedes(m) THEN [latest EXCEPT ![m.key] = m.ts] ELSE latest
        BY <2>2, <2>4, FreshFacts
      <4>2. m.ts \in Version
        BY <2>2 DEF Msg, Version, Absent
      <4> QED
        BY <4>1, <4>2 DEF TypeOK
    <3>6. coverage' \in [Msg -> Nat]
      <4>1. coverage' = [x \in Msg |-> IF x \in Closed(e) THEN 0
                                      ELSE IF x = m THEN coverage[x] + 1 ELSE coverage[x]]
        BY <2>2, <2>4, FreshFacts
      <4> QED
        BY <4>1 DEF TypeOK
    <3> QED
      BY <2>1, <3>1, <3>2, <3>3, <3>4, <3>5, <3>6 DEF TypeOK, nodeVars
  <2> QED
    BY <1>4, <2>3, <2>4, AggregateCases
<1>5. CASE FinalizeRemaining
  <2>1. Drained \subseteq Msg /\ Cardinality(Drained) \in Nat
    <3>1. Drained \in SUBSET Open
      BY DEF Drained
    <3> QED
      BY <3>1, OpenFacts, FS_Subset, FS_CardinalityType
  <2>2. rows' \subseteq [msg : Msg, coverage : Nat, cause : {"covered", "superseded", "drained"}]
    BY <1>5, <2>1 DEF FinalizeRemaining, TypeOK, Row
  <2>3. coverage' \in [Msg -> Nat]
    BY <1>5 DEF FinalizeRemaining
  <2>4. finalized' \subseteq Msg /\ count' \in Nat
    BY <1>5, <2>1 DEF FinalizeRemaining, TypeOK
  <2>5. done' \in BOOLEAN
    BY <1>5 DEF FinalizeRemaining
  <2> QED
    BY <1>5, <2>2, <2>3, <2>4, <2>5 DEF FinalizeRemaining, TypeOK, nodeVars
<1>6. CASE UNCHANGED vars
  BY <1>6 DEF TypeOK, vars, nodeVars, openVars, rowVars
<1> QED
  BY <1>1, <1>2, <1>3, <1>4, <1>5, <1>6, NextCases

-----------------------------------------------------------------------------
(***************************************************************************)
(* The rows                                                                *)
(***************************************************************************)

\* What a step of a node or of the runner leaves alone.
LEMMA OthersKeepRows ==
  ASSUME \/ \E n \in Node, m \in Msg : Record(n, m)
         \/ \E n \in Node : FlushSummary(n)
         \/ Stop
         \/ UNCHANGED vars
  PROVE  UNCHANGED <<openVars, rowVars, done>>
  BY DEF Record, FlushSummary, Stop, vars

\* What is still open at the end gets its row.
LEMMA DrainedFacts ==
  ASSUME TypeOK, FiniteParts, OneRowEach, FinalizeRemaining
  PROVE  /\ Drained = Open /\ Drained \cap finalized = {} /\ IsFiniteSet(Drained)
         /\ Open' = {} /\ slots' = {}
         /\ \A r \in rows' : r \in rows \/ /\ r.msg \in Open /\ r.cause = "drained"
                                            /\ r = Row(r.msg, coverage[r.msg], "drained")
         /\ \A m \in Open : \E r \in rows' : r.msg = m
         /\ rows \subseteq rows'
<1>1. Drained = Open /\ Drained \cap finalized = {}
  BY DEF Drained, OneRowEach
<1>2. IsFiniteSet(Drained)
  BY <1>1, OpenFacts
<1>3. slots' = {} /\ Open' = {}
  BY DEF FinalizeRemaining, Open
<1>4. rows' = rows \cup {Row(m, coverage[m], "drained") : m \in Open}
  BY <1>1 DEF FinalizeRemaining
<1>5. \A m \in Open : Row(m, coverage[m], "drained").msg = m /\ Row(m, coverage[m], "drained").cause = "drained"
  BY DEF Row
<1> QED
  BY <1>1, <1>2, <1>3, <1>4, <1>5

\* One row for every finished message, and none of them open.
LEMMA RowsStep == IInv /\ [Next]_vars => FiniteParts' /\ OneRowEach'
<1> SUFFICES ASSUME IInv, [Next]_vars PROVE FiniteParts' /\ OneRowEach'
  OBVIOUS
<1> USE DEF IInv
<1>1. CASE UNCHANGED <<openVars, rowVars>>
  BY <1>1 DEF FiniteParts, OneRowEach, Open, openVars, rowVars
<1>2. \A R, F : /\ IsFiniteSet(F)
                /\ F = {r.msg : r \in R}
                /\ \A r, s \in R : r.msg = s.msg => r = s
                => Cardinality(R) = Cardinality(F)
  BY RowsCount
<1>3. /\ finalized = {r.msg : r \in rows} /\ \A r, s \in rows : r.msg = s.msg => r = s
      /\ IsFiniteSet(finalized) /\ count = Cardinality(finalized)
      /\ IsFiniteSet(slots) /\ Open \cap finalized = {}
  BY <1>2 DEF OneRowEach, FiniteParts
<1>4. CASE Aggregate /\ ~ UNCHANGED <<openVars, rowVars>>
  <2> DEFINE e == Head(queue)
             m == e.msg
  <2>1. e \in Entry /\ HandleOne(e) /\ ~ Finished(m) /\ ~ Counted(e)
    BY <1>4, AggregateCases
  <2>2. /\ finalized' = finalized \cup Closed(e) /\ rows' = rows \cup NewRows(e)
        /\ count' = count + Cardinality(Closed(e))
        /\ \A x : x \in Open' <=> (x \in Open \/ x = m) /\ x \notin Closed(e)
        /\ slots' \subseteq slots \cup {e}
    BY <2>1, FreshFacts
  <2>3. IsFiniteSet(Closed(e)) /\ Closed(e) \cap finalized = {}
    BY <2>1, ClosedFacts
  <2>4. {r.msg : r \in NewRows(e)} = Closed(e) /\ \A r, s \in NewRows(e) : r.msg = s.msg => r = s
    BY <2>1, NewRowsFacts
  <2> HIDE DEF e
  <2>5. IsFiniteSet(finalized') /\ Cardinality(finalized') = Cardinality(finalized) + Cardinality(Closed(e))
    <3>1. Cardinality(finalized \cap Closed(e)) = 0
      BY <2>3, FS_EmptySet
    <3>2. Cardinality(finalized) \in Nat /\ Cardinality(Closed(e)) \in Nat
      BY <1>3, <2>3, FS_CardinalityType
    <3>3. /\ IsFiniteSet(finalized \cup Closed(e))
          /\ Cardinality(finalized \cup Closed(e))
               = Cardinality(finalized) + Cardinality(Closed(e)) - Cardinality(finalized \cap Closed(e))
      BY <1>3, <2>3, FS_Union
    <3> QED
      BY <2>2, <3>1, <3>2, <3>3
  <2>6. finalized' = {r.msg : r \in rows'}
    BY <1>3, <2>2, <2>4
  <2>7. \A r, s \in rows' : r.msg = s.msg => r = s
    <3> SUFFICES ASSUME NEW r \in rows', NEW s \in rows', r.msg = s.msg PROVE r = s
      OBVIOUS
    <3>1. r \in rows => r.msg \in finalized
      BY <1>3
    <3>2. s \in rows => s.msg \in finalized
      BY <1>3
    <3>3. r \in NewRows(e) => r.msg \in Closed(e)
      BY <2>4
    <3>4. s \in NewRows(e) => s.msg \in Closed(e)
      BY <2>4
    <3> QED
      BY <1>3, <2>2, <2>3, <2>4, <3>1, <3>2, <3>3, <3>4
  <2>8. count' = Cardinality(rows')
    BY <1>2, <1>3, <2>2, <2>5, <2>6, <2>7
  <2>9. Open' \cap finalized' = {}
    BY <1>3, <2>1, <2>2 DEF Finished
  <2>10. IsFiniteSet(slots')
    BY <1>3, <2>2, FS_AddElement, FS_Subset
  <2> QED
    BY <2>5, <2>6, <2>7, <2>8, <2>9, <2>10 DEF FiniteParts, OneRowEach
<1>5. CASE FinalizeRemaining
  <2>1. /\ Drained = Open /\ Drained \cap finalized = {} /\ IsFiniteSet(Drained)
        /\ Open' = {} /\ slots' = {}
        /\ \A r \in rows' : r \in rows \/ /\ r.msg \in Open /\ r.cause = "drained"
                                           /\ r = Row(r.msg, coverage[r.msg], "drained")
        /\ \A m \in Open : \E r \in rows' : r.msg = m
        /\ rows \subseteq rows'
    BY <1>5, DrainedFacts
  <2>2. finalized' = finalized \cup Drained /\ count' = count + Cardinality(Drained)
    BY <1>5 DEF FinalizeRemaining
  <2>3. IsFiniteSet(finalized') /\ Cardinality(finalized') = Cardinality(finalized) + Cardinality(Drained)
    <3>1. Cardinality(finalized \cap Drained) = 0
      BY <2>1, FS_EmptySet
    <3>2. Cardinality(finalized) \in Nat /\ Cardinality(Drained) \in Nat
      BY <1>3, <2>1, FS_CardinalityType
    <3>3. /\ IsFiniteSet(finalized \cup Drained)
          /\ Cardinality(finalized \cup Drained)
               = Cardinality(finalized) + Cardinality(Drained) - Cardinality(finalized \cap Drained)
      BY <1>3, <2>1, FS_Union
    <3> QED
      BY <2>2, <3>1, <3>2, <3>3
  <2>4. finalized' = {r.msg : r \in rows'}
    BY <1>3, <2>1, <2>2
  <2>5. \A r, s \in rows' : r.msg = s.msg => r = s
    <3> SUFFICES ASSUME NEW r \in rows', NEW s \in rows', r.msg = s.msg PROVE r = s
      OBVIOUS
    <3>1. r \in rows => r.msg \notin Open
      BY <1>3
    <3>2. s \in rows => s.msg \notin Open
      BY <1>3
    <3> QED
      BY <1>3, <2>1, <3>1, <3>2
  <2>6. count' = Cardinality(rows')
    BY <1>2, <1>3, <2>2, <2>3, <2>4, <2>5
  <2>7. IsFiniteSet(slots')
    BY <2>1, FS_EmptySet
  <2> QED
    BY <2>1, <2>3, <2>4, <2>5, <2>6, <2>7 DEF FiniteParts, OneRowEach
<1> QED
  BY <1>1, <1>4, <1>5, NextCases, OthersKeepRows

\* The index holds the open channel updates, none newer than the latest.
LEMMA IndexStep == IInv /\ TypeOK' /\ [Next]_vars => IndexExact' /\ LatestIsLatest' /\ SupersededIsOlder'
<1> SUFFICES ASSUME IInv, TypeOK', [Next]_vars
             PROVE  IndexExact' /\ LatestIsLatest' /\ SupersededIsOlder'
  OBVIOUS
<1> USE DEF IInv
<1>1. CASE UNCHANGED <<openVars, rowVars>>
  BY <1>1 DEF IndexExact, LatestIsLatest, SupersededIsOlder, Open, openVars, rowVars
<1>2. \A m \in Msg : m.key \in ChanUpdate => m.ts \in Int /\ latest[m.key] \in Int /\ latest'[m.key] \in Int
  BY DEF Msg, TypeOK, Version, Absent
<1>3. \A r \in rows : r.msg \in Msg
  BY DEF TypeOK
<1>4. CASE Aggregate /\ ~ UNCHANGED <<openVars, rowVars>>
  <2> DEFINE e == Head(queue)
             m == e.msg
  <2>1. e \in Entry /\ HandleOne(e) /\ ~ Finished(m) /\ ~ Counted(e)
    BY <1>4, AggregateCases
  <2>2. m \in Msg
    BY <2>1 DEF Entry
  <2>3. /\ rows' = rows \cup NewRows(e)
        /\ \A x : x \in Open' <=> (x \in Open \/ x = m) /\ x \notin Closed(e)
        /\ \A x : x \in byChannel' <=>
             (x \in byChannel \/ (x = m /\ m.key \in ChanUpdate)) /\ x \notin Closed(e)
        /\ latest' = IF Supersedes(m) THEN [latest EXCEPT ![m.key] = m.ts] ELSE latest
    BY <2>1, FreshFacts
  <2>4. \A x \in Killed(m) :
          Supersedes(m) /\ x \in byChannel /\ x.key = m.key /\ x.key \in ChanUpdate /\ x.ts < m.ts
    BY <2>2, KilledFacts
  <2>5. \A r \in NewRows(e) : r.cause = "superseded" => r.msg \in Killed(m)
    BY <2>1, NewRowsFacts
  <2> HIDE DEF e
  <2>6. \A k \in ChanUpdate : latest'[k] = IF Supersedes(m) /\ k = m.key THEN m.ts ELSE latest[k]
    BY <2>3 DEF TypeOK
  <2>7. m.key \in ChanUpdate => m.ts <= latest'[m.key]
    BY <1>2, <2>2, <2>6 DEF Supersedes
  <2>8. \A x \in Msg : x.key \in ChanUpdate => latest[x.key] <= latest'[x.key]
    BY <1>2, <2>2, <2>6 DEF Supersedes
  <2>9. IndexExact'
    BY <2>3 DEF IndexExact
  <2>10. LatestIsLatest'
    <3> SUFFICES ASSUME NEW x \in byChannel' PROVE x.ts <= latest'[x.key]
      BY DEF LatestIsLatest
    <3>1. CASE x \in byChannel
      <4>1. x.ts <= latest[x.key] /\ x \in Msg /\ x.key \in ChanUpdate
        BY <3>1 DEF LatestIsLatest, IndexExact, TypeOK
      <4> QED
        BY <1>2, <2>8, <4>1
    <3>2. CASE x = m /\ m.key \in ChanUpdate
      BY <2>7, <3>2
    <3> QED
      BY <2>3, <3>1, <3>2
  <2>11. SupersededIsOlder'
    <3> SUFFICES ASSUME NEW r \in rows', r.cause = "superseded"
                 PROVE  r.msg.key \in ChanUpdate /\ r.msg.ts < latest'[r.msg.key]
      BY DEF SupersededIsOlder
    <3>1. CASE r \in rows
      <4>1. r.msg.key \in ChanUpdate /\ r.msg.ts < latest[r.msg.key] /\ r.msg \in Msg
        BY <1>3, <3>1 DEF SupersededIsOlder
      <4> QED
        BY <1>2, <2>8, <4>1
    <3>2. CASE r \in NewRows(e)
      <4>1. /\ Supersedes(m) /\ r.msg.key = m.key /\ r.msg.key \in ChanUpdate /\ r.msg.ts < m.ts
        BY <2>4, <2>5, <3>2
      <4> QED
        BY <2>6, <4>1
    <3> QED
      BY <2>3, <3>1, <3>2
  <2> QED
    BY <2>9, <2>10, <2>11
<1>5. CASE FinalizeRemaining
  <2>1. /\ Open' = {} /\ byChannel' = {} /\ latest' = latest
        /\ \A r \in rows' : r \in rows \/ r.cause = "drained"
    BY <1>5, DrainedFacts DEF FinalizeRemaining
  <2> QED
    BY <2>1 DEF IndexExact, LatestIsLatest, SupersededIsOlder
<1> QED
  BY <1>1, <1>4, <1>5, NextCases, OthersKeepRows

-----------------------------------------------------------------------------
(***************************************************************************)
(* The reports                                                             *)
(***************************************************************************)

\* What flush_summary does to the queue and to the buffers.
LEMMA FlushFacts ==
  ASSUME TypeOK, NEW n \in Node, FlushSummary(n)
  PROVE  /\ \A i \in DOMAIN queue : i \in DOMAIN queue' /\ queue'[i] = queue[i]
         /\ \A i \in DOMAIN pending[n] :
              \E j \in DOMAIN queue' : queue'[j] = FirstSeen(n, pending[n][i])
         /\ \A j \in DOMAIN queue' :
              \/ j \in DOMAIN queue /\ queue'[j] = queue[j]
              \/ \E i \in DOMAIN pending[n] : queue'[j] = FirstSeen(n, pending[n][i])
         /\ pending'[n] = << >> /\ \A p \in Node : p # n => pending'[p] = pending[p]
         /\ ~ stopped
         /\ UNCHANGED <<recorded, openVars, rowVars, stopped, done>>
<1>1. /\ Shipped(n) \in Seq(Entry) /\ DOMAIN Shipped(n) = DOMAIN pending[n]
      /\ \A i \in DOMAIN pending[n] : Shipped(n)[i] = FirstSeen(n, pending[n][i])
  BY ShippedFacts
<1>2. queue \in Seq(Entry) /\ queue' = queue \o Shipped(n)
  BY DEF TypeOK, FlushSummary
<1>3. /\ \A i \in DOMAIN queue : i \in DOMAIN queue' /\ queue'[i] = queue[i]
      /\ \A i \in DOMAIN Shipped(n) :
           Len(queue) + i \in DOMAIN queue' /\ queue'[Len(queue) + i] = Shipped(n)[i]
      /\ \A j \in DOMAIN queue' :
           \/ j \in DOMAIN queue
           \/ j - Len(queue) \in DOMAIN Shipped(n) /\ queue'[j] = Shipped(n)[j - Len(queue)]
  BY <1>1, <1>2
<1>4. pending'[n] = << >> /\ \A p \in Node : p # n => pending'[p] = pending[p]
  BY DEF TypeOK, FlushSummary
<1>5. ~ stopped /\ UNCHANGED <<recorded, openVars, rowVars, stopped, done>>
  BY DEF FlushSummary
<1> QED
  BY <1>1, <1>3, <1>4, <1>5

\* Only what was recorded is under way, and it stays until it is counted.
LEMMA ReportsStep == IInv /\ TypeOK' /\ [Next]_vars => OnlyRecorded' /\ ReportsConserved'
<1> SUFFICES ASSUME IInv, TypeOK', [Next]_vars PROVE OnlyRecorded' /\ ReportsConserved'
  OBVIOUS
<1> USE DEF IInv
<1>1. ASSUME NEW n \in Node, NEW m \in Msg, Record(n, m) PROVE OnlyRecorded' /\ ReportsConserved'
  <2>1. /\ pending'[n] = Append(pending[n], m)
        /\ \A p \in Node : p # n => pending'[p] = pending[p]
        /\ recorded' = recorded \cup {FirstSeen(n, m)} /\ FirstSeen(n, m) \in Entry
        /\ queue' = queue /\ slots' = slots /\ finalized' = finalized
    BY <1>1, RecordFacts DEF openVars, rowVars
  <2>2. pending[n] \in Seq(Msg)
    BY DEF TypeOK
  <2>3. /\ \A i \in DOMAIN pending[n] : i \in DOMAIN pending'[n] /\ pending'[n][i] = pending[n][i]
        /\ Len(pending[n]) + 1 \in DOMAIN pending'[n] /\ pending'[n][Len(pending[n]) + 1] = m
        /\ \A i \in DOMAIN pending'[n] : i \in DOMAIN pending[n] \/ pending'[n][i] = m
    BY <2>1, <2>2
  <2>4. OnlyRecorded'
    <3>1. ASSUME NEW p \in Node, NEW i \in DOMAIN pending'[p]
          PROVE  FirstSeen(p, pending'[p][i]) \in recorded'
      <4>1. CASE p = n
        BY <2>1, <2>3, <4>1 DEF OnlyRecorded
      <4>2. CASE p # n
        BY <2>1, <4>2 DEF OnlyRecorded
      <4> QED
        BY <4>1, <4>2
    <3> QED
      BY <2>1, <3>1 DEF OnlyRecorded
  <2>5. ReportsConserved'
    <3> SUFFICES ASSUME NEW e \in recorded'
                 PROVE  \/ \E i \in DOMAIN pending'[e.node] : pending'[e.node][i] = e.msg
                        \/ \E i \in DOMAIN queue : queue[i] = e
                        \/ e \in slots
                        \/ e.msg \in finalized
      BY <2>1 DEF ReportsConserved
    <3>1. CASE e = FirstSeen(n, m)
      <4>1. e.node = n /\ e.msg = m
        BY <3>1 DEF FirstSeen
      <4> QED
        BY <2>3, <4>1
    <3>2. CASE e \in recorded
      <4>1. e.node \in Node
        BY <3>2 DEF TypeOK, Entry
      <4>2. (\E i \in DOMAIN pending[e.node] : pending[e.node][i] = e.msg)
              => \E i \in DOMAIN pending'[e.node] : pending'[e.node][i] = e.msg
        BY <2>1, <2>3, <4>1
      <4> QED
        BY <3>2, <4>2 DEF ReportsConserved
    <3> QED
      BY <2>1, <3>1, <3>2
  <2> QED
    BY <2>4, <2>5
<1>2. ASSUME NEW n \in Node, FlushSummary(n) PROVE OnlyRecorded' /\ ReportsConserved'
  <2>1. /\ \A i \in DOMAIN queue : i \in DOMAIN queue' /\ queue'[i] = queue[i]
        /\ \A i \in DOMAIN pending[n] :
             \E j \in DOMAIN queue' : queue'[j] = FirstSeen(n, pending[n][i])
        /\ \A j \in DOMAIN queue' :
             \/ j \in DOMAIN queue /\ queue'[j] = queue[j]
             \/ \E i \in DOMAIN pending[n] : queue'[j] = FirstSeen(n, pending[n][i])
        /\ pending'[n] = << >> /\ \A p \in Node : p # n => pending'[p] = pending[p]
        /\ recorded' = recorded /\ slots' = slots /\ finalized' = finalized
    BY <1>2, FlushFacts DEF openVars, rowVars
  <2>2. OnlyRecorded'
    <3>1. \A p \in Node : \A i \in DOMAIN pending'[p] : FirstSeen(p, pending'[p][i]) \in recorded
      BY <2>1 DEF OnlyRecorded
    <3>2. \A j \in DOMAIN queue' : queue'[j] \in recorded
      BY <2>1 DEF OnlyRecorded
    <3> QED
      BY <2>1, <3>1, <3>2 DEF OnlyRecorded
  <2>3. ReportsConserved'
    <3> SUFFICES ASSUME NEW e \in recorded
                 PROVE  \/ \E i \in DOMAIN pending'[e.node] : pending'[e.node][i] = e.msg
                        \/ \E i \in DOMAIN queue' : queue'[i] = e
                        \/ e \in slots
                        \/ e.msg \in finalized
      BY <2>1 DEF ReportsConserved
    <3>1. e.node \in Node /\ e = FirstSeen(e.node, e.msg)
      BY DEF TypeOK, Entry, FirstSeen
    <3>2. CASE \E i \in DOMAIN pending[e.node] : pending[e.node][i] = e.msg
      <4>1. CASE e.node = n
        BY <2>1, <3>1, <3>2, <4>1
      <4>2. CASE e.node # n
        BY <2>1, <3>1, <3>2, <4>2
      <4> QED
        BY <4>1, <4>2
    <3>3. CASE \E i \in DOMAIN queue : queue[i] = e
      BY <2>1, <3>3
    <3> QED
      BY <3>2, <3>3 DEF ReportsConserved
  <2> QED
    BY <2>2, <2>3
<1>3. CASE Stop
  BY <1>3 DEF Stop, nodeVars, openVars, rowVars, OnlyRecorded, ReportsConserved
<1>4. CASE Aggregate
  <2> DEFINE e == Head(queue)
             m == e.msg
  <2>1. /\ e \in Entry /\ HandleOne(e)
        /\ \/ UNCHANGED <<openVars, rowVars>> /\ (Finished(m) \/ Counted(e))
           \/ ~ Finished(m) /\ ~ Counted(e)
    BY <1>4, AggregateCases
  <2>2. /\ e \in recorded
        /\ \A i \in DOMAIN Tail(queue) : i + 1 \in DOMAIN queue /\ Tail(queue)[i] = queue[i + 1]
        /\ e = queue[1]
        /\ \A i \in DOMAIN queue : i # 1 => i - 1 \in DOMAIN Tail(queue)
    BY <1>4, HeadFacts DEF Aggregate
  <2>3. queue' = Tail(queue) /\ pending' = pending /\ recorded' = recorded
    BY <1>4 DEF Aggregate, nodeVars
  <2>4. \A i \in DOMAIN queue : i \in Int
    BY DEF TypeOK
  <2>5. /\ \A s \in slots : s \in slots' \/ s.msg \in finalized'
        /\ e \in slots' \/ m \in finalized'
        /\ finalized \subseteq finalized' /\ slots' \subseteq slots \cup {e}
    <3>1. CASE UNCHANGED <<openVars, rowVars>> /\ (Finished(m) \/ Counted(e))
      BY <3>1 DEF openVars, rowVars, Finished, Counted
    <3>2. CASE ~ Finished(m) /\ ~ Counted(e)
      <4>1. /\ \A s : s \in slots' <=> (s \in slots \/ s = e) /\ s.msg \notin Closed(e)
            /\ finalized' = finalized \cup Closed(e)
        BY <2>1, <3>2, FreshFacts
      <4> QED
        BY <4>1
    <3> QED
      BY <2>1, <3>1, <3>2
  <2> HIDE DEF e
  <2>6. OnlyRecorded'
    BY <2>2, <2>3, <2>5 DEF OnlyRecorded
  <2>7. ReportsConserved'
    <3> SUFFICES ASSUME NEW x \in recorded
                 PROVE  \/ \E i \in DOMAIN pending[x.node] : pending[x.node][i] = x.msg
                        \/ \E i \in DOMAIN queue' : queue'[i] = x
                        \/ x \in slots'
                        \/ x.msg \in finalized'
      BY <2>3 DEF ReportsConserved
    <3>1. CASE x = e
      BY <2>5, <3>1
    <3>2. ASSUME NEW i \in DOMAIN queue, queue[i] = x, x # e
          PROVE  \E j \in DOMAIN queue' : queue'[j] = x
      <4>1. i # 1 /\ i - 1 \in DOMAIN Tail(queue)
        BY <2>2, <3>2
      <4>2. Tail(queue)[i - 1] = queue[(i - 1) + 1]
        BY <2>2, <4>1
      <4>3. (i - 1) + 1 = i
        BY <2>4
      <4> QED
        BY <2>3, <3>2, <4>1, <4>2, <4>3
    <3> QED
      BY <2>5, <3>1, <3>2 DEF ReportsConserved
  <2> QED
    BY <2>6, <2>7
<1>5. CASE FinalizeRemaining
  <2>1. /\ queue' = queue /\ pending' = pending /\ recorded' = recorded
        /\ slots' = {} /\ finalized' = finalized \cup Drained
    BY <1>5 DEF FinalizeRemaining, nodeVars
  <2>2. Drained = Open
    BY <1>5, DrainedFacts
  <2>3. \A s \in slots : s.msg \in finalized'
    BY <2>1, <2>2 DEF Open
  <2>4. OnlyRecorded'
    BY <2>1 DEF OnlyRecorded
  <2>5. ReportsConserved'
    BY <2>1, <2>3 DEF ReportsConserved
  <2> QED
    BY <2>4, <2>5
<1>6. CASE UNCHANGED vars
  BY <1>6 DEF vars, nodeVars, openVars, rowVars, OnlyRecorded, ReportsConserved
<1> QED
  BY <1>1, <1>2, <1>3, <1>4, <1>5, <1>6, NextCases

-----------------------------------------------------------------------------
(***************************************************************************)
(* The coverage of a row                                                   *)
(***************************************************************************)

\* The counter of an open message counts its slots.
LEMMA CoverageStep == IInv /\ [Next]_vars => CoverageExact'
<1> SUFFICES ASSUME IInv, [Next]_vars PROVE CoverageExact'
  OBVIOUS
<1> USE DEF IInv
<1>1. CASE UNCHANGED <<openVars, rowVars>>
  BY <1>1 DEF CoverageExact, SeenBy, openVars
<1>2. CASE Aggregate /\ ~ UNCHANGED <<openVars, rowVars>>
  <2> DEFINE e == Head(queue)
             m == e.msg
  <2>1. e \in Entry /\ HandleOne(e) /\ ~ Finished(m) /\ ~ Counted(e)
    BY <1>2, AggregateCases
  <2>2. e.node \in Node /\ m \in Msg /\ e = FirstSeen(e.node, m)
    BY <2>1 DEF Entry, FirstSeen
  <2>3. /\ \A s : s \in slots' <=> (s \in slots \/ s = e) /\ s.msg \notin Closed(e)
        /\ coverage' = [x \in Msg |-> IF x \in Closed(e) THEN 0
                                     ELSE IF x = m THEN coverage[x] + 1 ELSE coverage[x]]
    BY <2>1, FreshFacts
  <2>4. \A x, n : FirstSeen(n, x).msg = x /\ FirstSeen(n, x).node = n
    BY DEF FirstSeen
  <2>5. ASSUME NEW x \in Msg PROVE coverage'[x] = Cardinality(SeenBy(x)')
    <3>1. CASE x \in Closed(e)
      <4>1. SeenBy(x)' = {}
        BY <2>3, <2>4, <3>1 DEF SeenBy
      <4> QED
        BY <2>3, <3>1, <4>1, FS_EmptySet
    <3>2. CASE x \notin Closed(e) /\ x = m
      <4>1. SeenBy(x)' = SeenBy(x) \cup {e.node}
        BY <2>2, <2>3, <2>4, <3>2 DEF SeenBy
      <4>2. e.node \notin SeenBy(x)
        BY <2>1, <2>2, <3>2 DEF SeenBy, Counted
      <4>3. Cardinality(SeenBy(x) \cup {e.node}) = Cardinality(SeenBy(x)) + 1
        BY <4>2, SeenFacts, FS_AddElement
      <4> QED
        BY <2>3, <3>2, <4>1, <4>3 DEF CoverageExact
    <3>3. CASE x \notin Closed(e) /\ x # m
      <4>1. SeenBy(x)' = SeenBy(x)
        BY <2>3, <2>4, <3>3 DEF SeenBy
      <4> QED
        BY <2>3, <3>3, <4>1 DEF CoverageExact
    <3> QED
      BY <3>1, <3>2, <3>3
  <2> QED
    BY <2>5 DEF CoverageExact
<1>3. CASE FinalizeRemaining
  <2>1. coverage' = [x \in Msg |-> 0] /\ \A x : SeenBy(x)' = {}
    BY <1>3 DEF FinalizeRemaining, SeenBy
  <2> QED
    BY <2>1, FS_EmptySet DEF CoverageExact
<1> QED
  BY <1>1, <1>2, <1>3, NextCases, OthersKeepRows

\* Once the thread has returned nothing happens any more.
LEMMA DoneStays ==
  ASSUME IInv, done, [Next]_vars
  PROVE  UNCHANGED vars
<1>1. stopped /\ queue = << >>
  BY DEF IInv, CauseTells
<1> QED
  BY <1>1, NextCases DEF Record, FlushSummary, Stop, Aggregate, FinalizeRemaining

\* A row tells the truth about how its message ended.
LEMMA CauseStep == IInv /\ [Next]_vars => CauseTells'
<1> SUFFICES ASSUME IInv, [Next]_vars, ~ done PROVE CauseTells'
  BY DoneStays DEF IInv, CauseTells, vars, rowVars
<1> USE DEF IInv
<1>1. CASE UNCHANGED <<openVars, rowVars, done>>
  BY <1>1 DEF CauseTells, rowVars
<1>2. CASE Aggregate
  <2> DEFINE e == Head(queue)
  <2>1. done' = done
    BY <1>2 DEF Aggregate
  <2>2. CASE UNCHANGED <<openVars, rowVars>>
    BY <1>1, <2>1, <2>2
  <2>3. CASE ~ UNCHANGED <<openVars, rowVars>>
    <3>1. e \in Entry /\ HandleOne(e) /\ ~ Finished(e.msg) /\ ~ Counted(e)
      BY <1>2, <2>3, AggregateCases
    <3>2. rows' = rows \cup NewRows(e)
      BY <3>1, FreshFacts
    <3>3. \A r \in NewRows(e) :
            \/ r.cause = "superseded"
            \/ r.cause = "covered" /\ Covers(e) /\ r.coverage = coverage[e.msg] + 1
      BY <3>1, NewRowsFacts
    <3>4. \A r \in NewRows(e) :
            r.cause # "drained" /\ (r.cause = "covered" => r.coverage = Cardinality(Node))
      BY <3>3 DEF Covers
    <3> QED
      BY <2>1, <3>2, <3>4 DEF CauseTells
  <2> QED
    BY <2>2, <2>3
<1>3. CASE FinalizeRemaining
  <2>1. done' /\ stopped' /\ queue' = << >>
    BY <1>3 DEF FinalizeRemaining
  <2>2. \A r \in rows' : r \in rows \/ r.cause = "drained"
    BY <1>3, DrainedFacts
  <2> QED
    BY <2>1, <2>2 DEF CauseTells
<1> QED
  BY <1>1, <1>2, <1>3, NextCases, OthersKeepRows

\* What has been recorded stays recorded.
LEMMA RecordedGrows ==
  ASSUME [Next]_vars
  PROVE  recorded \subseteq recorded' /\ \A m : Cardinality(RecordedBy(m)) <= Cardinality(RecordedBy(m)')
<1>1. recorded \subseteq recorded'
  BY NextCases DEF Record, FlushSummary, Stop, Aggregate, FinalizeRemaining, vars, nodeVars
<1>2. ASSUME NEW m PROVE Cardinality(RecordedBy(m)) <= Cardinality(RecordedBy(m)')
  <2>1. RecordedBy(m) \in SUBSET (RecordedBy(m)') /\ RecordedBy(m)' \in SUBSET Node
    BY <1>1 DEF RecordedBy
  <2>2. IsFiniteSet(RecordedBy(m)')
    BY <2>1, FS_Subset, AggregatorAssumption
  <2> QED
    BY <2>1, <2>2, FS_Subset
<1> QED
  BY <1>1, <1>2

\* A row counts only nodes that recorded the message, and after the end all
\* that shipped their report.
LEMMA CompleteStep == IInv /\ [Next]_vars => CompleteUnlessSuperseded'
<1> SUFFICES ASSUME IInv, [Next]_vars, ~ done PROVE CompleteUnlessSuperseded'
  BY DoneStays DEF IInv, CompleteUnlessSuperseded, Reporters, vars, rowVars, nodeVars
<1> USE DEF IInv
<1>1. \A r \in rows : r.coverage <= Cardinality(RecordedBy(r.msg)) /\ r.coverage \in Nat
  BY DEF CompleteUnlessSuperseded, RecordedBy, TypeOK
<1>2. \A m : /\ Cardinality(RecordedBy(m)) \in Nat /\ Cardinality(RecordedBy(m)') \in Nat
             /\ Cardinality(RecordedBy(m)) <= Cardinality(RecordedBy(m)')
  <2>1. ASSUME NEW m PROVE Cardinality(RecordedBy(m)') \in Nat
    <3>1. RecordedBy(m)' \in SUBSET Node
      BY DEF RecordedBy
    <3> QED
      BY <3>1, FS_Subset, FS_CardinalityType, AggregatorAssumption
  <2> QED
    BY <2>1, SeenFacts, RecordedGrows
<1>3. \A m \in Msg : coverage[m] = Cardinality(SeenBy(m)) /\ coverage[m] <= Cardinality(RecordedBy(m))
  <2> SUFFICES ASSUME NEW m \in Msg PROVE coverage[m] <= Cardinality(RecordedBy(m))
    BY DEF CoverageExact
  <2>1. SeenBy(m) \in SUBSET RecordedBy(m)
    BY DEF SeenBy, RecordedBy, OnlyRecorded
  <2>2. Cardinality(SeenBy(m)) <= Cardinality(RecordedBy(m))
    BY <2>1, SeenFacts, FS_Subset
  <2> QED
    BY <2>2 DEF CoverageExact
<1>4. ASSUME \A r \in rows' : r.coverage <= Cardinality(RecordedBy(r.msg)'), ~ done'
      PROVE  CompleteUnlessSuperseded'
  BY <1>4 DEF CompleteUnlessSuperseded, RecordedBy
<1>5. CASE UNCHANGED <<openVars, rowVars, done>>
  BY <1>1, <1>2, <1>4, <1>5 DEF rowVars
<1>6. CASE Aggregate
  <2> DEFINE e == Head(queue)
             m == e.msg
  <2>1. done' = done /\ ~ done' /\ recorded' = recorded
    BY <1>6 DEF Aggregate, nodeVars
  <2>2. CASE UNCHANGED <<openVars, rowVars>>
    BY <1>5, <2>1, <2>2
  <2>3. CASE ~ UNCHANGED <<openVars, rowVars>>
    <3>1. e \in Entry /\ HandleOne(e) /\ ~ Finished(m) /\ ~ Counted(e)
      BY <1>6, <2>3, AggregateCases
    <3>2. rows' = rows \cup NewRows(e)
      BY <3>1, FreshFacts
    <3>3. \A r \in NewRows(e) :
            /\ r.msg \in Msg
            /\ \/ r.coverage = coverage[r.msg]
               \/ r.msg = m /\ Covers(e) /\ r.coverage = coverage[m] + 1
      BY <3>1, NewRowsFacts
    <3>4. m \in Msg /\ e.node \in Node /\ e = FirstSeen(e.node, m) /\ e \in recorded
      BY <1>6, HeadFacts DEF Aggregate
    <3>5. coverage[m] + 1 <= Cardinality(RecordedBy(m))
      <4>1. e.node \notin SeenBy(m)
        BY <3>1, <3>4 DEF SeenBy, Counted
      <4>2. SeenBy(m) \cup {e.node} \in SUBSET RecordedBy(m)
        BY <3>4 DEF SeenBy, RecordedBy, OnlyRecorded
      <4>3. Cardinality(SeenBy(m) \cup {e.node}) = Cardinality(SeenBy(m)) + 1
        BY <4>1, SeenFacts, FS_AddElement
      <4>4. Cardinality(SeenBy(m) \cup {e.node}) <= Cardinality(RecordedBy(m))
        BY <4>2, SeenFacts, FS_Subset
      <4> QED
        BY <1>3, <3>4, <4>3, <4>4
    <3>6. \A x : RecordedBy(x)' = RecordedBy(x)
      BY <2>1 DEF RecordedBy
    <3>7. \A r \in rows' : r.coverage <= Cardinality(RecordedBy(r.msg)')
      BY <1>1, <1>3, <3>2, <3>3, <3>5, <3>6
    <3> QED
      BY <1>4, <2>1, <3>7
  <2> QED
    BY <2>2, <2>3
<1>7. CASE FinalizeRemaining
  <2>1. /\ stopped /\ queue = << >> /\ recorded' = recorded /\ pending' = pending
    BY <1>7 DEF FinalizeRemaining, nodeVars
  <2>2. /\ Open \cap finalized = {} /\ Open \subseteq Msg
        /\ \A r \in rows' : r \in rows \/ /\ r.msg \in Open /\ r.cause = "drained"
                                           /\ r = Row(r.msg, coverage[r.msg], "drained")
    BY <1>7, DrainedFacts, OpenFacts DEF OneRowEach
  <2>3. \A x : RecordedBy(x)' = RecordedBy(x) /\ Reporters(x)' = Reporters(x)
    BY <2>1 DEF RecordedBy, Reporters
  <2>4. \A x : /\ Reporters(x) \in SUBSET Node /\ Cardinality(Reporters(x)) \in Nat
               /\ Cardinality(Reporters(x)) <= Cardinality(Node)
    BY FS_Subset, FS_CardinalityType, AggregatorAssumption DEF Reporters
  <2>5. ASSUME NEW r \in rows'
        PROVE  /\ r.coverage <= Cardinality(RecordedBy(r.msg))
               /\ r.cause # "superseded" => r.coverage >= Cardinality(Reporters(r.msg))
    <3>1. CASE r \in rows
      <4>1. r.cause \in {"covered", "superseded", "drained"} /\ r.cause # "drained"
        BY <3>1 DEF TypeOK, CauseTells
      <4>2. r.cause = "covered" => r.coverage = Cardinality(Node)
        BY <3>1 DEF CauseTells
      <4>3. r.cause # "superseded" => r.coverage >= Cardinality(Reporters(r.msg))
        BY <1>1, <2>4, <3>1, <4>1, <4>2
      <4> QED
        BY <1>1, <3>1, <4>3
    <3>2. CASE r \notin rows
      <4> DEFINE x == r.msg
      <4>1. x \in Open /\ x \in Msg /\ x \notin finalized /\ r = Row(x, coverage[x], "drained")
        BY <2>2, <3>2
      <4>2. r.coverage = coverage[x]
        BY <4>1 DEF Row
      <4>3. Reporters(x) \in SUBSET SeenBy(x)
        <5> SUFFICES ASSUME NEW n \in Node, FirstSeen(n, x) \in recorded, pending[n] = << >>
                     PROVE  FirstSeen(n, x) \in slots
          BY DEF Reporters, SeenBy
        <5>1. FirstSeen(n, x).node = n /\ FirstSeen(n, x).msg = x
          BY DEF FirstSeen
        <5> QED
          BY <2>1, <4>1, <5>1 DEF ReportsConserved
      <4>4. Cardinality(Reporters(x)) <= Cardinality(SeenBy(x))
        BY <4>3, SeenFacts, FS_Subset
      <4> QED
        BY <1>3, <4>1, <4>2, <4>4, SeenFacts, <2>4
    <3> QED
      BY <3>1, <3>2
  <2>6. \A r \in rows' : /\ r.coverage <= Cardinality(RecordedBy(r.msg)')
                         /\ r.cause # "superseded" => r.coverage >= Cardinality(Reporters(r.msg)')
    BY <2>3, <2>5
  <2> QED
    BY <2>6, Zenon DEF CompleteUnlessSuperseded, RecordedBy
<1> QED
  BY <1>5, <1>6, <1>7, NextCases, OthersKeepRows

-----------------------------------------------------------------------------
(***************************************************************************)
(* The theorems                                                            *)
(***************************************************************************)

\* Every step preserves the inductive invariant.
LEMMA InvStep == IInv /\ [Next]_vars => IInv'
  BY TypeStep, RowsStep, IndexStep, ReportsStep, CoverageStep, CauseStep, CompleteStep DEF IInv

\* The inductive invariant holds in every run of the pipeline.
THEOREM Invariance == Spec => []IInv
  BY InvInit, InvStep, PTL DEF Spec

\* The variables of the pipeline keep their types.
THEOREM TypeCorrect == Spec => []TypeOK
<1>1. IInv => TypeOK
  BY DEF IInv
<1> QED
  BY <1>1, Invariance, PTL

\* The aggregator thread writes one row per message and counts it once.
THEOREM RowsAreUnique == Spec => []OneRowEach
<1>1. IInv => OneRowEach
  BY DEF IInv
<1> QED
  BY <1>1, Invariance, PTL

\* inflight_by_channel holds the open channel updates, no more and no less.
THEOREM IndexIsExact == Spec => []IndexExact
<1>1. IInv => IndexExact
  BY DEF IInv
<1> QED
  BY <1>1, Invariance, PTL

\* handle_one_first_seen finishes a channel update early only for a newer one.
THEOREM OnlyOlderSuperseded == Spec => []SupersededIsOlder
<1>1. IInv => SupersededIsOlder
  BY DEF IInv
<1> QED
  BY <1>1, Invariance, PTL

\* No first-seen report is lost between a node's buffer and its row.
THEOREM ReportsAreKept == Spec => []ReportsConserved
<1>1. IInv => ReportsConserved
  BY DEF IInv
<1> QED
  BY <1>1, Invariance, PTL

\* The coverage of a row is that of its message, but for a superseded one.
THEOREM RowsAreComplete == Spec => []CompleteUnlessSuperseded
<1>1. IInv => CompleteUnlessSuperseded
  BY DEF IInv
<1> QED
  BY <1>1, Invariance, PTL

=============================================================================
