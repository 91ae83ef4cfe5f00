--------------------------- MODULE TrickleProofs ---------------------------
(***************************************************************************)
(* Theorems about the sub-batch sizing and about Trickle, for every        *)
(* stagger and trickle that are whole seconds, every minimum and every     *)
(* amount of pending gossip.                                               *)
(***************************************************************************)
EXTENDS Trickle, TLAPS

\* The quotient of a division by a positive number.
LEMMA DivFacts ==
  ASSUME NEW a \in Nat, NEW b \in Nat, b > 0
  PROVE  /\ a \div b \in Nat
         /\ b * (a \div b) <= a
         /\ a < b * (a \div b) + b
  BY Z3

\* Rounding up: the smallest number of parts of size b that hold a.
LEMMA CeilDivFacts ==
  ASSUME NEW a \in Nat, NEW b \in Nat, b > 0
  PROVE  /\ CeilDiv(a, b) \in Nat
         /\ CeilDiv(a, b) * b >= a
         /\ CeilDiv(a, b) * b < a + b
<1> DEFINE q == (a + b - 1) \div b
<1>1. a + b - 1 \in Nat
  OBVIOUS
<1>2. q \in Nat /\ b * q <= a + b - 1 /\ a + b - 1 < b * q + b
  BY <1>1, DivFacts
<1> HIDE DEF q
<1>3. b * q = q * b
  BY <1>2
<1>4. q * b >= a /\ q * b < a + b
  BY <1>2, <1>3
<1> QED
  BY <1>2, <1>4 DEF CeilDiv, q

\* A product with a positive factor keeps the order.
LEMMA ProductOrder ==
  ASSUME NEW a \in Int, NEW b \in Int, NEW c \in Nat, c > 0, a * c >= b * c
  PROVE  a >= b
  BY Z3

\* Both durations of the configuration are whole seconds.
WholeSeconds == Stagger % 1000 = 0 /\ TrickleDelay % 1000 = 0

\* The sizing does what it is for: the last chunk of a batch leaves before
\* the window is over.
THEOREM LastChunkInWindow ==
  ASSUME WholeSeconds, NEW batch \in Nat, batch > 0
  PROVE  /\ SizeFor(batch) \in Nat
         /\ SizeFor(batch) > 0
         /\ Chunks(SizeFor(batch), batch) \in Nat
         /\ (Chunks(SizeFor(batch), batch) - 1) * TrickleDelay < Stagger
<1> DEFINE S == Seconds(Stagger)
           T == Seconds(TrickleDelay)
           size == SizeFor(batch)
           n == Chunks(size, batch)
<1>0. Stagger \in Nat /\ Stagger > 0 /\ TrickleDelay \in Nat /\ TrickleDelay > 0
      /\ MinBatchSize \in Nat /\ MinBatchSize > 0
  BY TrickleAssumption
<1>1. /\ S \in Nat /\ T \in Nat
      /\ Stagger = 1000 * S /\ TrickleDelay = 1000 * T
      /\ S > 0 /\ T > 0
  BY <1>0 DEF WholeSeconds, Seconds
<1>2. CASE TrickleDelay >= Stagger
  <2>1. size = batch
    BY <1>2 DEF SizeFor, CalculateSubBatchSize
  <2>2. n \in Nat /\ n * batch < batch + batch
    BY <2>1, CeilDivFacts DEF Chunks
  <2> HIDE DEF n, size
  <2>3. ~ (n >= 2)
    <3>1. ASSUME n >= 2 PROVE n * batch >= 2 * batch
      BY <2>2, <3>1, Z3
    <3> QED
      BY <2>2, <3>1
  <2>4. (n - 1) * TrickleDelay < Stagger
    <3>1. CASE n = 0
      BY <1>0, <3>1
    <3>2. CASE n = 1
      BY <1>0, <3>2
    <3> QED
      BY <2>2, <2>3, <3>1, <3>2
  <2> QED
    BY <2>1, <2>2, <2>4 DEF n, size
<1>3. CASE ~ (TrickleDelay >= Stagger)
  <2> DEFINE computed == CeilDiv(batch * T, S)
  <2>1. batch * T \in Nat
    BY <1>1
  <2>2. computed \in Nat /\ computed * S >= batch * T
    BY <1>1, <2>1, CeilDivFacts
  <2>3. size = IF computed > MinBatchSize THEN computed ELSE MinBatchSize
    BY <1>3 DEF SizeFor, CalculateSubBatchSize
  <2> HIDE DEF computed, size
  <2>4. size \in Nat /\ size > 0 /\ size >= computed
    BY <1>0, <2>2, <2>3
  <2>5. n \in Nat /\ n * size < batch + size
    BY <2>4, CeilDivFacts DEF Chunks
  <2> HIDE DEF n, S, T
  <2>6. size * S >= batch * T
    <3>1. size * S >= computed * S
      BY <1>1, <2>2, <2>4, Z3
    <3>2. size * S \in Nat /\ computed * S \in Nat
      BY <1>1, <2>2, <2>4
    <3> QED
      BY <2>1, <2>2, <3>1, <3>2
  <2>7. ~ ((n - 1) * T >= S)
    <3> SUFFICES ASSUME (n - 1) * T >= S PROVE FALSE
      OBVIOUS
    <3>1. ((n - 1) * T) * size >= S * size
      BY <1>1, <2>4, <2>5, Z3
    <3>2. ((n - 1) * T) * size = ((n - 1) * size) * T
      BY <1>1, <2>4, <2>5, Z3
    <3>3. S * size = size * S
      BY <1>1, <2>4
    <3>4. ((n - 1) * size) * T >= batch * T
      BY <1>1, <2>1, <2>4, <2>5, <2>6, <3>1, <3>2, <3>3
    <3>5. (n - 1) * size \in Int
      BY <2>4, <2>5
    <3>6. (n - 1) * size >= batch
      BY <1>1, <3>4, <3>5, ProductOrder
    <3>7. (n - 1) * size = n * size - size
      BY <2>4, <2>5, Z3
    <3>8. n * size \in Nat
      BY <2>4, <2>5
    <3> QED
      BY <2>4, <2>5, <3>6, <3>7, <3>8
  <2>8. (n - 1) * T \in Int /\ (n - 1) * T < S
    BY <1>1, <2>5, <2>7
  <2>9. (n - 1) * TrickleDelay = 1000 * ((n - 1) * T)
    BY <1>1, <2>5, Z3
  <2>10. (n - 1) * TrickleDelay < Stagger
    BY <1>1, <2>8, <2>9
  <2> QED
    BY <2>4, <2>5, <2>10 DEF n, size
<1> QED
  BY <1>2, <1>3

-----------------------------------------------------------------------------
(***************************************************************************)
(* The schedule                                                            *)
(***************************************************************************)

\* The inductive invariant: times are natural numbers, and every scheduled
\* chunk is due before the next tick.  At a tick nothing is left over, so
\* only the chunks of the new batch count, and they obey LastChunkInWindow.
IInv ==
  /\ wait \in Nat
  /\ pending \in Nat
  /\ scheduled \subseteq [no : Nat, due : Nat, size : Int]
  /\ OutBeforeNextTick

\* The chunks a tick schedules are due within the window.
LEMMA ScheduledInWindow ==
  ASSUME WholeSeconds, NEW batch \in Nat, batch > 0,
         NEW i \in 1 .. Chunks(SizeFor(batch), batch) - 1
  PROVE  /\ i \in Nat /\ i * TrickleDelay \in Nat
         /\ i * TrickleDelay < Stagger
         /\ ChunkOf(batch, i) \in Int
<1> DEFINE n == Chunks(SizeFor(batch), batch)
<1>1. /\ SizeFor(batch) \in Nat /\ n \in Nat
      /\ (n - 1) * TrickleDelay < Stagger
  BY LastChunkInWindow
<1>2. TrickleDelay \in Nat /\ Stagger \in Nat
  BY TrickleAssumption
<1> HIDE DEF n
<1>3. i \in Nat /\ i <= n - 1
  BY <1>1 DEF n
<1>4. i * TrickleDelay <= (n - 1) * TrickleDelay
  BY <1>1, <1>2, <1>3, Z3
<1>5. i * TrickleDelay \in Nat /\ (n - 1) * TrickleDelay \in Int
  BY <1>1, <1>2, <1>3
<1>6. i * SizeFor(batch) \in Int
  BY <1>1, <1>3
<1>7. ChunkOf(batch, i) \in Int
  BY <1>1, <1>6 DEF ChunkOf
<1> QED
  BY <1>1, <1>2, <1>3, <1>4, <1>5, <1>7

\* Every step keeps the chunks ahead of the next tick.
LEMMA InvStep == WholeSeconds /\ IInv /\ [Next]_vars => IInv'
<1> SUFFICES ASSUME WholeSeconds, IInv, [Next]_vars PROVE IInv'
  OBVIOUS
<1> USE DEF IInv, OutBeforeNextTick
<1>0. Stagger \in Nat /\ Stagger > 0
  BY TrickleAssumption
<1>1. CASE Queue
  BY <1>1 DEF Queue
<1>2. CASE TickIdle
  <2>1. scheduled = {}
    BY <1>2 DEF TickIdle
  <2> QED
    BY <1>0, <1>2, <2>1 DEF TickIdle
<1>3. CASE Tick
  <2>1. scheduled = {} /\ pending \in Nat /\ pending > 0
    BY <1>3 DEF Tick
  <2>2. scheduled' = {[no |-> i, due |-> i * TrickleDelay, size |-> ChunkOf(pending, i)] :
                        i \in 1 .. Chunks(SizeFor(pending), pending) - 1}
    BY <1>3, <2>1 DEF Tick
  <2>3. ASSUME NEW c \in scheduled'
        PROVE  c \in [no : Nat, due : Nat, size : Int] /\ c.due < Stagger
    <3>1. PICK i \in 1 .. Chunks(SizeFor(pending), pending) - 1 :
            c = [no |-> i, due |-> i * TrickleDelay, size |-> ChunkOf(pending, i)]
      BY <2>2
    <3>2. /\ i \in Nat /\ i * TrickleDelay \in Nat
          /\ i * TrickleDelay < Stagger
          /\ ChunkOf(pending, i) \in Int
      BY <2>1, ScheduledInWindow
    <3> QED
      BY <3>1, <3>2
  <2>4. wait' = Stagger /\ pending' = 0
    BY <1>3 DEF Tick
  <2> QED
    BY <1>0, <2>3, <2>4
<1>4. ASSUME NEW c \in scheduled, SendBatch(c) PROVE IInv'
  BY <1>4 DEF SendBatch
<1>5. CASE Pass
  <2>1. PICK d \in {wait} \cup {c.due : c \in scheduled} :
          /\ d > 0 /\ d <= wait
          /\ \A c \in scheduled : d <= c.due
          /\ wait' = wait - d
          /\ scheduled' = {[c EXCEPT !.due = @ - d] : c \in scheduled}
          /\ UNCHANGED <<pending, drained, sent>>
    BY <1>5 DEF Pass
  <2>2. d \in Nat
    BY <2>1
  <2>3. ASSUME NEW e \in scheduled'
        PROVE  e \in [no : Nat, due : Nat, size : Int] /\ e.due < wait'
    <3>1. PICK c \in scheduled : e = [c EXCEPT !.due = c.due - d]
      BY <2>1, <2>3
    <3>2. e.due = c.due - d /\ c.due < wait /\ c.due \in Nat /\ d <= c.due
      BY <2>1, <3>1
    <3>3. e = [no |-> c.no, due |-> c.due - d, size |-> c.size]
      BY <3>1
    <3> QED
      BY <2>1, <2>2, <3>2, <3>3
  <2> QED
    BY <2>1, <2>2, <2>3
<1>6. CASE UNCHANGED vars
  BY <1>6 DEF vars
<1> QED
  BY <1>1, <1>2, <1>3, <1>4, <1>5, <1>6 DEF Next

\* With durations in whole seconds the chunks of one tick have all left
\* before the next tick.
THEOREM AllOutBeforeNextTick ==
  ASSUME WholeSeconds PROVE Spec => []OutBeforeNextTick
<1>1. Init => IInv
  BY TrickleAssumption DEF Init, IInv, OutBeforeNextTick
<1>2. IInv /\ [Next]_vars => IInv'
  BY InvStep
<1>3. IInv => OutBeforeNextTick
  BY DEF IInv
<1> QED
  BY <1>1, <1>2, <1>3, PTL DEF Spec

-----------------------------------------------------------------------------
(***************************************************************************)
(* Nothing is lost                                                         *)
(***************************************************************************)

\* What the first j chunks of a batch amount to.
SentBy(batch, j) == IF j * SizeFor(batch) <= batch THEN j * SizeFor(batch) ELSE batch

\* Chunk i of the last tick, as it is scheduled now.
Waiting(i) == [no |-> i, due |-> i * TrickleDelay - (Stagger - wait), size |-> ChunkOf(drained, i)]

\* The chunks of the last tick leave in order: those up to some j have been
\* sent, the others are scheduled, one trickle apart.
InOrder ==
  \E j \in 1 .. Chunks(SizeFor(drained), drained) :
    /\ scheduled = {Waiting(i) : i \in j .. Chunks(SizeFor(drained), drained) - 1}
    /\ sent = SentBy(drained, j)

\* The inductive invariant: IInv, and what has been sent and what is
\* scheduled make up what the last tick drained.
Conserved ==
  /\ IInv
  /\ wait <= Stagger
  /\ drained \in Nat
  /\ \/ drained = 0 /\ scheduled = {} /\ sent = 0
     \/ drained > 0 /\ InOrder

\* The chunks make up the batch: all of them hold all of it, and each but
\* the last is full.
LEMMA ChunksFacts ==
  ASSUME WholeSeconds, NEW batch \in Nat, batch > 0
  PROVE  LET n == Chunks(SizeFor(batch), batch)
         IN  /\ SizeFor(batch) \in Nat /\ n \in Nat /\ n >= 1
             /\ SentBy(batch, 1) = ChunkOf(batch, 0)
             /\ SentBy(batch, n) = batch
             /\ \A j \in 1 .. n - 1 : SentBy(batch, j) + ChunkOf(batch, j) = SentBy(batch, j + 1)
<1> DEFINE size == SizeFor(batch)
           n == Chunks(size, batch)
<1>1. size \in Nat /\ size > 0
  BY LastChunkInWindow
<1>2. n \in Nat /\ n * size >= batch /\ n * size < batch + size
  BY <1>1, CeilDivFacts DEF Chunks
<1>3. SentBy(batch, 1) = ChunkOf(batch, 0) /\ SentBy(batch, n) = batch
  <2>1. 1 * size = size /\ (0 + 1) * size = size /\ 0 * size = 0
    BY <1>1
  <2> HIDE DEF size, n
  <2>2. SentBy(batch, 1) = ChunkOf(batch, 0)
    BY <1>1, <2>1 DEF SentBy, ChunkOf, size
  <2>3. n * size \in Nat
    BY <1>1, <1>2
  <2>4. SentBy(batch, n) = batch
    BY <1>2, <2>3 DEF SentBy, size
  <2> QED
    BY <2>2, <2>4
<1> HIDE DEF size, n
<1>4. n >= 1
  <2>1. n = 0 => n * size = 0
    BY <1>1
  <2> QED
    BY <1>2, <2>1
<1>5. ASSUME NEW j \in 1 .. n - 1
      PROVE  SentBy(batch, j) + ChunkOf(batch, j) = SentBy(batch, j + 1)
  <2>1. j \in Nat /\ j + 1 <= n /\ j + 1 \in Nat
    BY <1>2
  <2>2. (j + 1) * size <= n * size
    BY <1>1, <1>2, <2>1, Z3
  <2>3. (j + 1) * size = j * size + size /\ j * size \in Nat /\ n * size \in Nat
    BY <1>1, <1>2, <2>1, Z3
  <2>4. j * size < batch
    BY <1>1, <1>2, <2>2, <2>3
  <2>5. SentBy(batch, j) = j * size
    BY <2>3, <2>4 DEF SentBy, size
  <2>6. CASE (j + 1) * size <= batch
    BY <1>1, <2>3, <2>5, <2>6 DEF SentBy, ChunkOf, size
  <2>7. CASE ~ ((j + 1) * size <= batch)
    <3>1. SentBy(batch, j + 1) = batch /\ ChunkOf(batch, j) = batch - j * size
      BY <2>7 DEF SentBy, ChunkOf, size
    <3> QED
      BY <2>3, <2>5, <3>1
  <2> QED
    BY <2>6, <2>7
<1> QED
  BY <1>1, <1>2, <1>3, <1>4, <1>5 DEF size, n

\* With nothing scheduled, everything has been sent.
LEMMA EmptyIsAll == WholeSeconds /\ Conserved => AllOut
<1> SUFFICES ASSUME WholeSeconds, Conserved, drained > 0, scheduled = {} PROVE sent = drained
  BY DEF Conserved, AllOut
<1> DEFINE n == Chunks(SizeFor(drained), drained)
<1>1. drained \in Nat /\ InOrder
  BY DEF Conserved
<1>2. PICK j \in 1 .. n : scheduled = {Waiting(i) : i \in j .. n - 1} /\ sent = SentBy(drained, j)
  BY <1>1 DEF InOrder
<1>3. n \in Nat /\ SentBy(drained, n) = drained
  BY <1>1, ChunksFacts
<1> HIDE DEF n
<1>4. j \notin j .. n - 1
  BY <1>2
<1>5. j = n
  BY <1>3, <1>4
<1> QED
  BY <1>2, <1>3, <1>5

\* A chunk is sent when it is due, and the first of those scheduled is.
LEMMA SendInOrder ==
  ASSUME WholeSeconds, Conserved, NEW c \in scheduled, SendBatch(c)
  PROVE  drained > 0 /\ InOrder'
<1> DEFINE n == Chunks(SizeFor(drained), drained)
           T == TrickleDelay
<1>1. drained \in Nat /\ drained > 0 /\ InOrder /\ wait \in Nat /\ Stagger \in Nat
      /\ T \in Nat /\ T > 0 /\ n \in Nat
      /\ scheduled \subseteq [no : Nat, due : Nat, size : Int]
  BY TrickleAssumption, ChunksFacts DEF Conserved, IInv
<1>2. PICK j \in 1 .. n : scheduled = {Waiting(i) : i \in j .. n - 1} /\ sent = SentBy(drained, j)
  BY <1>1 DEF InOrder
<1>3. /\ scheduled' = scheduled \ {c} /\ sent' = sent + c.size /\ c.due = 0
      /\ drained' = drained /\ wait' = wait
  BY DEF SendBatch
<1>4. \A i : Waiting(i)' = Waiting(i)
  BY <1>3 DEF Waiting
<1>5. \A i : /\ Waiting(i).no = i /\ Waiting(i).size = ChunkOf(drained, i)
             /\ Waiting(i).due = i * T - (Stagger - wait)
  BY DEF Waiting
<1> HIDE DEF n, T
<1>6. PICK k \in j .. n - 1 : c = Waiting(k)
  BY <1>2
<1>7. k = j
  <2>1. Waiting(j) \in scheduled
    BY <1>1, <1>2, <1>6
  <2>2. Waiting(j).due \in Nat
    BY <1>1, <2>1
  <2>3. k * T - (Stagger - wait) = 0 /\ j * T - (Stagger - wait) \in Nat
    BY <1>3, <1>5, <1>6, <2>2
  <2>4. k \in Nat /\ j \in Nat /\ k * T \in Nat /\ j * T \in Nat
    BY <1>1, <1>2, <1>6
  <2>5. j * T >= k * T
    BY <1>1, <2>3, <2>4
  <2>6. j >= k
    BY <1>1, <2>4, <2>5, ProductOrder
  <2> QED
    BY <1>6, <2>4, <2>6
<1>8. j \in 1 .. n - 1 /\ j + 1 \in 1 .. n
  BY <1>1, <1>6, <1>7
<1>9. sent' = SentBy(drained, j + 1)
  BY <1>1, <1>2, <1>3, <1>5, <1>6, <1>7, <1>8, ChunksFacts DEF n
<1>10. scheduled' = {Waiting(i) : i \in j + 1 .. n - 1}
  <2>1. \A i \in j .. n - 1 : i = j \/ i \in j + 1 .. n - 1
    BY <1>1, <1>8
  <2>2. \A i \in j + 1 .. n - 1 : i \in j .. n - 1 /\ i # j
    BY <1>1, <1>8
  <2>3. \A i \in j + 1 .. n - 1 : Waiting(i) # c
    BY <1>5, <1>6, <1>7, <2>2
  <2> QED
    BY <1>2, <1>3, <1>6, <1>7, <2>1, <2>2, <2>3
<1>11. /\ scheduled' = {Waiting(i)' : i \in j + 1 .. n - 1} /\ sent' = SentBy(drained', j + 1)
       /\ n = Chunks(SizeFor(drained'), drained')
  BY <1>3, <1>4, <1>9, <1>10 DEF n
<1> QED
  BY <1>1, <1>8, <1>11 DEF InOrder

\* Every step keeps the books.
LEMMA ConservedStep == WholeSeconds /\ Conserved /\ [Next]_vars => Conserved'
<1> SUFFICES ASSUME WholeSeconds, Conserved, [Next]_vars PROVE Conserved'
  OBVIOUS
<1>0. /\ IInv /\ IInv' /\ drained \in Nat /\ wait \in Nat /\ wait <= Stagger /\ pending \in Nat
      /\ Stagger \in Nat /\ TrickleDelay \in Nat
      /\ drained = 0 => scheduled = {} /\ sent = 0
      /\ drained > 0 => InOrder
  BY InvStep, TrickleAssumption DEF Conserved, IInv
<1>1. CASE Queue \/ UNCHANGED vars
  <2>1. UNCHANGED <<wait, scheduled, drained, sent>>
    BY <1>1 DEF Queue, vars
  <2>2. InOrder => InOrder'
    BY <2>1 DEF InOrder, Waiting
  <2> QED
    BY <1>0, <2>1, <2>2 DEF Conserved
<1>2. CASE TickIdle
  <2>1. scheduled = {} /\ UNCHANGED <<scheduled, drained, sent>> /\ wait' = Stagger
    BY <1>0, <1>2 DEF TickIdle, IInv, OutBeforeNextTick
  <2>2. InOrder => InOrder'
    <3> DEFINE n == Chunks(SizeFor(drained), drained)
    <3> SUFFICES ASSUME NEW j \in 1 .. n, scheduled = {Waiting(i) : i \in j .. n - 1},
                        sent = SentBy(drained, j)
                 PROVE  InOrder'
      BY DEF InOrder
    <3> HIDE DEF n
    <3>1. j .. n - 1 = {}
      BY <2>1
    <3>2. scheduled' = {Waiting(i)' : i \in j .. n - 1}
      BY <2>1, <3>1
    <3>3. n = Chunks(SizeFor(drained'), drained') /\ sent' = SentBy(drained', j)
      BY <2>1 DEF n
    <3> QED
      BY <3>2, <3>3 DEF InOrder
  <2> QED
    BY <1>0, <2>1, <2>2 DEF Conserved
<1>3. CASE Tick
  <2> DEFINE n == Chunks(SizeFor(pending), pending)
  <2>1. scheduled = {} /\ pending > 0 /\ wait' = Stagger /\ drained' = pending
        /\ sent' = ChunkOf(pending, 0)
    BY <1>0, <1>3 DEF Tick, IInv, OutBeforeNextTick
  <2>2. scheduled' = {[no |-> i, due |-> i * TrickleDelay, size |-> ChunkOf(pending, i)] : i \in 1 .. n - 1}
    BY <1>3, <2>1 DEF Tick
  <2>3. n \in Nat /\ n >= 1 /\ sent' = SentBy(drained', 1)
    BY <1>0, <2>1, ChunksFacts
  <2>4. n = Chunks(SizeFor(drained'), drained')
    BY <2>1
  <2> HIDE DEF n
  <2>5. ASSUME NEW i \in 1 .. n - 1
        PROVE  Waiting(i)' = [no |-> i, due |-> i * TrickleDelay, size |-> ChunkOf(pending, i)]
    <3>1. i * TrickleDelay \in Nat
      BY <1>0
    <3>2. i * TrickleDelay - (Stagger - wait') = i * TrickleDelay
      BY <1>0, <2>1, <3>1
    <3> QED
      BY <2>1, <3>2 DEF Waiting
  <2>6. scheduled' = {Waiting(i)' : i \in 1 .. n - 1}
    BY <2>2, <2>5
  <2>7. InOrder'
    BY <2>3, <2>4, <2>6 DEF InOrder
  <2> QED
    BY <1>0, <2>1, <2>7 DEF Conserved
<1>4. ASSUME NEW c \in scheduled, SendBatch(c) PROVE Conserved'
  <2>1. drained > 0 /\ InOrder'
    BY <1>4, SendInOrder
  <2> QED
    BY <1>0, <1>4, <2>1 DEF Conserved, SendBatch
<1>5. CASE Pass
  <2>1. PICK d \in {wait} \cup {c.due : c \in scheduled} :
          /\ d > 0 /\ d <= wait
          /\ \A c \in scheduled : d <= c.due
          /\ wait' = wait - d
          /\ scheduled' = {[c EXCEPT !.due = @ - d] : c \in scheduled}
          /\ UNCHANGED <<pending, drained, sent>>
    BY <1>5 DEF Pass
  <2>2. d \in Nat
    BY <1>0, <2>1 DEF IInv
  <2>3. InOrder => InOrder'
    <3> DEFINE n == Chunks(SizeFor(drained), drained)
    <3> SUFFICES ASSUME drained > 0, NEW j \in 1 .. n, scheduled = {Waiting(i) : i \in j .. n - 1},
                        sent = SentBy(drained, j)
                 PROVE  InOrder'
      <4>1. CASE drained = 0
        <5>1. scheduled = {} /\ scheduled' = {}
          BY <1>0, <2>1, <4>1
        <5>2. ASSUME NEW j \in 1 .. n, scheduled = {Waiting(i) : i \in j .. n - 1} PROVE j .. n - 1 = {}
          BY <5>1, <5>2
        <5>3. ASSUME NEW j \in 1 .. n, scheduled = {Waiting(i) : i \in j .. n - 1}
              PROVE  scheduled' = {Waiting(i)' : i \in j .. n - 1}
          BY <5>1, <5>2, <5>3
        <5> QED
          BY <2>1, <5>3 DEF InOrder
      <4> QED
        BY <1>0, <4>1 DEF InOrder
    <3>1. n \in Nat
      BY <1>0, ChunksFacts
    <3>2. n = Chunks(SizeFor(drained'), drained') /\ sent' = SentBy(drained', j)
      BY <2>1
    <3> HIDE DEF n
    <3>3. ASSUME NEW i \in j .. n - 1
          PROVE  [Waiting(i) EXCEPT !.due = @ - d] = Waiting(i)'
      <4>1. i * TrickleDelay \in Int
        BY <1>0, <3>1
      <4>2. i * TrickleDelay - (Stagger - wait) - d = i * TrickleDelay - (Stagger - wait')
        BY <1>0, <2>1, <2>2, <4>1
      <4> QED
        BY <2>1, <4>2 DEF Waiting
    <3>4. scheduled' = {Waiting(i)' : i \in j .. n - 1}
      BY <2>1, <3>3
    <3> QED
      BY <3>2, <3>4 DEF InOrder
  <2> QED
    BY <1>0, <2>1, <2>2, <2>3 DEF Conserved
<1> QED
  BY <1>1, <1>2, <1>3, <1>4, <1>5 DEF Next

\* With durations in whole seconds, cutting into chunks loses nothing and
\* sends nothing twice.
THEOREM NothingLeftOver ==
  ASSUME WholeSeconds PROVE Spec => []AllOut
<1>1. Init => Conserved
  BY TrickleAssumption DEF Init, Conserved, IInv, OutBeforeNextTick
<1>2. Conserved /\ [Next]_vars => Conserved'
  BY ConservedStep
<1>3. Conserved => AllOut
  BY EmptyIsAll
<1> QED
  BY <1>1, <1>2, <1>3, PTL DEF Spec

=============================================================================
