------------------------------ MODULE Trickle ------------------------------
(***************************************************************************)
(* The sending side of one LND node in time (node/lnd.rs): every stagger   *)
(* the pending gossip is cut into chunks, the first leaves at once and     *)
(* chunk i one trickle after chunk i - 1.                                  *)
(*                                                                         *)
(* Gossip is only counted.  Times are in milliseconds and relative to the  *)
(* present: wait is the time to the next tick, and a scheduled chunk holds *)
(* the time to its send_batch.                                             *)
(***************************************************************************)
EXTENDS SubBatch

CONSTANTS
  Stagger, TrickleDelay,   \* stagger_ms and trickle_ms of the configuration
  FirstTick,               \* the sampled offset of the first tick
  MinBatchSize,            \* min_batch_size
  MaxPending               \* bound of the model: gossip pending at a time

ASSUME TrickleAssumption ==
  /\ Stagger \in Nat \ {0} /\ TrickleDelay \in Nat \ {0}
  /\ FirstTick \in 1 .. Stagger
  /\ MinBatchSize \in Nat \ {0}
  /\ MaxPending \in Nat
  /\ Divides(Stagger, TrickleDelay)

VARIABLES
  wait,       \* time to the next tick
  pending,    \* gossip queued for it
  scheduled,  \* chunks waiting for their send_batch
  drained,    \* gossip the last tick drained
  sent        \* gossip sent since

vars == <<wait, pending, scheduled, drained, sent>>

TypeOK ==
  /\ wait \in 0 .. Stagger
  /\ pending \in 0 .. MaxPending
  /\ scheduled \subseteq [no : Nat, due : Nat, size : Nat \ {0}]
  /\ drained \in 0 .. MaxPending
  /\ sent \in 0 .. drained

Init ==
  /\ wait = FirstTick
  /\ pending = 0
  /\ scheduled = {}
  /\ drained = 0
  /\ sent = 0

\* recv or originate: one more gossip for the next tick.
Queue ==
  /\ pending < MaxPending
  /\ pending' = pending + 1
  /\ UNCHANGED <<wait, scheduled, drained, sent>>

SizeFor(batch) == CalculateSubBatchSize(Stagger, TrickleDelay, MinBatchSize, batch)

\* Mutated form: the last, incomplete chunk is left out.
MutChunkOfWholeOnly(batch, i) ==
  IF (i + 1) * SizeFor(batch) <= batch THEN SizeFor(batch) ELSE 1

\* The size of chunk i of a batch, counted from 0: the last may be smaller.
ChunkOf(batch, i) ==
  IF (i + 1) * SizeFor(batch) <= batch THEN SizeFor(batch) ELSE batch - i * SizeFor(batch)

\* tick: nothing pending, nothing to do.
TickIdle ==
  /\ wait = 0 /\ pending = 0
  /\ wait' = Stagger
  /\ UNCHANGED <<pending, scheduled, drained, sent>>

\* tick: the first chunk is sent, the others are scheduled.
Tick ==
  /\ wait = 0 /\ pending > 0
  /\ wait' = Stagger
  /\ pending' = 0
  /\ drained' = pending
  /\ sent' = ChunkOf(pending, 0)
  /\ scheduled' = scheduled \cup
       {[no |-> i, due |-> i * TrickleDelay, size |-> ChunkOf(pending, i)] :
          i \in 1 .. Chunks(SizeFor(pending), pending) - 1}

SendBatch(c) ==
  /\ c.due = 0
  /\ scheduled' = scheduled \ {c}
  /\ sent' = sent + c.size
  /\ UNCHANGED <<wait, pending, drained>>

\* Time passes to the next event.
Pass ==
  \E d \in {wait} \cup {c.due : c \in scheduled} :
    /\ d > 0 /\ d <= wait
    /\ \A c \in scheduled : d <= c.due
    /\ wait' = wait - d
    /\ scheduled' = {[c EXCEPT !.due = @ - d] : c \in scheduled}
    /\ UNCHANGED <<pending, drained, sent>>

Next ==
  \/ Queue
  \/ TickIdle
  \/ Tick
  \/ \E c \in scheduled : SendBatch(c)
  \/ Pass

Spec == Init /\ [][Next]_vars

-----------------------------------------------------------------------------
(***************************************************************************)
(* Safety                                                                  *)
(***************************************************************************)

\* The chunks of one tick have all left before the next tick: what the
\* sizing is for.  It holds when both durations are whole seconds.
OutBeforeNextTick == \A c \in scheduled : c.due < wait

\* The same as the comment of calculate_sub_batch_size puts it, for every
\* configuration: "so the trickle-out for one tick never overflows the next
\* stagger window".
NeverOverflowsWindow == \A c \in scheduled : c.due <= wait

\* Cutting into chunks loses nothing and sends nothing twice.
AllOut == scheduled = {} => sent = drained

=============================================================================
