----------------------------- MODULE StateLocks -----------------------------
(***************************************************************************)
(* The locks of one kind of the shared node states (state.rs): compute_diff*)
(* reads the maps of two states, originate_stamp and the absorb functions  *)
(* write the map of one.  The worker threads of the executor run any of    *)
(* them at the same time; the other two kinds have locks of their own.     *)
(*                                                                         *)
(* A lock is parking_lot's RwLock: a writer first takes the write bit,     *)
(* which keeps new readers out, and then waits for the readers inside.     *)
(* Nothing is assumed of which calls meet, so the model holds for more     *)
(* than the simulator's own use, where only the owner writes a map.        *)
(***************************************************************************)
EXTENDS Naturals

CONSTANTS N,       \* the number of states; their idx is 0 .. N - 1
          Reader,  \* threads that run compute_diff
          Writer,  \* threads that write a map
          Nobody   \* no thread has the write bit

ASSUME LocksAssumption == N \in Nat /\ Nobody \notin Writer /\ Reader \cap Writer = {}

StateIdx == 0 .. N - 1

VARIABLES pc,       \* where a thread is in its call
          a, b,     \* the arguments of a reader's call
          target,   \* the state a writer writes
          readers,  \* of each lock, the threads that hold it shared
          bit,      \* of each lock, the thread that has the write bit
          map,      \* what a map holds; a write changes it
          result    \* what compute_diff has seen of a and of b

locksVars == <<pc, a, b, target, readers, bit, map, result>>

\* Mutated form: the locks are taken in the order of the arguments.
MutFirstByCall(r) == a[r]

First(r)   == IF a[r] <= b[r] THEN a[r] ELSE b[r]
Swapped(r) == First(r) # a[r]
Second(r)  == IF Swapped(r) THEN a[r] ELSE b[r]

\* Mutated form: readers pass a writer that waits.
MutMayRead(s) == TRUE

MayRead(s) == bit[s] = Nobody

----------------------------------------------------------------------------
(* compute_diff *)

Call(r) ==
    /\ pc[r] = "idle"
    /\ \E s, t \in StateIdx :
         s # t /\ a' = [a EXCEPT ![r] = s] /\ b' = [b EXCEPT ![r] = t]
    /\ pc' = [pc EXCEPT ![r] = "first"]
    /\ UNCHANGED <<target, readers, bit, map, result>>

ReadFirst(r) ==
    /\ pc[r] = "first" /\ MayRead(First(r))
    /\ readers' = [readers EXCEPT ![First(r)] = @ \cup {r}]
    /\ pc' = [pc EXCEPT ![r] = "second"]
    /\ UNCHANGED <<a, b, target, bit, map, result>>

ReadSecond(r) ==
    /\ pc[r] = "second" /\ MayRead(Second(r))
    /\ readers' = [readers EXCEPT ![Second(r)] = @ \cup {r}]
    /\ pc' = [pc EXCEPT ![r] = "diff"]
    /\ UNCHANGED <<a, b, target, bit, map, result>>

\* Mutated form: the result is not turned back after a swap.
MutSideAFirst(r) == TRUE

\* la of the helpers is the map locked first.
SideAFirst(r) == ~Swapped(r)

(* The helpers go through the first map and then through the second. *)
DiffFirst(r) ==
    /\ pc[r] = "diff"
    /\ result' = [result EXCEPT ![r][IF SideAFirst(r) THEN "a" ELSE "b"] = map[First(r)]]
    /\ pc' = [pc EXCEPT ![r] = "rest"]
    /\ UNCHANGED <<a, b, target, readers, bit, map>>

DiffSecond(r) ==
    /\ pc[r] = "rest"
    /\ result' = [result EXCEPT ![r][IF SideAFirst(r) THEN "b" ELSE "a"] = map[Second(r)]]
    /\ pc' = [pc EXCEPT ![r] = "done"]
    /\ UNCHANGED <<a, b, target, readers, bit, map>>

NoResult == [a |-> 0, b |-> 0]

(* Both guards are dropped at the end, and the locals of the call with them. *)
Return(r) ==
    /\ pc[r] = "done"
    /\ readers' = [s \in StateIdx |-> readers[s] \ {r}]
    /\ pc' = [pc EXCEPT ![r] = "idle"]
    /\ a' = [a EXCEPT ![r] = 0] /\ b' = [b EXCEPT ![r] = 0]
    /\ result' = [result EXCEPT ![r] = NoResult]
    /\ UNCHANGED <<target, bit, map>>

----------------------------------------------------------------------------
(* originate_stamp, absorb_chan_updates and their like *)

Write(w) ==
    /\ pc[w] = "idle"
    /\ \E s \in StateIdx : target' = [target EXCEPT ![w] = s]
    /\ pc' = [pc EXCEPT ![w] = "bit"]
    /\ UNCHANGED <<a, b, readers, bit, map, result>>

TakeBit(w) ==
    /\ pc[w] = "bit" /\ bit[target[w]] = Nobody
    /\ bit' = [bit EXCEPT ![target[w]] = w]
    /\ pc' = [pc EXCEPT ![w] = "drain"]
    /\ UNCHANGED <<a, b, target, readers, map, result>>

NoReaders(s) == readers[s] = {}

Insert(w) ==
    /\ pc[w] = "drain" /\ NoReaders(target[w])
    /\ map' = [map EXCEPT ![target[w]] = 1 - @]
    /\ pc' = [pc EXCEPT ![w] = "release"]
    /\ UNCHANGED <<a, b, target, readers, bit, result>>

Release(w) ==
    /\ pc[w] = "release"
    /\ bit' = [bit EXCEPT ![target[w]] = Nobody]
    /\ pc' = [pc EXCEPT ![w] = "idle"]
    /\ target' = [target EXCEPT ![w] = 0]
    /\ UNCHANGED <<a, b, readers, map, result>>

----------------------------------------------------------------------------
LocksInit ==
    /\ pc = [t \in Reader \cup Writer |-> "idle"]
    /\ a = [r \in Reader |-> 0] /\ b = [r \in Reader |-> 0]
    /\ target = [w \in Writer |-> 0]
    /\ readers = [s \in StateIdx |-> {}]
    /\ bit = [s \in StateIdx |-> Nobody]
    /\ map = [s \in StateIdx |-> 0]
    /\ result = [r \in Reader |-> NoResult]

GoRead(r) == ReadFirst(r) \/ ReadSecond(r) \/ DiffFirst(r) \/ DiffSecond(r) \/ Return(r)
GoWrite(w) == TakeBit(w) \/ Insert(w) \/ Release(w)

LocksNext ==
    \/ \E r \in Reader : Call(r) \/ GoRead(r)
    \/ \E w \in Writer : Write(w) \/ GoWrite(w)

LocksSpec == LocksInit /\ [][LocksNext]_locksVars

(***************************************************************************)
(* Threads run, and the lock is eventually fair: who waits for it while it *)
(* becomes free again and again gets it in the end.  Nobody has to call.   *)
(***************************************************************************)
LocksFairness ==
    /\ \A r \in Reader :
         SF_locksVars(ReadFirst(r)) /\ SF_locksVars(ReadSecond(r)) /\ WF_locksVars(GoRead(r))
    /\ \A w \in Writer : SF_locksVars(TakeBit(w)) /\ WF_locksVars(GoWrite(w))

LocksFairSpec == LocksSpec /\ LocksFairness

----------------------------------------------------------------------------
LocksTypeOK ==
    /\ pc \in [Reader \cup Writer ->
                 {"idle", "first", "second", "diff", "rest", "done", "bit", "drain", "release"}]
    /\ a \in [Reader -> Nat] /\ b \in [Reader -> Nat] /\ target \in [Writer -> Nat]
    /\ readers \in [StateIdx -> SUBSET Reader]
    /\ bit \in [StateIdx -> Writer \cup {Nobody}]
    /\ map \in [StateIdx -> {0, 1}]
    /\ result \in [Reader -> [a : {0, 1}, b : {0, 1}]]

(***************************************************************************)
(* What compute_diff returns is the difference of two maps as they were at *)
(* one and the same time, seen from the caller's side.                     *)
(***************************************************************************)
OneSnapshot ==
    \A r \in Reader : pc[r] = "done" => result[r] = [a |-> map[a[r]], b |-> map[b[r]]]

(* The next step of a thread inside a call is not held up by a lock. *)
CanGo(t) ==
    \/ t \in Reader /\ pc[t] = "first" /\ MayRead(First(t))
    \/ t \in Reader /\ pc[t] = "second" /\ MayRead(Second(t))
    \/ pc[t] \in {"diff", "rest", "done", "release"}
    \/ t \in Writer /\ pc[t] = "bit" /\ bit[target[t]] = Nobody
    \/ t \in Writer /\ pc[t] = "drain" /\ NoReaders(target[t])

(***************************************************************************)
(* The order of the locks excludes a circle: as long as any thread is      *)
(* inside a call, one of them can go on.                                   *)
(***************************************************************************)
NoCircle ==
    (\E t \in Reader \cup Writer : pc[t] # "idle") => \E t \in Reader \cup Writer : CanGo(t)

(***************************************************************************)
(* Every call of compute_diff returns, whatever the writers do, and so     *)
(* does every write, whatever the readers do.                              *)
(***************************************************************************)
CallsReturn ==
    /\ \A r \in Reader : pc[r] = "first" ~> pc[r] = "idle"
    /\ \A w \in Writer : pc[w] = "bit" ~> pc[w] = "idle"

=============================================================================
