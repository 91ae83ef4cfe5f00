---------------------------- MODULE ReplayWindows ----------------------------
(***************************************************************************)
(* The replay of a captured trace (events/parquet_replay.rs): rows become  *)
(* events (load_logical), every event is moved into a free window of an    *)
(* entity (reshape), and what is left is turned into originations          *)
(* (emit_tuples).                                                          *)
(*                                                                         *)
(* The random choices are open.  A row is what the models tell apart: its  *)
(* kind, the entity it names and its time.  Rows that name nothing, sizes  *)
(* and the report of the sources are left out.                             *)
(***************************************************************************)
EXTENDS Naturals, Sequences, FiniteSets

CONSTANTS Node,       \* snapshot_nodes
          Scid,       \* the channels of the registry
          Stranger,   \* identities the topology does not know
          Owner,      \* the node of each channel and direction
          WindowSecs, \* WINDOW_SECS
          MaxSecs,    \* run_duration
          Gap,        \* bound: the seconds between two events of the trace
          MaxRows,    \* bound on the rows read
          NoHome      \* HomeEntity::Unknown

ASSUME ReplayAssumption ==
    /\ WindowSecs \in Nat \ {0} /\ MaxSecs \in Nat \ {0}
    /\ Gap \subseteq Nat /\ MaxRows \in Nat
    /\ IsFiniteSet(Node) /\ IsFiniteSet(Scid) /\ NoHome \notin Node \cup Scid
    /\ Owner \in [Scid \X {0, 1} -> Node]
    /\ \A s \in Scid : Owner[<<s, 0>>] # Owner[<<s, 1>>]

VARIABLES phase,      \* "load", "reshape", "emit", "done"
          rotor,      \* DirectionRotor.next
          loaded,     \* the events still to be placed
          overflow,   \* the home of the first of them has been found full
          used,       \* Capacity.used, by class and entity
          hasFree,    \* Capacity.has_free, by class
          hasFreePos, \* Capacity.has_free_pos, by class
          surviving,  \* the events that were placed
          dropped,    \* dropped_by_kind, summed up
          out,        \* the tuples handed to the driver
          emitted,    \* how many of the placed events they stand for
          read        \* history: how many events were loaded

vars == <<phase, rotor, loaded, overflow, used, hasFree, hasFreePos, surviving,
          dropped, out, emitted, read>>

Class == {"NodeAnn", "ChanAnn", "ChanUpd0", "ChanUpd1"}
Entity(c) == IF c = "NodeAnn" THEN Node ELSE Scid

(***************************************************************************)
(* The run is cut into whole windows, at least one; what is left of it at  *)
(* the end belongs to no window.                                           *)
(***************************************************************************)
NumWindows == IF MaxSecs \div WindowSecs = 0 THEN 1 ELSE MaxSecs \div WindowSecs
Window == 0 .. NumWindows - 1

Kind == {"NodeAnn", "ChanAnn", "ChanUpd"}
RowId(k) == Stranger \cup IF k = "NodeAnn" THEN Node ELSE Scid

ClassOf(k, d) == IF k # "ChanUpd" THEN k ELSE IF d = 0 THEN "ChanUpd0" ELSE "ChanUpd1"

Event == [class : Class, home : Node \cup Scid \cup {NoHome}, delay : Nat,
          asked : Nat, deferred : BOOLEAN, reassigned : BOOLEAN]

----------------------------------------------------------------------------
(* WindowBits and Capacity *)

IsFull(c, e) == used[c][e] = Window
RandomFree(c, e) == Window \ used[c][e]

(***************************************************************************)
(* A window counts from the time of the row; a row in the rest of the run  *)
(* that is no window counts for the last one.                              *)
(***************************************************************************)
Preferred(ev) ==
    LET w == ev.delay \div WindowSecs IN IF w < NumWindows THEN w ELSE NumWindows - 1

SwapRemove(s, p) == SubSeq([s EXCEPT ![p] = s[Len(s)]], 1, Len(s) - 1)

\* Mutated form: the entity moved into the gap keeps its old place.
MutEvictKeepsPlace(c, e) ==
    IF e \in DOMAIN hasFreePos[c]
    THEN /\ hasFree' = [hasFree EXCEPT ![c] = SwapRemove(@, hasFreePos[c][e])]
         /\ hasFreePos' = [hasFreePos EXCEPT ![c] = [x \in DOMAIN @ \ {e} |-> @[x]]]
    ELSE UNCHANGED <<hasFree, hasFreePos>>

\* Mutated form: a full entity stays listed.
MutEvictNot(c, e) == UNCHANGED <<hasFree, hasFreePos>>

Evict(c, e) ==
    IF e \in DOMAIN hasFreePos[c]
    THEN LET p == hasFreePos[c][e]
             s == hasFree[c]
         IN  /\ hasFree' = [hasFree EXCEPT ![c] = SwapRemove(s, p)]
             /\ hasFreePos' = [hasFreePos EXCEPT ![c] =
                    [x \in DOMAIN @ \ {e} |-> IF x = s[Len(s)] THEN p ELSE @[x]]]
    ELSE UNCHANGED <<hasFree, hasFreePos>>

\* Mutated form: a window that is taken is taken again.
MutChoicesPreferred(c, e, ev) == {Preferred(ev)}

(* the windows try_place may choose, given that the entity has one left *)
Choices(c, e, ev) ==
    IF Preferred(ev) \notin used[c][e] THEN {Preferred(ev)} ELSE RandomFree(c, e)

(* The first second of window w, and the end of the interval for the jitter *)
WindowStart(w) == w * WindowSecs
WindowEnd(w) ==
    IF WindowStart(w) + WindowSecs < MaxSecs THEN WindowStart(w) + WindowSecs ELSE MaxSecs

Jittered(w) ==
    IF WindowStart(w) < WindowEnd(w) THEN WindowStart(w) .. WindowEnd(w) - 1 ELSE {WindowStart(w)}

----------------------------------------------------------------------------
(* Loading *)

Flip(d) == 1 - d

(***************************************************************************)
(* One row that is an event, or that is behind the end of the run and ends *)
(* the loading.  Times count from the first row of all, which may be one   *)
(* that names nothing: the first event comes a gap after it.               *)
(***************************************************************************)
LoadRow ==
    /\ phase = "load" /\ Len(loaded) < MaxRows
    /\ \E k \in Kind, gap \in Gap : \E id \in RowId(k) :
         LET delay == IF loaded = <<>> THEN gap ELSE loaded[Len(loaded)].asked + gap
             d     == IF k = "ChanUpd" THEN rotor[id] ELSE 0
         IN  IF delay > MaxSecs
             THEN phase' = "reshape" /\ UNCHANGED <<loaded, rotor, read>>
             ELSE /\ loaded' = Append(loaded,
                       [class |-> ClassOf(k, d),
                        home |-> IF id \in Stranger THEN NoHome ELSE id,
                        delay |-> delay, asked |-> delay,
                        deferred |-> FALSE, reassigned |-> FALSE])
                  /\ rotor' = IF k = "ChanUpd" THEN [rotor EXCEPT ![id] = Flip(@)] ELSE rotor
                  /\ read' = read + 1
                  /\ UNCHANGED phase
    /\ UNCHANGED <<overflow, used, hasFree, hasFreePos, surviving, dropped, out, emitted>>

EndOfTrace ==
    /\ phase = "load"
    /\ phase' = "reshape"
    /\ UNCHANGED <<rotor, loaded, overflow, used, hasFree, hasFreePos, surviving, dropped, out,
                   emitted, read>>

----------------------------------------------------------------------------
(* Reshaping *)

Elements(s) == {s[i] : i \in 1 .. Len(s)}

\* Mutated form: only strangers are moved to another entity.
MutCandidatesHomeOnly(ev) ==
    IF ev.home = NoHome THEN Elements(hasFree[ev.class])
    ELSE IF overflow THEN {} ELSE {ev.home}

(***************************************************************************)
(* The entities that may be tried for an event: its home, and, if it has   *)
(* none or that is full, any that has room (random_entity).                *)
(***************************************************************************)
Candidates(ev) ==
    IF ev.home # NoHome /\ ~overflow THEN {ev.home} ELSE Elements(hasFree[ev.class])

\* Mutated form: an event that stays in its window keeps its time.
MutPlacedKeepsTime(ev, e, w, delay) ==
    LET moved == ev.home = NoHome \/ overflow
    IN  [ev EXCEPT !.home = e, !.delay = IF moved \/ w # Preferred(ev) THEN delay ELSE @,
                   !.reassigned = moved, !.deferred = ~moved /\ w # Preferred(ev)]

Placed(ev, e, w, delay) ==
    LET moved == ev.home = NoHome \/ overflow
    IN  [ev EXCEPT !.home = e, !.delay = delay, !.reassigned = moved,
                   !.deferred = ~moved /\ w # Preferred(ev)]

(* try_place finds a window *)
Place ==
    /\ phase = "reshape" /\ loaded # <<>>
    /\ LET ev == Head(loaded)
           c  == ev.class
       IN  \E e \in Candidates(ev) :
             /\ ~IsFull(c, e)
             /\ \E w \in Choices(c, e, ev) :
                  /\ used' = [used EXCEPT ![c][e] = @ \cup {w}]
                  /\ IF used[c][e] \cup {w} = Window THEN Evict(c, e)
                     ELSE UNCHANGED <<hasFree, hasFreePos>>
                  /\ \E delay \in Jittered(w) :
                       surviving' = Append(surviving, Placed(ev, e, w, delay))
    /\ loaded' = Tail(loaded)
    /\ overflow' = FALSE
    /\ UNCHANGED <<phase, rotor, dropped, out, emitted, read>>

(* try_place finds none: the loop goes on with a random entity *)
FindFull ==
    /\ phase = "reshape" /\ loaded # <<>>
    /\ \E e \in Candidates(Head(loaded)) : IsFull(Head(loaded).class, e)
    /\ overflow' = TRUE
    /\ UNCHANGED <<phase, rotor, loaded, used, hasFree, hasFreePos, surviving, dropped, out,
                   emitted, read>>

(* no entity is left to try *)
Drop ==
    /\ phase = "reshape" /\ loaded # <<>>
    /\ Candidates(Head(loaded)) = {}
    /\ dropped' = dropped + 1
    /\ loaded' = Tail(loaded)
    /\ overflow' = FALSE
    /\ UNCHANGED <<phase, rotor, used, hasFree, hasFreePos, surviving, out, emitted, read>>

EndOfReshape ==
    /\ phase = "reshape" /\ loaded = <<>>
    /\ phase' = "emit"
    /\ UNCHANGED <<rotor, loaded, overflow, used, hasFree, hasFreePos, surviving, dropped, out,
                   emitted, read>>

----------------------------------------------------------------------------
(* Emitting *)

Tuple(ev, origin) ==
    [delay |-> ev.delay, origin |-> origin, class |-> ev.class, home |-> ev.home]

\* Mutated form: an update leaves from the end of the other direction.
MutTuplesOtherEnd(ev) ==
    CASE ev.class = "NodeAnn" -> <<Tuple(ev, ev.home)>>
      [] ev.class = "ChanAnn" ->
             <<Tuple(ev, Owner[<<ev.home, 0>>]), Tuple(ev, Owner[<<ev.home, 1>>])>>
      [] OTHER -> <<Tuple(ev, Owner[<<ev.home, IF ev.class = "ChanUpd0" THEN 1 ELSE 0>>])>>

(* A channel announcement leaves from both of its ends; an event whose home *)
(* is of the wrong kind leaves nowhere.                                     *)
Tuples(ev) ==
    CASE ev.class = "NodeAnn" ->
             IF ev.home \in Node THEN <<Tuple(ev, ev.home)>> ELSE <<>>
      [] ev.class = "ChanAnn" ->
             IF ev.home \in Scid
             THEN <<Tuple(ev, Owner[<<ev.home, 0>>]), Tuple(ev, Owner[<<ev.home, 1>>])>>
             ELSE <<>>
      [] OTHER ->
             IF ev.home \in Scid
             THEN <<Tuple(ev, Owner[<<ev.home, IF ev.class = "ChanUpd0" THEN 0 ELSE 1>>])>>
             ELSE <<>>

EmitTuples ==
    /\ phase = "emit" /\ emitted < Len(surviving)
    /\ out' = out \o Tuples(surviving[emitted + 1])
    /\ emitted' = emitted + 1
    /\ UNCHANGED <<phase, rotor, loaded, overflow, used, hasFree, hasFreePos, surviving,
                   dropped, read>>

EndOfEmit ==
    /\ phase = "emit" /\ emitted = Len(surviving)
    /\ phase' = "done"
    /\ UNCHANGED <<rotor, loaded, overflow, used, hasFree, hasFreePos, surviving, dropped,
                   out, emitted, read>>

Done == phase = "done" /\ UNCHANGED vars

----------------------------------------------------------------------------
(* Capacity.new lists the entities of a class in a fixed order; which order *)
(* is open here.                                                            *)
Listing(S) ==
    {s \in [1 .. Cardinality(S) -> S] :
        /\ Elements(s) = S
        /\ \A i, j \in DOMAIN s : s[i] = s[j] => i = j}

PositionIn(s) == [e \in Elements(s) |-> CHOOSE i \in 1 .. Len(s) : s[i] = e]

Init ==
    /\ phase = "load"
    /\ rotor = [id \in Scid \cup Stranger |-> 0]
    /\ loaded = <<>> /\ overflow = FALSE
    /\ used = [c \in Class |-> [e \in Entity(c) |-> {}]]
    /\ \E nodes \in Listing(Node), scids \in Listing(Scid) :
         hasFree = [c \in Class |-> IF c = "NodeAnn" THEN nodes ELSE scids]
    /\ hasFreePos = [c \in Class |-> PositionIn(hasFree[c])]
    /\ surviving = <<>> /\ dropped = 0 /\ out = <<>> /\ emitted = 0 /\ read = 0

Progress ==
    \/ EndOfTrace \/ Place \/ FindFull \/ Drop \/ EndOfReshape \/ EmitTuples \/ EndOfEmit

Next == LoadRow \/ Progress \/ Done

Spec == Init /\ [][Next]_vars

(* load, reshape and emit are loops of one thread. *)
FairSpec == Spec /\ WF_vars(Progress)

----------------------------------------------------------------------------
TypeOK ==
    /\ phase \in {"load", "reshape", "emit", "done"}
    /\ rotor \in [Scid \cup Stranger -> {0, 1}]
    /\ loaded \in Seq(Event) /\ surviving \in Seq(Event)
    /\ \A i \in DOMAIN surviving : surviving[i].home \in Entity(surviving[i].class)
    /\ overflow \in BOOLEAN
    /\ \A c \in Class : used[c] \in [Entity(c) -> SUBSET Window]
    /\ \A c \in Class : Elements(hasFree[c]) \subseteq Entity(c)
    /\ dropped \in Nat /\ emitted \in 0 .. Len(surviving) /\ read \in Nat

(***************************************************************************)
(* The rate limit: of one class, no entity has two events in the same      *)
(* window of time, whatever was deferred, moved or jittered.               *)
(***************************************************************************)
RateLimit ==
    \A i, j \in DOMAIN surviving :
        /\ surviving[i].class = surviving[j].class
        /\ surviving[i].home = surviving[j].home
        /\ surviving[i].delay \div WindowSecs = surviving[j].delay \div WindowSecs
        => i = j

(***************************************************************************)
(* has_free lists exactly the entities with a free window, and             *)
(* has_free_pos knows the place of each.  random_entity and the loop in    *)
(* reshape rely on the first, evict on both.                               *)
(***************************************************************************)
HasFreeExact ==
    \A c \in Class :
        /\ Elements(hasFree[c]) = {e \in Entity(c) : ~IsFull(c, e)}
        /\ DOMAIN hasFreePos[c] = Elements(hasFree[c])
        /\ \A i \in 1 .. Len(hasFree[c]) : hasFreePos[c][hasFree[c][i]] = i

(***************************************************************************)
(* No event is emitted at or behind the deadline, where the executor would *)
(* drop it without a word.                                                 *)
(***************************************************************************)
WithinRun == \A i \in DOMAIN surviving : surviving[i].delay < MaxSecs

(* The nodes an event belongs to: the announced node, the end of the channel *)
(* that issues the updates of its direction, or both ends.                 *)
Side == [ChanAnn |-> {0, 1}, ChanUpd0 |-> {0}, ChanUpd1 |-> {1}]
Belongs(ev) ==
    IF ev.class = "NodeAnn" THEN {ev.home} ELSE {Owner[<<ev.home, d>>] : d \in Side[ev.class]}

(***************************************************************************)
(* Every event that was loaded is placed or counted as dropped, and what   *)
(* was placed leaves every node it belongs to, once.  Nothing else leaves. *)
(***************************************************************************)
LeavesAll(ev) == \A n \in Belongs(ev) : Tuple(ev, n) \in Elements(out)
IsOf(t, ev) == t.origin \in Belongs(ev) /\ t = Tuple(ev, t.origin)
NothingLost ==
    /\ read = Len(loaded) + Len(surviving) + dropped
    /\ phase = "done" =>
         /\ \A i \in DOMAIN surviving : LeavesAll(surviving[i])
         /\ \A p \in DOMAIN out : \E i \in DOMAIN surviving : IsOf(out[p], surviving[i])
         /\ \A p, q \in DOMAIN out : out[p] = out[q] => p = q

(***************************************************************************)
(* An event is dropped only if its whole class has no window left.         *)
(***************************************************************************)
NoNeedlessDrop ==
    [][dropped' # dropped =>
         \A e \in Entity(Head(loaded).class) : IsFull(Head(loaded).class, e)]_vars

(***************************************************************************)
(* The loop over random entities ends, and so does the whole preparation.  *)
(***************************************************************************)
Finishes == <>(phase = "done")

=============================================================================
