---------------------------- MODULE GossipState ----------------------------
(***************************************************************************)
(* The dedup state every node keeps, and the two pure computations on it   *)
(* that all protocols share: absorbing versions and diffing two states.    *)
(*                                                                         *)
(* A key stands for one entry of one of the three maps of NodeState: a     *)
(* (scid, direction) of chan_updates, an origin of node_anns or a scid of  *)
(* chan_anns; KindOf tells which map.  A state maps each key to the        *)
(* timestamp stored for it, or to Absent.  Channel announcements carry no  *)
(* timestamp: their only version is 0, so "insert if absent" is the same   *)
(* comparison as for the other kinds.  Sizes are left out.                 *)
(***************************************************************************)
EXTENDS Integers, FiniteSets

CONSTANTS
  Node,      \* the nodes
  Key,       \* the entries of the three maps
  Kind,      \* the kinds of message the instance exercises
  KindOf,    \* the map a key belongs to
  Origins,   \* the nodes that may originate a key
  Idx        \* NodeState::idx, the dense index that orders the locks

AllKinds == {"ChanUpdates", "NodeAnns", "ChanAnns"}

(***************************************************************************)
(* A (scid, direction) has one owner and a node announcement is its own    *)
(* node's; a channel announcement is emitted by both endpoints.            *)
(***************************************************************************)
ASSUME KeyAssumption ==
  /\ IsFiniteSet(Key)
  /\ Kind \subseteq AllKinds
  /\ KindOf \in [Key -> Kind]
  /\ Origins \in [Key -> SUBSET Node]
  /\ \A k \in Key : Origins[k] # {}
  /\ \A k \in Key : KindOf[k] # "ChanAnns" => \A m, n \in Origins[k] : m = n
  /\ Idx \in [Node -> Nat]

-----------------------------------------------------------------------------

Absent == -1

Version == Nat \cup {Absent}

\* What a node stores, and what a batch carries: one version per key.
State == [Key -> Version]

Nothing == [k \in Key |-> Absent]

KeysOf(kind) == {k \in Key : KindOf[k] = kind}

\* The entries of state m at the keys of S.
Select(m, S) == [k \in Key |-> IF k \in S THEN m[k] ELSE Absent]

-----------------------------------------------------------------------------
(***************************************************************************)
(* Absorbing: an incoming version is stored iff it is strictly newer than  *)
(* the stored one, or nothing is stored.                                   *)
(***************************************************************************)
\* Mutated form: "last writer wins", the comparison is dropped.
MutSupersedesAny(ts, stored) == ts # Absent

\* Mutated form: the comparison is the wrong way round.
MutSupersedesOlder(ts, stored) == ts # Absent /\ (stored = Absent \/ ts < stored)

Supersedes(ts, stored) == ts > stored

Absorb(m, items) ==
  [k \in Key |-> IF Supersedes(items[k], m[k]) THEN items[k] ELSE m[k]]

-----------------------------------------------------------------------------
(***************************************************************************)
(* originate_stamp: a node that originates a key stamps it with the        *)
(* current second and overwrites its own entry without looking at it.  A   *)
(* channel announcement has the one version 0 and is dropped when known.   *)
(***************************************************************************)
MayStamp(m, k) == KindOf[k] = "ChanAnns" => m[k] = Absent

StampOf(k, now) == IF KindOf[k] = "ChanAnns" THEN 0 ELSE now

\* Mutated form: the stamp is not written to the originator's own state.
MutStampedNotStored(m, k, now) == m

\* Mutated form: the stamp is pushed past the version already stored.
MutStampedBumped(m, k, now) ==
  [m EXCEPT ![k] = IF StampOf(k, now) > @ THEN StampOf(k, now) ELSE @ + 1]

Stamped(m, k, now) == [m EXCEPT ![k] = StampOf(k, now)]

-----------------------------------------------------------------------------
(***************************************************************************)
(* The symmetric difference of two states over one kind.  Two versions of  *)
(* one key count once on each side; the newer-only halves are filled for   *)
(* the side the caller asked for.                                          *)
(***************************************************************************)
Side == {"A", "B", "Both"}

WantA(which) == which \in {"A", "Both"}
WantB(which) == which \in {"B", "Both"}

Invert(which) == CASE which = "A" -> "B" [] which = "B" -> "A" [] OTHER -> "Both"

Diff(la, lb, K, which) ==
  [ a_only       |-> {k \in K : la[k] # Absent /\ la[k] # lb[k]},
    b_only       |-> {k \in K : lb[k] # Absent /\ la[k] # lb[k]},
    intersection |-> {k \in K : la[k] # Absent /\ la[k] = lb[k]},
    a_newer      |-> IF WantA(which) THEN Select(la, {k \in K : la[k] > lb[k]}) ELSE Nothing,
    b_newer      |-> IF WantB(which) THEN Select(lb, {k \in K : lb[k] > la[k]}) ELSE Nothing ]

Reorient(d) ==
  [ a_only |-> d.b_only, b_only |-> d.a_only, intersection |-> d.intersection,
    a_newer |-> d.b_newer, b_newer |-> d.a_newer ]

\* Mutated form: the result is not turned back to the caller's view.
MutComputeDiffUnswapped(a, b, ia, ib, K, which) ==
  IF ia <= ib THEN Diff(a, b, K, which) ELSE Diff(b, a, K, Invert(which))

\* compute_diff reads the state with the smaller index first, so it may
\* have to swap the two sides on the way in and on the way out.
ComputeDiff(a, b, ia, ib, K, which) ==
  IF ia <= ib THEN Diff(a, b, K, which) ELSE Reorient(Diff(b, a, K, Invert(which)))

TotalDiff(d) == Cardinality(d.a_only) + Cardinality(d.b_only)

=============================================================================
