--------------------------- MODULE GossipPromise ---------------------------
(***************************************************************************)
(* What every gossip protocol of the simulator promises about the dedup    *)
(* states, whatever messages it uses: only an originator makes new         *)
(* versions, stamped with the current second; a node only ever moves to    *)
(* newer versions of a key, and never beyond what some originator of the   *)
(* key has stored; and a step touches the state of one node.               *)
(***************************************************************************)
EXTENDS GossipState

CONSTANT MaxTime   \* bound of the model: the last second of the run

VARIABLES
  store,     \* store[n] is the dedup state of node n
  now        \* the simulated second

vars == <<store, now>>

Init ==
  /\ store = [n \in Node |-> Nothing]
  /\ now = 0

\* The moments of the run: every version is one of them.
Past == (0 .. now) \cup {Absent}

Publish(n, k) ==
  /\ n \in Origins[k]
  /\ StampOf(k, now) >= store[n][k]
  /\ store' = [store EXCEPT ![n] = Stamped(store[n], k, now)]
  /\ UNCHANGED now

\* Some originator of k has version v of it, or a newer one.
Issued(k, v) == \E o \in Origins[k] : v <= store[o][k]

Learn(n) ==
  /\ \E s \in [Key -> Past] :
       /\ \A k \in Key : s[k] # store[n][k] => s[k] > store[n][k] /\ Issued(k, s[k])
       /\ store' = [store EXCEPT ![n] = s]
  /\ UNCHANGED now

Elapse ==
  /\ now < MaxTime
  /\ now' = now + 1
  /\ UNCHANGED store

Next ==
  \/ \E n \in Node, k \in Key : Publish(n, k)
  \/ \E n \in Node : Learn(n)
  \/ Elapse

Spec == Init /\ [][Next]_vars

=============================================================================
