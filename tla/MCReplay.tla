------------------------------ MODULE MCReplay ------------------------------
(***************************************************************************)
(* An instance of ReplayWindows: one channel between two nodes, one        *)
(* stranger, a run of two windows and a second that belongs to none.       *)
(***************************************************************************)
EXTENDS ReplayWindows

MCOwner == [p \in Scid \X {0, 1} |-> p[2]]

=============================================================================
