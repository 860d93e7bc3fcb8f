---------------------------- MODULE MCSystemTask ----------------------------
(***************************************************************************)
(* Instances of SystemTask.  A runner id is drawn at random when a node    *)
(* starts, so the runners are interchangeable.                             *)
(***************************************************************************)
EXTENDS SystemTask, TLC

Perms == Permutations(Runners)
=============================================================================
