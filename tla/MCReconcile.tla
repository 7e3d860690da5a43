---------------------------- MODULE MCReconcile ----------------------------
(* Instances of Reconcile for TLC. *)
EXTENDS Reconcile, TLC

CONSTANTS A, B          \* commits

Symmetry == Permutations(Commits)
=============================================================================
