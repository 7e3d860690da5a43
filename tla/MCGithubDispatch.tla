-------------------------- MODULE MCGithubDispatch --------------------------
(* Instances of GithubDispatch for TLC. *)
EXTENDS GithubDispatch, TLC

CONSTANTS A, B          \* commits

Symmetry == Permutations(Builds)
=============================================================================
