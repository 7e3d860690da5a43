--------------------------- MODULE MCImageStatus ---------------------------
(* Instances of ImageStatus for TLC. *)
EXTENDS ImageStatus, TLC

CONSTANTS A, B, C       \* commits

\* Every key may point at every commit: revisions share commits, heads go back.
HistoryShared == [k \in Keys |-> Commits]

\* "main" moves between A and B, every other key is at A only.
HistoryMainMoves == [k \in Keys |-> IF k = "main" THEN {A, B} ELSE {A}]

Symmetry ==
    Permutations(Commits) \cup Permutations(CheckPods) \cup Permutations(UploadPods)
=============================================================================
