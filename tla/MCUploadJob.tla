---------------------------- MODULE MCUploadJob ----------------------------
(* Instances of UploadJob for TLC. *)
EXTENDS UploadJob, TLC

CONSTANTS A, B      \* commits

\* Two commits of one branch, the first of which has the latest tag as well.
BuildsTagged ==
    {[revision |-> "main", commit |-> A], [revision |-> "latest", commit |-> A],
     [revision |-> "main", commit |-> B]}

\* Two commits of one branch.
BuildsMain == {[revision |-> "main", commit |-> A], [revision |-> "main", commit |-> B]}
=============================================================================
