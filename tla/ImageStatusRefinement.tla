----------------------- MODULE ImageStatusRefinement -----------------------
(* ImageStatus implements AtomicStatus: the stored list alone is compared. *)
EXTENDS MCImageStatus

Atomic == INSTANCE AtomicStatus

\* The status writes are serializable: minutes-long read-edit-write cycles of
\* detect, check and upload leave the list a sequence of atomic ones would
\* (detect.go:59-83, check.go:107-125, upload.go:196-222 and the conflict check).
Serializable == Atomic!Spec
=============================================================================
