---------------------------- MODULE AtomicStatus ----------------------------
(***************************************************************************)
(* What the condition list promises its readers: it is as if every detect  *)
(* tick, every check job and every upload job read, edited and wrote it in *)
(* one step, and failed ones had never run.  ImageStatus, where minutes    *)
(* pass between the read and the write, is shown to implement this.        *)
(***************************************************************************)
EXTENDS StatusLists

VARIABLE conds

Init == conds = <<>>

DetectTick(file) == conds' \in DetectResults(conds, file)

CheckJob(exist) == conds' \in CheckResults(conds, exist)

UploadJob(status) == conds' \in UploadResults(conds, status)

Next ==
    \/ \E file \in [Keys -> Commits \cup {None}] : DetectTick(file)
    \/ \E exist \in [Unchecked(conds) -> {"True", "False"}] : CheckJob(exist)
    \/ \E status \in [Pending(conds) -> {"True", "failed"}] : UploadJob(status)

Spec == Init /\ [][Next]_conds
=============================================================================
