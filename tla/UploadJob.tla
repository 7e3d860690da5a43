----------------------------- MODULE UploadJob -----------------------------
(***************************************************************************)
(* Upload jobs from their creation to the status write                     *)
(* (actor/github/cmd/upload.go, actor/base/pkg/upload).  A pod reads which *)
(* builds are pending, has UploadOutput build all of them, and writes the  *)
(* results back with the 20-minute context that the builds have used.  A   *)
(* pod that cannot write exits with an error and is started again; what it *)
(* knew is lost.                                                           *)
(*                                                                         *)
(* One job is followed; detect, checks and other upload jobs write the     *)
(* status at any time.  A commit has one uploaded condition per revision   *)
(* that checked it, each of which asks for a build of the commit, and a    *)
(* result goes into all of them.                                           *)
(***************************************************************************)
EXTENDS Naturals

CONSTANTS
    Builds,         \* the uploaded conditions there may be: revision and commit
    Hanging,        \* the commits whose runs never get a conclusion waitForComplete knows
    MaxWrites       \* writes of others (bound)

Commits == {b.commit : b \in Builds}

ASSUME HangingAssumption == Hanging \subseteq Commits
ASSUME WritesAssumption == MaxWrites \in Nat

VARIABLES
    status,     \* the status of each uploaded condition, "none" if there is none
    job,        \* the upload job: "none" (or finished), "created", "retried"
    running,    \* does its pod run?
    copy,       \* the statuses the pod has read
    current,    \* does its copy carry the stored resourceVersion?
    writes,     \* the writes of others (bound)
    input, result, expired, killed      \* of UploadOutput, for the pod that runs

output == <<input, result, expired, killed>>
stored == <<status, writes>>
vars   == <<stored, job, running, copy, current, output>>

Output == INSTANCE UploadOutput

\* The canceled ones are forgotten.
PendingOrCanceled(statuses) == {b \in Builds : statuses[b] \in {"False", "failed", "canceled"}}

\* getInput: neither uploaded nor canceled.
Pending(statuses) == {b \in Builds : statuses[b] \in {"False", "failed"}}

\* UpdateImage stores a commit's result under all its conditions, also under those
\* that are uploaded or canceled.
Recorded(statuses, results) ==
    [b \in Builds |-> IF statuses[b] # "none" /\ b.commit \in DOMAIN results
                      THEN results[b.commit] ELSE statuses[b]]

Init ==
    /\ status = [b \in Builds |-> "none"]
    /\ job = "none" /\ running = FALSE
    /\ copy = status /\ current = FALSE
    /\ writes = 0
    /\ Output!Init /\ input = {}

-----------------------------------------------------------------------------
(* The cluster *)

\* Somebody else's write is accepted.
OtherWrites(statuses) ==
    /\ writes < MaxWrites
    /\ statuses # status
    /\ status' = statuses
    /\ writes' = writes + 1
    /\ current' = FALSE
    /\ UNCHANGED <<job, running, copy, output>>

\* A check answers for a revision, whose condition it adds or overwrites.
CheckWrites == \E b \in Builds, exist \in {"True", "False"} :
    OtherWrites([status EXCEPT ![b] = exist])

\* Detect cancels what a branch has left, whatever has become of it.
DetectWrites == \E b \in Builds :
    status[b] # "none" /\ OtherWrites([status EXCEPT ![b] = "canceled"])

\* Another upload job stores the results of what is pending.
UploadWrites ==
    \E results \in [{b.commit : b \in Pending(status)} -> {"True", "failed"}] :
        /\ \A c \in DOMAIN results \cap Hanging : results[c] = "failed"
        /\ OtherWrites(Recorded(status, results))

\* EnsureUpload applies a job for each condition that is False, none for a failed one.
JobCreated ==
    /\ job = "none"
    /\ \E b \in Builds : status[b] = "False"
    /\ job' = "created"
    /\ UNCHANGED <<stored, running, copy, current, output>>

\* Its pods have failed as often as the backoff limit allows.
JobGivesUp ==
    /\ job = "retried" /\ ~running
    /\ job' = "none"
    /\ UNCHANGED <<stored, running, copy, current, output>>

-----------------------------------------------------------------------------
(* The command "upload" *)

\* The filter of getInput forgets the canceled ones.
PodStartsCanceled ==
    /\ job # "none" /\ ~running
    /\ running' = TRUE
    /\ copy' = status
    /\ current' = TRUE
    /\ Output!Start(PendingOrCanceled(status))
    /\ UNCHANGED <<stored, job>>

\* The first pod of a job, or the next one (RestartPolicyOnFailure): GetInput.
PodStarts ==
    /\ job # "none" /\ ~running
    /\ running' = TRUE
    /\ copy' = status
    /\ current' = TRUE
    /\ Output!Start(Pending(status))
    /\ UNCHANGED <<stored, job>>

\* GitHub answers, or a build is given up after three attempts.
BuildEnds(b) ==
    /\ running
    /\ (b.commit \notin Hanging /\ Output!Succeeds(b)) \/ Output!Fails(b)
    /\ UNCHANGED <<stored, job, running, copy, current>>

\* Every call fails once the context has expired.
BuildExpires(b) ==
    /\ running
    /\ expired
    /\ Output!Fails(b)
    /\ UNCHANGED <<stored, job, running, copy, current>>

Expire ==
    /\ running
    /\ Output!Expire
    /\ UNCHANGED <<stored, job, running, copy, current>>

\* What UpdateImage leaves of a commit's results: the one that was received last.
LastResults ==
    {results \in [{b.commit : b \in input} -> {"True", "failed"}] :
        \A c \in DOMAIN results : \E b \in input : b.commit = c /\ result[b] = results[c]}

\* The copy is written whether it is outdated or not.
RecordLastWins ==
    /\ running /\ Output!Returned
    /\ running' = FALSE
    /\ current' = FALSE
    /\ IF ~expired
       THEN \E results \in LastResults : status' = Recorded(copy, results) /\ job' = "none"
       ELSE job' = "retried" /\ UNCHANGED status
    /\ UNCHANGED <<writes, copy, output>>

\* UpdateImage: the write needs the context to live and the copy to be current, and
\* completes the job; without it the pod exits with an error.
Record ==
    /\ running /\ Output!Returned
    /\ running' = FALSE
    /\ current' = FALSE
    /\ IF ~expired /\ current
       THEN \E results \in LastResults : status' = Recorded(copy, results) /\ job' = "none"
       ELSE job' = "retried" /\ UNCHANGED status
    /\ UNCHANGED <<writes, copy, output>>

PodDies ==
    /\ running
    /\ Output!Die
    /\ job' = "retried"
    /\ running' = FALSE
    /\ current' = FALSE
    /\ UNCHANGED <<stored, copy>>

-----------------------------------------------------------------------------
Next ==
    \/ CheckWrites \/ DetectWrites \/ UploadWrites
    \/ JobCreated \/ JobGivesUp
    \/ PodStarts
    \/ \E b \in Builds : BuildEnds(b) \/ BuildExpires(b)
    \/ Expire
    \/ Record
    \/ PodDies

Spec == Init /\ [][Next]_vars

\* The pod waits for a run that never ends.
Hangs == \E b \in input : b.commit \in Hanging /\ result[b] = "none"

\* Jobs are created and restarted (Reconcile), builds that do not hang end, time
\* passes.  Pods do not die for ever, nor do builds that do not hang need more than
\* the twenty minutes for ever.
FairSpec ==
    /\ Spec
    /\ WF_vars(JobCreated) /\ WF_vars(PodStarts)
    /\ \A b \in Builds :
          WF_vars(b.commit \notin Hanging /\ BuildEnds(b)) /\ WF_vars(BuildExpires(b))
    /\ WF_vars(Expire) /\ WF_vars(Record)
    /\ <>[][~PodDies /\ (Expire => Hangs)]_vars

-----------------------------------------------------------------------------
(* Properties *)

Statuses == {"none", "True", "False", "failed", "canceled"}

\* The types of the variables; without a pod that runs nothing is current, and one
\* that runs waits for what its copy says is pending.
TypeOK ==
    /\ status \in [Builds -> Statuses] /\ copy \in [Builds -> Statuses]
    /\ job \in {"none", "created", "retried"} /\ running \in BOOLEAN /\ current \in BOOLEAN
    /\ writes \in 0..MaxWrites
    /\ input \subseteq Builds /\ result \in [Builds -> {"none", "True", "failed"}]
    /\ expired \in BOOLEAN /\ killed \in BOOLEAN
    /\ current => running /\ copy = status
    /\ running => job # "none" /\ ~killed /\ input = Pending(copy)

\* No condition becomes failed unless its commit has a pending build at that very
\* moment: a job that read the pending builds before they were recorded as uploaded or
\* canceled cannot put its failures over that any more.  A commit's second pending
\* condition may turn the first from uploaded to failed (upload.go:196-222).
OnlyPendingFails ==
    [][\A b \in Builds :
          status[b] # "failed" /\ status'[b] = "failed" =>
              \E a \in Pending(status) : a.commit = b.commit]_status

HangingPending == \E b \in Pending(status) : b.commit \in Hanging

\* A pending build is recorded as uploaded, failed or canceled as long as no build
\* that hangs is pending with it: lost writes, dead pods, an expired context and jobs
\* that gave up delay it only, and a build that hung until it was canceled leaves
\* nothing behind (cmd/upload.go:22-57, image.go:110-126).
BuildRecorded ==
    \A b \in Builds :
        status[b] = "False" /\ ~HangingPending ~> status[b] # "False" \/ HangingPending

\* "Retry upload when failed and set status failed retry count exceeded" (CHANGELOG
\* v0.1.46): every pending build gets a result, one that never ends gets "failed".
\* The write uses the context that the hanging build has used up (cmd/upload.go:23,54).
FailureRecorded == \A b \in Builds : status[b] = "False" ~> status[b] # "False"
=============================================================================
