----------------------------- MODULE Reconcile -----------------------------
(***************************************************************************)
(* The controller (controllers/image_controller.go, pkg/image/image.go)    *)
(* over the life of one Image name: created, reconciled, edited, deleted,  *)
(* created again.  One worker reconciles; it reads the Image, the template *)
(* and its secrets, the jobs and the deployment from informer caches that  *)
(* lag behind the API server, and every other party moves between any two  *)
(* of its calls.                                                           *)
(*                                                                         *)
(* Detect ticks, check jobs and upload jobs are the atomic ones of         *)
(* AtomicStatus, which ImageStatus is shown to implement.  Jobs carry no   *)
(* owner reference: nothing deletes them with the Image, and their changes *)
(* wake nobody.                                                            *)
(***************************************************************************)
EXTENDS StatusLists

CONSTANTS
    MaxTemplate,                \* versions of the template, from 1
    MaxTicks,                   \* ticks of detect that change one Image
    Deletable,                  \* does the user delete Images?
    ResourcesMayGo              \* may the template or a target secret go?

ASSUME FiniteAssumption == IsFiniteSet(Keys)
ASSUME BoundsAssumption == MaxTemplate \in Nat \ {0} /\ MaxTicks \in Nat
ASSUME SwitchesAssumption == Deletable \in BOOLEAN /\ ResourcesMayGo \in BOOLEAN

VARIABLES
    image,          \* the stored Image: "absent", "live" or "deleting"
    finalizer,      \* does it carry the finalizer?
    conds,          \* its status.conditions
    ticks,          \* the ticks of detect that changed it (bound)
    template,       \* the version of the ImageFlowTemplate
    resources,      \* do the template and the target secrets exist?
    deployment,     \* the version the detect deployment was made from, or 0
    jobs,           \* the job of each name
    cache,          \* the Image the informer holds
    seenJobs,       \* the jobs the informer holds
    seenDeployment, \* the deployment the informer holds
    seenFlow,       \* the template and the secrets the informers hold
    current,        \* who holds the stored resourceVersion: "cache", "worker"
    queued,         \* is the Image's key in the work queue?
    worker          \* the reconciliation under way

external == <<image, finalizer, conds, ticks, template, resources>>
owned    == <<deployment, jobs>>
caches   == <<cache, seenJobs, seenDeployment, seenFlow>>
vars     == <<external, owned, caches, current, queued, worker>>

-----------------------------------------------------------------------------
(* Jobs *)

\* genName: one job per type, policy, revision and commit; that seven digits of
\* the hash tell them apart is taken for granted.
genName(cond) == [type |-> cond.type, tagPolicy |-> cond.tagPolicy,
                  revision |-> cond.revision, resolved |-> cond.resolved]

Names ==
    LET latest == IF Tags = {} THEN {} ELSE {"latest"}
    IN  [type : {"checked"}, tagPolicy : {"branchHash"}, revision : Branches, resolved : Commits]
        \cup [type : {"checked"}, tagPolicy : {"tagHash"}, revision : latest, resolved : Commits]
        \cup [type : {"uploaded"}, tagPolicy : {"unused"},
              revision : Branches \cup latest, resolved : Commits]

\* A job runs ("active"), has written its result and runs on ("written"), or is
\* complete or failed ("ended").  In the cache, "none" is also the job whose pod
\* has not started yet: it does not count as running.
Phases  == {"none", "active", "written", "ended"}
JobState == [phase : Phases, template : 0..MaxTemplate]
NoJob   == [phase |-> "none", template |-> 0]

\* jobRunning: Status.Active > 0.
jobRunning(job) == job.phase \in {"active", "written"}

\* The jobs as applyJob can tell them apart.
Seen == [n \in Names |-> IF jobRunning(jobs[n]) THEN [jobs[n] EXCEPT !.phase = "active"]
                                                ELSE jobs[n]]

\* Only builds that have failed once are started.
ToUploadFailed(list) == GetConditionByStatus(list, "uploaded", "failed")

\* The conditions cancelJob, EnsureCheck and EnsureUpload loop over.
Canceled(list)  == {i \in DOMAIN list : list[i].status = "canceled"}
ToUpload(list)  == GetConditionByStatus(list, "uploaded", "False")

-----------------------------------------------------------------------------
NoImage == [image |-> "absent", finalizer |-> FALSE, conds |-> <<>>]
Flow    == [template |-> template, resources |-> resources]
Stored  == [image |-> image, finalizer |-> finalizer, conds |-> conds]
Resting == [pc |-> "idle", image |-> "absent", conds |-> <<>>, template |-> 0, todo |-> {}]

Init ==
    /\ image = "absent" /\ finalizer = FALSE /\ conds = <<>> /\ ticks = 0
    /\ template = 1 /\ resources = TRUE
    /\ deployment = 0
    /\ jobs = [n \in Names |-> NoJob]
    /\ cache = NoImage
    /\ seenJobs = jobs
    /\ seenDeployment = 0
    /\ seenFlow = Flow
    /\ current = {"cache"}
    /\ queued = FALSE
    /\ worker = Resting

-----------------------------------------------------------------------------
(* The user *)

CreateImage ==
    /\ image = "absent"
    /\ image' = "live"
    /\ current' = {}
    /\ UNCHANGED <<finalizer, conds, ticks, template, resources, owned, caches, queued, worker>>

\* An Image without the finalizer is gone at once.
DeleteImage ==
    /\ Deletable
    /\ image = "live"
    /\ image' = IF finalizer THEN "deleting" ELSE "absent"
    /\ conds' = IF finalizer THEN conds ELSE <<>>
    /\ ticks' = IF finalizer THEN ticks ELSE 0
    /\ current' = {}
    /\ UNCHANGED <<finalizer, template, resources, owned, caches, queued, worker>>

\* Nobody watches the template or the secrets.
EditTemplate ==
    /\ template < MaxTemplate
    /\ template' = template + 1
    /\ UNCHANGED <<image, finalizer, conds, ticks, resources, owned, caches, current, queued, worker>>

RemoveResources ==
    /\ ResourcesMayGo
    /\ resources
    /\ resources' = FALSE
    /\ UNCHANGED <<image, finalizer, conds, ticks, template, owned, caches, current, queued, worker>>

-----------------------------------------------------------------------------
(* The actors: a write that changes the list makes every copy stale *)

Wrote == current' = IF conds' = conds THEN current ELSE {}

\* A tick of the detect pod: a branch without a head is an error.
Detect ==
    /\ deployment # 0
    /\ image # "absent"
    /\ \E file \in [Keys -> Commits \cup {None}] :
          /\ \A b \in Branches : file[b] # None
          /\ conds' \in DetectResults(conds, file)
    /\ ticks' = IF conds' = conds THEN ticks ELSE ticks + 1
    /\ ticks' <= MaxTicks
    /\ Wrote
    /\ UNCHANGED <<image, finalizer, template, resources, owned, caches, queued, worker>>

CheckPod(n) ==
    /\ n.type = "checked"
    /\ jobs[n].phase = "active"
    /\ image # "absent"
    /\ \E exist \in [Unchecked(conds) -> {"True", "False"}] :
          conds' \in CheckResults(conds, exist)
    /\ jobs' = [jobs EXCEPT ![n].phase = "written"]
    /\ Wrote
    /\ UNCHANGED <<image, finalizer, ticks, template, resources, deployment, caches, queued, worker>>

UploadPod(n) ==
    /\ n.type = "uploaded"
    /\ jobs[n].phase = "active"
    /\ image # "absent"
    /\ \E status \in [Pending(conds) -> {"True", "failed"}] :
          conds' \in UploadResults(conds, status)
    /\ jobs' = [jobs EXCEPT ![n].phase = "written"]
    /\ Wrote
    /\ UNCHANGED <<image, finalizer, ticks, template, resources, deployment, caches, queued, worker>>

JobEnds(n) ==
    /\ jobs[n].phase = "written"
    /\ jobs' = [jobs EXCEPT ![n].phase = "ended"]
    /\ UNCHANGED <<external, deployment, caches, current, queued, worker>>

\* The job's pods have failed as often as its backoff limit allows.
JobGivesUp(n) ==
    /\ jobs[n].phase = "active"
    /\ jobs' = [jobs EXCEPT ![n].phase = "ended"]
    /\ UNCHANGED <<external, deployment, caches, current, queued, worker>>

\* Finished jobs are kept for ever.
JobNeverExpires(n) == FALSE /\ UNCHANGED vars

\* ttlSecondsAfterFinished: a finished job is kept for a day.
JobExpires(n) ==
    /\ jobs[n].phase = "ended"
    /\ jobs' = [jobs EXCEPT ![n] = NoJob]
    /\ UNCHANGED <<external, deployment, caches, current, queued, worker>>

-----------------------------------------------------------------------------
(* The informers *)

\* An event of the Image; several may be seen as one.
SyncImage ==
    /\ "cache" \notin current
    /\ cache' = Stored
    /\ current' = current \cup {"cache"}
    /\ queued' = TRUE
    /\ UNCHANGED <<external, owned, seenJobs, seenDeployment, seenFlow, worker>>

\* Owns(Job) and Owns(Deployment) map an event to its owner: there is none.
SyncJobs ==
    /\ seenJobs # Seen
    /\ seenJobs' = Seen
    /\ UNCHANGED <<external, owned, cache, seenDeployment, seenFlow, current, queued, worker>>

SyncDeployment ==
    /\ seenDeployment # deployment
    /\ seenDeployment' = deployment
    /\ UNCHANGED <<external, owned, cache, seenJobs, seenFlow, current, queued, worker>>

\* The manager's client has informers for what it only reads, too; their events wake
\* nobody.
SyncFlow ==
    /\ seenFlow # Flow
    /\ seenFlow' = Flow
    /\ UNCHANGED <<external, owned, cache, seenJobs, seenDeployment, current, queued, worker>>

\* The manager's periodic resync, and the first list after a restart.
Resync ==
    /\ ~queued
    /\ cache.image # "absent"
    /\ queued' = TRUE
    /\ UNCHANGED <<external, owned, caches, current, worker>>

-----------------------------------------------------------------------------
(* Reconcile *)

Work(pc, todo) == worker' = [worker EXCEPT !.pc = pc, !.todo = todo]
Rest           == worker' = Resting /\ current' = current \ {"worker"}
Requeue        == Rest /\ queued' = TRUE

\* The finalizer is not asked for.
GatherResourcesOnly ==
    /\ worker.pc = "idle"
    /\ queued
    /\ queued' = FALSE
    /\ IF cache.image = "absent" \/ ~seenFlow.resources
       THEN UNCHANGED <<worker, current>>
       ELSE /\ worker' = [pc |-> "cancel", image |-> cache.image, conds |-> cache.conds,
                          template |-> seenFlow.template, todo |-> Canceled(cache.conds)]
            /\ current' = IF "cache" \in current THEN current \cup {"worker"} ELSE current
    /\ UNCHANGED <<external, owned, caches>>

\* A template that is not found is taken for an empty one.
GatherResourcesEmptyTemplate ==
    /\ worker.pc = "idle"
    /\ queued
    /\ queued' = FALSE
    /\ IF cache.image = "absent"
       THEN UNCHANGED <<worker, current>>
       ELSE /\ worker' = [pc |-> IF cache.finalizer THEN "cancel" ELSE "finalize",
                          image |-> cache.image, conds |-> cache.conds,
                          template |-> IF seenFlow.resources THEN seenFlow.template ELSE 0,
                          todo |-> IF cache.finalizer THEN Canceled(cache.conds) ELSE {}]
            /\ current' = IF "cache" \in current THEN current \cup {"worker"} ELSE current
    /\ UNCHANGED <<external, owned, caches>>

\* An Image that has its finalizer and nothing open is left alone.
GatherResourcesOpen ==
    /\ worker.pc = "idle"
    /\ queued
    /\ queued' = FALSE
    /\ IF \/ cache.image = "absent" \/ ~seenFlow.resources
          \/ /\ cache.image = "live" /\ cache.finalizer
             /\ Unchecked(cache.conds) \cup ToUpload(cache.conds) = {}
       THEN UNCHANGED <<worker, current>>
       ELSE /\ worker' = [pc |-> IF cache.finalizer THEN "cancel" ELSE "finalize",
                          image |-> cache.image, conds |-> cache.conds,
                          template |-> seenFlow.template,
                          todo |-> IF cache.finalizer THEN Canceled(cache.conds) ELSE {}]
            /\ current' = IF "cache" \in current THEN current \cup {"worker"} ELSE current
    /\ UNCHANGED <<external, owned, caches>>

\* gatherResources: an Image, template or secret that is not found ends the
\* reconciliation for good; nothing asks for another one.
GatherResources ==
    /\ worker.pc = "idle"
    /\ queued
    /\ queued' = FALSE
    /\ IF cache.image = "absent" \/ ~seenFlow.resources
       THEN UNCHANGED <<worker, current>>
       ELSE /\ worker' = [pc |-> IF cache.finalizer THEN "cancel" ELSE "finalize",
                          image |-> cache.image, conds |-> cache.conds,
                          template |-> seenFlow.template,
                          todo |-> IF cache.finalizer THEN Canceled(cache.conds) ELSE {}]
            /\ current' = IF "cache" \in current THEN current \cup {"worker"} ELSE current
    /\ UNCHANGED <<external, owned, caches>>

\* SetFinalizers and Update; a conflict is returned and retried.
AddFinalizer ==
    /\ worker.pc = "finalize"
    /\ IF "worker" \in current
       THEN finalizer' = TRUE /\ worker' = Resting /\ current' = {} /\ UNCHANGED queued
       ELSE Requeue /\ UNCHANGED finalizer
    /\ UNCHANGED <<image, conds, ticks, template, resources, owned, caches>>

\* A running job is left to its end.
CancelJobWhenDone ==
    /\ worker.pc = "cancel"
    /\ worker.todo # {}
    /\ LET i == Min(worker.todo)
           n == genName(worker.conds[i])
       IN  /\ jobs' = [jobs EXCEPT ![n] = IF jobRunning(@) THEN @ ELSE NoJob]
           /\ Work("cancel", worker.todo \ {i})
    /\ UNCHANGED <<external, deployment, caches, current, queued>>

\* Ensure's first loop, one cancelJob a step: the Delete goes to the API server.
CancelJob ==
    /\ worker.pc = "cancel"
    /\ worker.todo # {}
    /\ LET i == Min(worker.todo)
       IN  /\ jobs' = [jobs EXCEPT ![genName(worker.conds[i])] = NoJob]
           /\ Work("cancel", worker.todo \ {i})
    /\ UNCHANGED <<external, deployment, caches, current, queued>>

\* A deployment that is there is not compared with the template.
ApplyDeploymentOnce ==
    /\ worker.pc = "cancel"
    /\ worker.todo = {}
    /\ worker.image = "live"
    /\ deployment' = IF seenDeployment # 0 THEN deployment ELSE worker.template
    /\ Work("check", Unchecked(worker.conds))
    /\ UNCHANGED <<external, jobs, caches, current, queued>>

\* EnsureDetect of an Image that is not being deleted: applyDeployment leaves a
\* deployment alone that the cache shows as it should be.
ApplyDeployment ==
    /\ worker.pc = "cancel"
    /\ worker.todo = {}
    /\ worker.image = "live"
    /\ deployment' = IF seenDeployment = worker.template THEN deployment ELSE worker.template
    /\ Work("check", Unchecked(worker.conds))
    /\ UNCHANGED <<external, jobs, caches, current, queued>>

\* IgnoreNotFound is forgotten.
DeleteDeploymentOnce ==
    /\ worker.pc = "cancel"
    /\ worker.todo = {}
    /\ worker.image = "deleting"
    /\ IF deployment = 0
       THEN Requeue /\ UNCHANGED deployment
       ELSE deployment' = 0 /\ Work("release", {}) /\ UNCHANGED <<current, queued>>
    /\ UNCHANGED <<external, jobs, caches>>

\* EnsureDetect of an Image being deleted: first the deployment ...
DeleteDeployment ==
    /\ worker.pc = "cancel"
    /\ worker.todo = {}
    /\ worker.image = "deleting"
    /\ deployment' = 0
    /\ Work("release", {})
    /\ UNCHANGED <<external, jobs, caches, current, queued>>

\* ... then the finalizer, and with it the Image.  Ensure goes on to the checks
\* and uploads all the same.
RemoveFinalizer ==
    /\ worker.pc = "release"
    /\ IF "worker" \in current
       THEN /\ image' = "absent" /\ finalizer' = FALSE /\ conds' = <<>> /\ ticks' = 0
            /\ current' = {}
            /\ Work("check", Unchecked(worker.conds))
            /\ UNCHANGED queued
       ELSE Requeue /\ UNCHANGED <<image, finalizer, conds, ticks>>
    /\ UNCHANGED <<template, resources, owned, caches>>

-----------------------------------------------------------------------------
(* applyJob, for one condition of EnsureCheck or EnsureUpload *)

Started == [phase |-> "active", template |-> worker.template]

Applying(n) ==
    /\ worker.pc \in {"check", "upload"}
    /\ worker.todo # {}
    /\ n = genName(worker.conds[Min(worker.todo)])

Applied ==
    /\ Work(worker.pc, worker.todo \ {Min(worker.todo)})
    /\ UNCHANGED <<current, queued>>

\* "wait for previous job": the whole reconciliation is given up.
WaitForJob(n) ==
    /\ Applying(n)
    /\ jobRunning(seenJobs[n])
    /\ Requeue
    /\ UNCHANGED <<external, owned, caches>>

\* A job made from the same template is left alone, finished or not.
KeepJob(n) ==
    /\ Applying(n)
    /\ seenJobs[n].phase = "ended"
    /\ seenJobs[n].template = worker.template
    /\ Applied
    /\ UNCHANGED <<external, owned, caches>>

\* No job in the cache: the server-side apply creates it, leaves one with the same
\* template as it is, and is refused by one with another (a job's template is
\* immutable).
CreateJob(n) ==
    /\ Applying(n)
    /\ seenJobs[n].phase = "none"
    /\ IF jobs[n].phase = "none"
       THEN Applied /\ jobs' = [jobs EXCEPT ![n] = Started]
       ELSE /\ UNCHANGED jobs
            /\ IF jobs[n].template = worker.template THEN Applied ELSE Requeue
    /\ UNCHANGED <<external, deployment, caches>>

\* The cache shows a job that does not run and has another template: one that has
\* ended, or one whose pod has not started yet.
OtherTemplate(n) ==
    \/ seenJobs[n].phase = "ended" /\ seenJobs[n].template # worker.template
    \/ seenJobs[n].phase = "none" /\ jobs[n].template \notin {0, worker.template}

\* A job made from another template is deleted and applied anew; while the API
\* server is still deleting it the apply is refused.
ReplaceJob(n) ==
    /\ Applying(n)
    /\ OtherTemplate(n)
    /\ \/ Applied /\ jobs' = [jobs EXCEPT ![n] = Started]
       \/ Requeue /\ jobs' = [jobs EXCEPT ![n] = NoJob]
    /\ UNCHANGED <<external, deployment, caches>>

\* From the checks to the uploads, and to the end.
NextStage ==
    /\ worker.pc \in {"check", "upload"}
    /\ worker.todo = {}
    /\ IF worker.pc = "check"
       THEN Work("upload", ToUpload(worker.conds)) /\ UNCHANGED current
       ELSE Rest
    /\ UNCHANGED <<external, owned, caches, queued>>

\* A call fails, or the manager dies: the key is queued again either way.
WorkerFails ==
    /\ worker.pc # "idle"
    /\ Requeue
    /\ UNCHANGED <<external, owned, caches>>

-----------------------------------------------------------------------------
ApplyJob(n) == WaitForJob(n) \/ KeepJob(n) \/ CreateJob(n) \/ ReplaceJob(n)

WorkerStep ==
    \/ GatherResources \/ AddFinalizer \/ CancelJob
    \/ ApplyDeployment \/ DeleteDeployment \/ RemoveFinalizer
    \/ \E n \in Names : ApplyJob(n)
    \/ NextStage

JobStep(n) == CheckPod(n) \/ UploadPod(n) \/ JobEnds(n) \/ JobGivesUp(n) \/ JobExpires(n)

User == CreateImage \/ DeleteImage \/ EditTemplate \/ RemoveResources

Informer == SyncImage \/ SyncJobs \/ SyncDeployment \/ SyncFlow \/ Resync

Next ==
    \/ User
    \/ Detect
    \/ \E n \in Names : JobStep(n)
    \/ Informer
    \/ WorkerStep
    \/ WorkerFails

Spec == Init /\ [][Next]_vars

\* Calls do not fail, and the manager does not die, for ever.  Giving up because a
\* copy is outdated or a job runs is a WorkerStep, and may happen for ever.
CallsSucceed == <>[][WorkerFails => WorkerStep]_vars

\* The caches but that of jobs catch up and the worker goes on.  Users and detect owe
\* nothing.
ControllerFairness ==
    /\ CallsSucceed
    /\ WF_vars(SyncImage)
    /\ WF_vars(SyncDeployment)
    /\ WF_vars(SyncFlow)
    /\ WF_vars(WorkerStep)

\* The pods of an Image that is gone fail in GetImage until the job gives up.
GivesUpOrphan(n) == image = "absent" /\ JobGivesUp(n)

\* An upload pod is over when its context is, with or without a write, and its job at
\* the backoff limit.
BuildIsOver(n) == n.type = "uploaded" /\ (UploadPod(n) \/ JobGivesUp(n))

\* The job cache catches up, the manager resyncs, check pods that are started again
\* and again write once if there is an Image, finished jobs expire.
JobFairness ==
    /\ WF_vars(SyncJobs)
    /\ WF_vars(Resync)
    /\ \A n \in Names :
          /\ SF_vars(CheckPod(n))
          /\ WF_vars(BuildIsOver(n))
          /\ WF_vars(GivesUpOrphan(n))
          /\ WF_vars(JobEnds(n))
          /\ WF_vars(JobExpires(n))

FairSpec == Spec /\ ControllerFairness /\ JobFairness

-----------------------------------------------------------------------------
(* Properties *)

Lists == Seq(StoredCondition)

ImageCopy == [image : {"absent", "live", "deleting"}, finalizer : BOOLEAN, conds : Lists]

WorkerState ==
    [pc : {"idle", "finalize", "cancel", "release", "check", "upload"},
     image : {"absent", "live", "deleting"}, conds : Lists,
     template : 0..MaxTemplate, todo : SUBSET Nat]

\* The types of the variables; a job that exists was made from a template, and what
\* is gone from the informers' template and secrets is gone.
TypeOK ==
    /\ Stored \in ImageCopy
    /\ template \in 1..MaxTemplate /\ resources \in BOOLEAN /\ ticks \in 0..MaxTicks
    /\ deployment \in 0..MaxTemplate /\ seenDeployment \in 0..MaxTemplate
    /\ seenFlow \in [template : 1..MaxTemplate, resources : BOOLEAN]
    /\ resources => seenFlow.resources
    /\ jobs \in [Names -> JobState] /\ seenJobs \in [Names -> JobState]
    /\ \A n \in Names : jobs[n].phase = "none" <=> jobs[n].template = 0
    /\ cache \in ImageCopy
    /\ current \subseteq {"cache", "worker"}
    /\ queued \in BOOLEAN
    /\ worker \in WorkerState

\* "will be deleted deployment when delete image" (image_controller_test.go:86): no
\* detect deployment is left without an Image whose finalizer will remove it.
DeploymentOwned == deployment # 0 => image # "absent" /\ finalizer

\* The controller has handled all it knows of, and knows the stored Image.
Settled ==
    /\ worker.pc = "idle" /\ ~queued /\ "cache" \in current
    /\ image = "live" /\ finalizer /\ resources

\* "Cancel staled build" (CHANGELOG v0.1.47): once the controller has come to
\* rest, no job of a canceled build runs, whatever it started from stale copies
\* meanwhile (image.go:39-43, 221-234).
StaleJobsStopped ==
    Settled => \A i \in Canceled(conds) : ~jobRunning(jobs[genName(conds[i])])

\* The condition list as stored, as cached and as the worker has it.
ListsInv == \A l \in {conds, cache.conds, worker.conds} : Sound(l) /\ Named(l)

\* A reconciliation that has not been asked for anew works on the cached Image.
Follows ==
    worker.pc # "idle" /\ ~queued =>
        /\ worker.conds = cache.conds
        /\ worker.pc = "finalize" => ~cache.finalizer

\* It starts the jobs of open checks and open builds only.
TodoFits ==
    /\ worker.pc = "check"  => worker.todo \subseteq Unchecked(worker.conds)
    /\ worker.pc = "upload" => worker.todo \subseteq ToUpload(worker.conds)

\* The cached Image is not asked to be reconciled: it is being, or it has been.
Caught == ~queued /\ resources /\ cache.image # "absent" /\ cache.finalizer

\* Then the canceled builds of the cached Image have no running job, but for those
\* the worker still has to cancel.
Quiet ==
    Caught =>
        \A i \in Canceled(cache.conds) :
            (worker.pc = "cancel" => i \notin worker.todo)
                => ~jobRunning(jobs[genName(cache.conds[i])])

Working == Follows /\ TodoFits /\ Quiet

\* Why StaleJobsStopped holds.  The controller handles one Image at a time, from the
\* cancellations to the uploads, and the list it works on has each condition once: so
\* a job that was deleted is not started again by the pass that deleted it
\* (image.go:33-58, 221-234).
JobsInv == ListsInv /\ Working

\* applyJob is to "wait for previous job" (image.go:314), with the error "previous job
\* is still running" (image.go:318).  It asks the cache, so that after an edit of the
\* template it deletes a running job which the cache shows ended or not yet started.
WaitsForPrevious ==
    [][worker.pc \in {"check", "upload"} /\ worker' # worker =>
          \A n \in Names : jobRunning(jobs[n]) => jobs'[n] = jobs[n]]_vars

\* An Image that is being deleted goes away, although its Update is refused as long as
\* the cache is outdated, and reconciliations start over (image_controller.go:56-88,
\* image.go:60-71).
DeletionCompletes == (image = "deleting") ~> (image # "deleting")

\* An Image is followed: its detect deployment is there, made from the template as
\* it is.  A deployment in the cache that went with an earlier Image of the name, or
\* an edited template that nobody watches, delays it to the next resync only
\* (image.go:277-303).
ImageFollowed ==
    (image = "live" /\ resources)
        ~> (image # "live" \/ ~resources \/ deployment = template)

Waiting(type, b, c) ==
    /\ image = "live"
    /\ resources
    /\ \E i \in GetConditionByStatus(conds, type, "False") :
          conds[i].revision = b /\ conds[i].resolved = c

\* Every commit that waits to be checked is checked or given up for another one:
\* jobs that end without a result, finished jobs of the same name that are kept
\* for their day, and running jobs delay it only (image.go:314-349).
ChecksAnswered ==
    \A b \in Branches, c \in Commits :
        Waiting("checked", b, c) ~> ~Waiting("checked", b, c)

\* Jobs have no owner (TODO at image.go:195) and Ensure goes on to start some after
\* it released the Image (image.go:69-71): once the Image is gone they go as well,
\* which is what ttlSecondsAfterFinished is for (CHANGELOG v0.1.37).
LeftoversCollected ==
    (image = "absent" /\ \E n \in Names : jobs[n] # NoJob)
        ~> (image # "absent" \/ \A n \in Names : jobs[n] = NoJob)

UploadName(b, c) ==
    [type |-> "uploaded", tagPolicy |-> "unused", revision |-> b, resolved |-> c]

\* Every pending build is tried, again and again as long as it is pending: a job for it
\* runs in the end, whatever jobs of the same name gave up before, are kept for their
\* day, or were made from another template (image.go:110-126, 314-349).  That it ends
\* with a result is another matter (UploadJob).
BuildsTried ==
    \A b \in Branches, c \in Commits :
        Waiting("uploaded", b, c) ~>
            ~Waiting("uploaded", b, c) \/ jobRunning(jobs[UploadName(b, c)])
=============================================================================
