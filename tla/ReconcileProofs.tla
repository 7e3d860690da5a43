-------------------------- MODULE ReconcileProofs --------------------------
(***************************************************************************)
(* No detect deployment outlives the Image it was made for.  The argument: *)
(* only an Image the cache shows live and with its finalizer gets a        *)
(* deployment, and such an Image keeps the finalizer until the worker has  *)
(* seen it being deleted, removed the deployment, and had its Update       *)
(* accepted - which means that the cache was up to date at that moment and *)
(* does not show a live Image any more.                                    *)
(*                                                                         *)
(* And no job of a canceled build is left running, as one worker cancels   *)
(* and starts the jobs of the list it has read.                            *)
(***************************************************************************)
EXTENDS Reconcile, ConditionsProofs

\* The Image is there and will not go without the controller.
Held == image # "absent" /\ finalizer

\* Whoever holds the stored resourceVersion holds the stored Image; the worker has
\* it from the cache.
CopiesCurrent ==
    /\ "cache" \in current => cache = Stored
    /\ "worker" \in current => /\ "cache" \in current
                               /\ worker.pc # "idle"
                               /\ worker.image = image

\* A deployment, a cached live Image with a finalizer, and a reconciliation on its
\* way to apply a deployment each mean that the Image is held.
HeldByFinalizer ==
    /\ deployment # 0 => Held
    /\ cache.image = "live" /\ cache.finalizer => Held
    /\ worker.pc = "cancel" /\ worker.image = "live" => Held

\* The finalizer is removed after the deployment.
ReleasedLast == worker.pc = "release" => deployment = 0 /\ worker.image = "deleting"

WorkerRecord == DOMAIN worker = DOMAIN Resting

IInv == WorkerRecord /\ CopiesCurrent /\ HeldByFinalizer /\ ReleasedLast

LEMMA InitInv == Init => IInv
<1> SUFFICES ASSUME Init PROVE IInv
  OBVIOUS
<1>1. /\ cache = Stored /\ cache.image = "absent"
      /\ worker = Resting /\ worker.pc = "idle"
      /\ deployment = 0
      /\ current = {"cache"}
  BY DEF Init, Stored, NoImage, Resting
<1> QED
  BY <1>1 DEF IInv, WorkerRecord, CopiesCurrent, HeldByFinalizer, ReleasedLast

\* Steps that leave the deployment, the Image cache and the worker alone: they only
\* have to keep the Image held and to make the copies of what they change stale.
LEMMA OthersKeepInv ==
    ASSUME IInv, UNCHANGED <<deployment, cache, worker>>, Held => Held',
           \/ current' = {}
           \/ current' = current /\ UNCHANGED <<image, finalizer, conds>>
    PROVE  IInv'
BY DEF IInv, WorkerRecord, CopiesCurrent, HeldByFinalizer, ReleasedLast, Stored

LEMMA UserKeepsInv == IInv /\ User => IInv'
<1> SUFFICES ASSUME IInv, User PROVE IInv'
  OBVIOUS
<1>1. CASE CreateImage
  BY <1>1, OthersKeepInv DEF CreateImage, Held, owned, caches
<1>2. CASE DeleteImage
  BY <1>2, OthersKeepInv DEF DeleteImage, Held, owned, caches
<1>3. CASE EditTemplate
  BY <1>3, OthersKeepInv DEF EditTemplate, Held, owned, caches
<1>4. CASE RemoveResources
  BY <1>4, OthersKeepInv DEF RemoveResources, Held, owned, caches
<1> QED
  BY <1>1, <1>2, <1>3, <1>4 DEF User

LEMMA ActorsKeepInv == IInv /\ (Detect \/ \E n \in Names : JobStep(n)) => IInv'
<1> SUFFICES ASSUME IInv, Detect \/ \E n \in Names : JobStep(n) PROVE IInv'
  OBVIOUS
<1>1. CASE Detect
  BY <1>1, OthersKeepInv DEF Detect, Wrote, Held, owned, caches
<1>2. ASSUME NEW n \in Names, CheckPod(n) PROVE IInv'
  BY <1>2, OthersKeepInv DEF CheckPod, Wrote, Held, caches
<1>3. ASSUME NEW n \in Names, UploadPod(n) PROVE IInv'
  BY <1>3, OthersKeepInv DEF UploadPod, Wrote, Held, caches
<1>4. ASSUME NEW n \in Names, JobEnds(n) \/ JobGivesUp(n) \/ JobExpires(n) PROVE IInv'
  BY <1>4, OthersKeepInv DEF JobEnds, JobGivesUp, JobExpires, Held, external, caches
<1> QED
  BY <1>1, <1>2, <1>3, <1>4 DEF JobStep

LEMMA InformerKeepsInv == IInv /\ Informer => IInv'
<1> SUFFICES ASSUME IInv, Informer PROVE IInv'
  OBVIOUS
<1>1. CASE SyncImage
  BY <1>1 DEF SyncImage, IInv, WorkerRecord, CopiesCurrent, HeldByFinalizer, ReleasedLast, Held, Stored,
     external, owned
<1>2. CASE SyncJobs \/ SyncDeployment \/ SyncFlow \/ Resync
  BY <1>2, OthersKeepInv DEF SyncJobs, SyncDeployment, SyncFlow, Resync, Held, external, owned, caches
<1> QED
  BY <1>1, <1>2 DEF Informer

\* The end of a reconciliation, whatever it has changed.
LEMMA RestKeepsInv ==
    ASSUME IInv, Rest, UNCHANGED <<deployment, cache, image, finalizer, conds>>
    PROVE  IInv'
BY DEF Rest, Resting, IInv, WorkerRecord, CopiesCurrent, HeldByFinalizer, ReleasedLast, Held, Stored

\* A reconciliation goes on to a stage that asks for nothing.
LEMMA StageKeepsInv ==
    ASSUME IInv, NEW pc \in {"cancel", "check", "upload"}, NEW todo, Work(pc, todo),
           worker.pc # "idle", pc = "cancel" => worker.pc = "cancel",
           UNCHANGED <<cache, image, finalizer, conds, current>>,
           deployment' # 0 => Held
    PROVE  IInv'
<1>1. worker'.pc = pc /\ worker'.image = worker.image
  BY DEF Work, IInv, WorkerRecord
<1> QED
  BY <1>1 DEF Work, IInv, CopiesCurrent, HeldByFinalizer, ReleasedLast, Held, Stored,
     WorkerRecord

LEMMA JobsKeepInv == IInv /\ (\E n \in Names : ApplyJob(n)) => IInv'
<1> SUFFICES ASSUME IInv, NEW n \in Names, ApplyJob(n) PROVE IInv'
  OBVIOUS
<1>1. /\ worker.pc \in {"check", "upload"}
      /\ UNCHANGED <<deployment, cache, image, finalizer, conds>>
      /\ Applied \/ Rest
  BY DEF ApplyJob, WaitForJob, KeepJob, CreateJob, ReplaceJob, Applying, Requeue, external,
     owned, caches
<1>2. CASE Rest
  BY <1>1, <1>2, RestKeepsInv
<1>3. CASE Applied
  <2>1. /\ Work(worker.pc, worker.todo \ {Min(worker.todo)})
        /\ UNCHANGED current
    BY <1>3 DEF Applied
  <2>2. deployment' # 0 => Held
    BY <1>1 DEF IInv, HeldByFinalizer
  <2> QED
    BY <1>1, <2>1, <2>2, StageKeepsInv
<1> QED
  BY <1>1, <1>2, <1>3

LEMMA WorkerKeepsInv == IInv /\ (WorkerStep \/ WorkerFails) => IInv'
<1> SUFFICES ASSUME IInv, WorkerStep \/ WorkerFails PROVE IInv'
  OBVIOUS
<1>1. CASE GatherResources
  <2>1. CASE cache.image = "absent" \/ ~seenFlow.resources
    BY <1>1, <2>1, OthersKeepInv DEF GatherResources, Held, external, owned, caches
  <2>2. CASE ~(cache.image = "absent" \/ ~seenFlow.resources)
    <3> DEFINE stage == IF cache.finalizer THEN "cancel" ELSE "finalize"
               todo  == IF cache.finalizer THEN Canceled(cache.conds) ELSE {}
    <3>1. /\ worker' = [pc |-> stage, image |-> cache.image, conds |-> cache.conds,
                       template |-> seenFlow.template, todo |-> todo]
          /\ current' = IF "cache" \in current THEN current \cup {"worker"} ELSE current
          /\ worker.pc = "idle"
          /\ UNCHANGED <<cache, image, finalizer, conds, deployment>>
      BY <1>1, <2>2 DEF GatherResources, external, owned, caches
    <3>2. stage # "idle" /\ stage # "release" /\ (stage = "cancel" => cache.finalizer)
      OBVIOUS
    <3> HIDE DEF stage, todo
    <3>3. worker'.pc = stage /\ worker'.image = cache.image
      BY <3>1
    <3>4. DOMAIN worker' = DOMAIN Resting
      BY <3>1 DEF Resting
    <3> QED
      BY <3>1, <3>2, <3>3, <3>4 DEF IInv, WorkerRecord, CopiesCurrent, HeldByFinalizer,
         ReleasedLast, Held, Stored
  <2> QED
    BY <2>1, <2>2
<1>2. CASE AddFinalizer
  <2>1. CASE "worker" \in current
    BY <1>2, <2>1 DEF AddFinalizer, owned, caches, IInv, WorkerRecord, CopiesCurrent,
       HeldByFinalizer, ReleasedLast, Held, Resting
  <2>2. CASE "worker" \notin current
    BY <1>2, <2>2, RestKeepsInv DEF AddFinalizer, Requeue, owned, caches
  <2> QED
    BY <2>1, <2>2
<1>3. CASE CancelJob
  <2>1. /\ Work("cancel", worker.todo \ {Min(worker.todo)})
        /\ worker.pc = "cancel"
        /\ UNCHANGED <<deployment, cache, image, finalizer, conds, current>>
    BY <1>3 DEF CancelJob, external, caches
  <2>2. deployment' # 0 => Held
    BY <2>1 DEF IInv, HeldByFinalizer
  <2> QED
    BY <2>1, <2>2, StageKeepsInv
<1>4. CASE ApplyDeployment
  <2>1. /\ Work("check", Unchecked(worker.conds))
        /\ worker.pc = "cancel" /\ worker.image = "live"
        /\ UNCHANGED <<cache, image, finalizer, conds, current>>
    BY <1>4 DEF ApplyDeployment, external, caches
  <2>2. Held
    BY <2>1 DEF IInv, HeldByFinalizer
  <2> QED
    BY <2>1, <2>2, StageKeepsInv
<1>5. CASE DeleteDeployment
  <2>1. /\ deployment' = 0
        /\ worker' = [worker EXCEPT !.pc = "release", !.todo = {}]
        /\ worker.image = "deleting" /\ worker.pc = "cancel"
        /\ UNCHANGED <<cache, image, finalizer, conds, current>>
    BY <1>5 DEF DeleteDeployment, Work, external, caches
  <2>2. worker'.pc = "release" /\ worker'.image = worker.image
    BY <2>1 DEF IInv, WorkerRecord, Resting
  <2> QED
    BY <2>1, <2>2 DEF IInv, WorkerRecord, CopiesCurrent, HeldByFinalizer, ReleasedLast, Held,
       Stored
<1>6. CASE RemoveFinalizer
  <2>1. CASE "worker" \in current
    <3>1. /\ current' = {} /\ UNCHANGED <<cache, deployment>>
          /\ worker' = [worker EXCEPT !.pc = "check", !.todo = Unchecked(worker.conds)]
          /\ worker.pc = "release"
      BY <1>6, <2>1 DEF RemoveFinalizer, Work, owned, caches
    <3>2. worker'.pc = "check"
      BY <3>1 DEF IInv, WorkerRecord, Resting
    <3>3. deployment = 0 /\ cache.image = "deleting"
      BY <2>1, <3>1 DEF IInv, CopiesCurrent, ReleasedLast, Stored
    <3> QED
      BY <3>1, <3>2, <3>3 DEF IInv, WorkerRecord, CopiesCurrent, HeldByFinalizer, ReleasedLast
  <2>2. CASE "worker" \notin current
    BY <1>6, <2>2, RestKeepsInv DEF RemoveFinalizer, Requeue, owned, caches
  <2> QED
    BY <2>1, <2>2
<1>7. CASE \E n \in Names : ApplyJob(n)
  BY <1>7, JobsKeepInv
<1>8. CASE NextStage
  <2>1. CASE worker.pc = "check"
    <3>1. /\ Work("upload", ToUpload(worker.conds))
          /\ UNCHANGED <<deployment, cache, image, finalizer, conds, current>>
      BY <1>8, <2>1 DEF NextStage, external, owned, caches
    <3>2. deployment' # 0 => Held
      BY <3>1 DEF IInv, HeldByFinalizer
    <3> QED
      BY <2>1, <3>1, <3>2, StageKeepsInv
  <2>2. CASE worker.pc # "check"
    BY <1>8, <2>2, RestKeepsInv DEF NextStage, external, owned, caches
  <2> QED
    BY <2>1, <2>2
<1>9. CASE WorkerFails
  BY <1>9, RestKeepsInv DEF WorkerFails, Requeue, external, owned, caches
<1> QED
  BY <1>1, <1>2, <1>3, <1>4, <1>5, <1>6, <1>7, <1>8, <1>9 DEF WorkerStep

LEMMA NextKeepsInv == IInv /\ [Next]_vars => IInv'
<1> SUFFICES ASSUME IInv, [Next]_vars PROVE IInv'
  OBVIOUS
<1>1. CASE UNCHANGED vars
  BY <1>1, OthersKeepInv DEF vars, external, owned, caches, Held
<1> QED
  BY <1>1, UserKeepsInv, ActorsKeepInv, InformerKeepsInv, WorkerKeepsInv DEF Next

\* "will be deleted deployment when delete image" (image_controller_test.go:86), for
\* any number of Images created and deleted under one name: a detect deployment
\* exists only as long as an Image whose finalizer will remove it.
THEOREM DeploymentStaysOwned == Spec => []DeploymentOwned
<1>1. IInv => DeploymentOwned
  BY DEF IInv, HeldByFinalizer, Held, DeploymentOwned
<1> QED
  BY <1>1, InitInv, NextKeepsInv, PTL DEF Spec

-----------------------------------------------------------------------------
(* The lists, and the types *)

LEMMA ListsInit == Init => ListsInv
BY EmptySound DEF Init, ListsInv, NoImage, Resting

\* What a step makes of the stored list is what an actor makes of it, or nothing.
LEMMA ListStored ==
    ASSUME ListsInv, [Next]_vars
    PROVE  Sound(conds') /\ Named(conds')
<1>1. Sound(conds) /\ Named(conds)
  BY DEF ListsInv
<1>2. CASE Detect
  <2>1. PICK file \in [Keys -> Commits \cup {None}] : conds' \in DetectResults(conds, file)
    BY <1>2 DEF Detect
  <2> QED
    BY <1>1, <2>1, FiniteAssumption, DetectResultsSound
<1>3. ASSUME NEW n \in Names, CheckPod(n) PROVE Sound(conds') /\ Named(conds')
  <2>1. PICK exist \in [Unchecked(conds) -> {"True", "False"}] :
           conds' \in CheckResults(conds, exist)
    BY <1>3 DEF CheckPod
  <2> QED
    BY <1>1, <2>1, CheckResultsSound
<1>4. ASSUME NEW n \in Names, UploadPod(n) PROVE Sound(conds') /\ Named(conds')
  <2>1. PICK status \in [Pending(conds) -> {"True", "failed"}] :
           conds' \in UploadResults(conds, status)
    BY <1>4 DEF UploadPod
  <2> QED
    BY <1>1, <2>1, UploadResultsSound
<1>5. CASE ~Detect /\ \A n \in Names : ~CheckPod(n) /\ ~UploadPod(n)
  <2>1. conds' = conds \/ conds' = <<>>
    BY <1>5 DEF Next, vars, User, CreateImage, DeleteImage, EditTemplate, RemoveResources,
       JobStep, JobEnds, JobGivesUp, JobExpires, Informer, SyncImage, SyncJobs, SyncDeployment,
       SyncFlow, Resync, WorkerStep, WorkerFails, GatherResources, AddFinalizer, CancelJob,
       ApplyDeployment, DeleteDeployment, RemoveFinalizer, ApplyJob, WaitForJob, KeepJob,
       CreateJob, ReplaceJob, NextStage, external
  <2> QED
    BY <1>1, <2>1, EmptySound
<1> QED
  BY <1>2, <1>3, <1>4, <1>5

\* What a step of the worker makes of its record.
LEMMA WorkerMoves ==
    ASSUME WorkerStep \/ WorkerFails
    PROVE  \/ worker' = worker
           \/ worker' = Resting
           \/ /\ worker.pc \notin {"idle", "finalize"}
              /\ \E pc \in {"cancel", "release", "check", "upload"} : \E todo :
                    worker' = [worker EXCEPT !.pc = pc, !.todo = todo]
           \/ /\ cache.image # "absent"
              /\ \E pc \in {"cancel", "finalize"} : \E todo :
                    worker' = [pc |-> pc, image |-> cache.image, conds |-> cache.conds,
                               template |-> seenFlow.template, todo |-> todo]
<1>1. CASE GatherResources
  BY <1>1 DEF GatherResources
<1>2. CASE ~GatherResources
  BY <1>2 DEF WorkerStep, WorkerFails, AddFinalizer, CancelJob, ApplyDeployment,
     DeleteDeployment, RemoveFinalizer, ApplyJob, WaitForJob, KeepJob, CreateJob, ReplaceJob,
     NextStage, Applying, Applied, Requeue, Rest, Work
<1> QED
  BY <1>1, <1>2

\* The other steps leave the worker alone.
LEMMA OthersSpareWorker ==
    ASSUME [Next]_vars, ~(WorkerStep \/ WorkerFails)
    PROVE  UNCHANGED worker
BY DEF Next, vars, User, CreateImage, DeleteImage, EditTemplate, RemoveResources, Detect,
   JobStep, CheckPod, UploadPod, JobEnds, JobGivesUp, JobExpires,
   Informer, SyncImage, SyncJobs, SyncDeployment, SyncFlow, Resync

\* The cache changes as SyncImage changes it.
LEMMA CacheMoves ==
    ASSUME [Next]_vars
    PROVE  cache' = cache \/ (cache' = Stored /\ queued')
BY DEF Next, vars, User, CreateImage, DeleteImage, EditTemplate, RemoveResources, Detect,
   JobStep, CheckPod, UploadPod, JobEnds, JobGivesUp, JobExpires,
   Informer, SyncImage, SyncJobs, SyncDeployment, SyncFlow, Resync,
   WorkerStep, WorkerFails, GatherResources, AddFinalizer, CancelJob, ApplyDeployment,
   DeleteDeployment, RemoveFinalizer, ApplyJob, WaitForJob, KeepJob, CreateJob, ReplaceJob,
   NextStage, caches

\* A stage of the reconciliation leaves what it read as it is.
LEMMA SameReconcile ==
    ASSUME WorkerRecord, NEW pc, NEW todo, worker' = [worker EXCEPT !.pc = pc, !.todo = todo]
    PROVE  /\ worker'.pc = pc /\ worker'.todo = todo
           /\ UNCHANGED <<worker.image, worker.conds, worker.template>>
           /\ WorkerRecord'
BY DEF WorkerRecord, Resting

\* Every copy is an old one, or the one just stored.
LEMMA NextKeepsLists ==
    ASSUME IInv, ListsInv, [Next]_vars
    PROVE  ListsInv'
<1>1. Sound(conds') /\ Named(conds')
  BY ListStored
<1>2. cache'.conds \in {cache.conds, conds}
  BY CacheMoves DEF Stored
<1>3. worker'.conds \in {worker.conds, cache.conds, <<>>}
  <2>1. ASSUME NEW pc, NEW todo, worker' = [worker EXCEPT !.pc = pc, !.todo = todo]
        PROVE  worker'.conds = worker.conds
    BY <2>1, SameReconcile DEF IInv
  <2>2. Resting.conds = <<>>
    BY DEF Resting
  <2>3. ASSUME NEW pc, NEW todo,
               worker' = [pc |-> pc, image |-> cache.image, conds |-> cache.conds,
                          template |-> seenFlow.template, todo |-> todo]
        PROVE  worker'.conds = cache.conds
    BY <2>3
  <2>4. CASE WorkerStep \/ WorkerFails
    BY <2>1, <2>2, <2>3, <2>4, WorkerMoves
  <2> QED
    BY <2>4, OthersSpareWorker
<1> QED
  BY <1>1, <1>2, <1>3, EmptySound DEF ListsInv

-----------------------------------------------------------------------------
(* The types *)

\* A reconciliation has a template; a job that exists was made from one.
Typed == TypeOK /\ (worker.pc # "idle" => worker.template # 0)

TypedJobs(js) ==
    /\ js \in [Names -> JobState]
    /\ \A n \in Names : js[n].phase = "none" <=> js[n].template = 0

LEMMA TypedInit == Init => Typed
<1> SUFFICES ASSUME Init PROVE Typed
  OBVIOUS
<1>1. <<>> \in Lists
  BY EmptySound DEF Sound, Lists
<1>2. NoJob \in JobState /\ NoJob.phase = "none" /\ NoJob.template = 0
  BY BoundsAssumption DEF NoJob, JobState, Phases
<1>3. TypedJobs(jobs) /\ seenJobs = jobs
  BY <1>2 DEF Init, TypedJobs
<1>4. Stored \in ImageCopy /\ cache \in ImageCopy
  BY <1>1 DEF Init, Stored, NoImage, ImageCopy
<1>5. worker \in WorkerState /\ worker.pc = "idle"
  BY <1>1, BoundsAssumption DEF Init, Resting, WorkerState
<1>6. /\ template = 1 /\ ticks = 0 /\ deployment = 0 /\ seenDeployment = 0
      /\ resources = TRUE /\ current = {"cache"} /\ queued = FALSE
      /\ seenFlow = [template |-> 1, resources |-> TRUE]
  BY DEF Init, Flow
<1>7. 1 \in 1..MaxTemplate /\ 0 \in 0..MaxTemplate /\ 0 \in 0..MaxTicks
  BY BoundsAssumption
<1> QED
  BY <1>3, <1>4, <1>5, <1>6, <1>7 DEF Typed, TypeOK, TypedJobs

\* The Image, the work queue and who is up to date.
LEMMA SwitchesTyped ==
    ASSUME Typed, [Next]_vars
    PROVE  /\ image' \in {"absent", "live", "deleting"}
           /\ finalizer' \in BOOLEAN /\ resources' \in BOOLEAN /\ queued' \in BOOLEAN
           /\ current' \subseteq {"cache", "worker"}
<1>1. /\ image \in {"absent", "live", "deleting"}
      /\ finalizer \in BOOLEAN /\ resources \in BOOLEAN /\ queued \in BOOLEAN
      /\ current \subseteq {"cache", "worker"}
  BY DEF Typed, TypeOK, Stored, ImageCopy
<1>2. /\ image' \in {image, "absent", "live", "deleting"}
      /\ finalizer' \in {finalizer, TRUE, FALSE}
      /\ resources' \in {resources, FALSE}
      /\ queued' \in {queued, TRUE, FALSE}
  BY DEF Next, vars, User, CreateImage, DeleteImage, EditTemplate, RemoveResources, Detect,
     JobStep, CheckPod, UploadPod, JobEnds, JobGivesUp, JobExpires,
     Informer, SyncImage, SyncJobs, SyncDeployment, SyncFlow, Resync,
     WorkerStep, WorkerFails, GatherResources, AddFinalizer, CancelJob, ApplyDeployment,
     DeleteDeployment, RemoveFinalizer, ApplyJob, WaitForJob, KeepJob, CreateJob, ReplaceJob,
     NextStage, Applied, Requeue, external
<1>3. current' \in {current, {}, current \cup {"cache"}, current \cup {"worker"},
                   current \ {"worker"}}
  BY DEF Next, vars, User, CreateImage, DeleteImage, EditTemplate, RemoveResources, Detect,
     JobStep, CheckPod, UploadPod, JobEnds, JobGivesUp, JobExpires, Wrote,
     Informer, SyncImage, SyncJobs, SyncDeployment, SyncFlow, Resync,
     WorkerStep, WorkerFails, GatherResources, AddFinalizer, CancelJob, ApplyDeployment,
     DeleteDeployment, RemoveFinalizer, ApplyJob, WaitForJob, KeepJob, CreateJob, ReplaceJob,
     NextStage, Applied, Requeue, Rest, external
<1> QED
  BY <1>1, <1>2, <1>3

\* The versions of the template, and the ticks.
LEMMA VersionsTyped ==
    ASSUME Typed, [Next]_vars
    PROVE  /\ template' \in 1..MaxTemplate
           /\ deployment' \in 0..MaxTemplate /\ seenDeployment' \in 0..MaxTemplate
           /\ ticks' \in 0..MaxTicks
<1>1. /\ template \in 1..MaxTemplate /\ worker.template \in 0..MaxTemplate
      /\ deployment \in 0..MaxTemplate /\ seenDeployment \in 0..MaxTemplate
      /\ ticks \in 0..MaxTicks
  BY DEF Typed, TypeOK, WorkerState
<1>2. /\ template' = template \/ (template < MaxTemplate /\ template' = template + 1)
      /\ deployment' \in {deployment, 0, worker.template}
      /\ seenDeployment' \in {seenDeployment, deployment}
  BY DEF Next, vars, User, CreateImage, DeleteImage, EditTemplate, RemoveResources, Detect,
     JobStep, CheckPod, UploadPod, JobEnds, JobGivesUp, JobExpires,
     Informer, SyncImage, SyncJobs, SyncDeployment, SyncFlow, Resync,
     WorkerStep, WorkerFails, GatherResources, AddFinalizer, CancelJob, ApplyDeployment,
     DeleteDeployment, RemoveFinalizer, ApplyJob, WaitForJob, KeepJob, CreateJob, ReplaceJob,
     NextStage, external, owned, caches
<1>3. ticks' \in {ticks, 0} \/ (ticks' = ticks + 1 /\ ticks' <= MaxTicks)
  BY DEF Next, vars, User, CreateImage, DeleteImage, EditTemplate, RemoveResources, Detect,
     JobStep, CheckPod, UploadPod, JobEnds, JobGivesUp, JobExpires,
     Informer, SyncImage, SyncJobs, SyncDeployment, SyncFlow, Resync,
     WorkerStep, WorkerFails, GatherResources, AddFinalizer, CancelJob, ApplyDeployment,
     DeleteDeployment, RemoveFinalizer, ApplyJob, WaitForJob, KeepJob, CreateJob, ReplaceJob,
     NextStage, external
<1> QED
  BY <1>1, <1>2, <1>3, BoundsAssumption

\* What the informers have of the template and the secrets: the stored ones, as they
\* are or were.
LEMMA FlowTyped ==
    ASSUME Typed, [Next]_vars
    PROVE  /\ seenFlow' \in [template : 1..MaxTemplate, resources : BOOLEAN]
           /\ resources' => seenFlow'.resources
<1>1. /\ seenFlow \in [template : 1..MaxTemplate, resources : BOOLEAN]
      /\ resources => seenFlow.resources
      /\ template \in 1..MaxTemplate /\ resources \in BOOLEAN
  BY DEF Typed, TypeOK
<1>2. resources' => resources
  BY DEF Next, vars, User, CreateImage, DeleteImage, EditTemplate, RemoveResources, Detect,
     JobStep, CheckPod, UploadPod, JobEnds, JobGivesUp, JobExpires,
     Informer, SyncImage, SyncJobs, SyncDeployment, SyncFlow, Resync,
     WorkerStep, WorkerFails, GatherResources, AddFinalizer, CancelJob, ApplyDeployment,
     DeleteDeployment, RemoveFinalizer, ApplyJob, WaitForJob, KeepJob, CreateJob, ReplaceJob,
     NextStage, external
<1>3. seenFlow' = seenFlow \/ (seenFlow' = Flow /\ resources' = resources)
  BY DEF Next, vars, User, CreateImage, DeleteImage, EditTemplate, RemoveResources, Detect,
     JobStep, CheckPod, UploadPod, JobEnds, JobGivesUp, JobExpires,
     Informer, SyncImage, SyncJobs, SyncDeployment, SyncFlow, Resync,
     WorkerStep, WorkerFails, GatherResources, AddFinalizer, CancelJob, ApplyDeployment,
     DeleteDeployment, RemoveFinalizer, ApplyJob, WaitForJob, KeepJob, CreateJob, ReplaceJob,
     NextStage, external, caches
<1> QED
  BY <1>1, <1>2, <1>3 DEF Flow

\* Only JobStep and the worker's deletions and starts change the jobs.
LEMMA JobMoves ==
    ASSUME Typed, [Next]_vars
    PROVE  \/ UNCHANGED jobs
           \/ \E n \in Names : /\ jobs[n].phase \in {"active", "written"}
                               /\ \E phase \in {"written", "ended"} :
                                     jobs' = [jobs EXCEPT ![n].phase = phase]
           \/ \E n : jobs' = [jobs EXCEPT ![n] = NoJob]
           \/ worker.pc # "idle" /\ \E n : jobs' = [jobs EXCEPT ![n] = Started]
<1>1. CASE UNCHANGED vars \/ User \/ Detect \/ Informer
  BY <1>1 DEF vars, User, CreateImage, DeleteImage, EditTemplate, RemoveResources, Detect,
     Informer, SyncImage, SyncJobs, SyncDeployment, SyncFlow, Resync, owned
<1>2. ASSUME NEW n \in Names, JobStep(n)
      PROVE  \/ /\ jobs[n].phase \in {"active", "written"}
                /\ \E phase \in {"written", "ended"} :
                      jobs' = [jobs EXCEPT ![n].phase = phase]
             \/ jobs' = [jobs EXCEPT ![n] = NoJob]
  BY <1>2 DEF JobStep, CheckPod, UploadPod, JobEnds, JobGivesUp, JobExpires
<1>3. CASE CancelJob
  BY <1>3 DEF CancelJob
<1>4. ASSUME NEW n \in Names, ApplyJob(n)
      PROVE  \/ UNCHANGED jobs
             \/ jobs' = [jobs EXCEPT ![n] = NoJob]
             \/ worker.pc # "idle" /\ jobs' = [jobs EXCEPT ![n] = Started]
  BY <1>4 DEF ApplyJob, WaitForJob, KeepJob, CreateJob, ReplaceJob, Applying, owned
<1>5. CASE GatherResources \/ AddFinalizer \/ ApplyDeployment \/ DeleteDeployment
           \/ RemoveFinalizer \/ NextStage \/ WorkerFails
  BY <1>5 DEF GatherResources, AddFinalizer, ApplyDeployment, DeleteDeployment,
     RemoveFinalizer, NextStage, WorkerFails, owned
<1> QED
  BY <1>1, <1>2, <1>3, <1>4, <1>5 DEF Next, WorkerStep

LEMMA NextKeepsTypedJobs ==
    ASSUME Typed, [Next]_vars
    PROVE  TypedJobs(jobs')
<1>1. TypedJobs(jobs)
  BY DEF Typed, TypeOK, TypedJobs
<1>2. NoJob \in JobState /\ NoJob.phase = "none" /\ NoJob.template = 0
  BY BoundsAssumption DEF NoJob, JobState, Phases
<1>3. worker.pc # "idle" =>
         Started \in JobState /\ Started.phase = "active" /\ Started.template # 0
  BY DEF Started, JobState, Phases, Typed, TypeOK, WorkerState
<1>4. ASSUME NEW n, NEW job \in JobState, job.phase = "none" <=> job.template = 0,
             jobs' = [jobs EXCEPT ![n] = job]
      PROVE  TypedJobs(jobs')
  BY <1>1, <1>4 DEF TypedJobs
<1>5. ASSUME NEW n \in Names, jobs[n].phase # "none", NEW phase \in {"written", "ended"},
             jobs' = [jobs EXCEPT ![n].phase = phase]
      PROVE  TypedJobs(jobs')
  BY <1>1, <1>5 DEF TypedJobs, JobState, Phases
<1> QED
  BY <1>1, <1>2, <1>3, <1>4, <1>5, JobMoves

LEMMA NextKeepsSeenJobs ==
    ASSUME Typed, [Next]_vars
    PROVE  seenJobs' \in [Names -> JobState]
<1>1. jobs \in [Names -> JobState] /\ seenJobs \in [Names -> JobState]
  BY DEF Typed, TypeOK
<1>2. Seen \in [Names -> JobState]
  BY <1>1 DEF Seen, JobState, Phases, jobRunning
<1>3. seenJobs' = seenJobs \/ seenJobs' = Seen
  BY DEF Next, vars, User, CreateImage, DeleteImage, EditTemplate, RemoveResources, Detect,
     JobStep, CheckPod, UploadPod, JobEnds, JobGivesUp, JobExpires,
     Informer, SyncImage, SyncJobs, SyncDeployment, SyncFlow, Resync,
     WorkerStep, WorkerFails, GatherResources, AddFinalizer, CancelJob, ApplyDeployment,
     DeleteDeployment, RemoveFinalizer, ApplyJob, WaitForJob, KeepJob, CreateJob, ReplaceJob,
     NextStage, caches
<1> QED
  BY <1>1, <1>2, <1>3

\* A stage has positions of the list to handle, whatever it is.
LEMMA TodoTyped ==
    ASSUME Typed, ListsInv, WorkerStep \/ WorkerFails
    PROVE  worker'.todo \subseteq Nat
<1>1. /\ worker.todo \subseteq Nat /\ worker \in WorkerState
      /\ DOMAIN worker.conds \subseteq Nat /\ DOMAIN cache.conds \subseteq Nat
  BY DEF Typed, TypeOK, WorkerState, ListsInv, Sound
<1>2. /\ Canceled(cache.conds) \subseteq Nat
      /\ Unchecked(worker.conds) \subseteq Nat
      /\ ToUpload(worker.conds) \subseteq Nat
  BY <1>1 DEF Canceled, Unchecked, ToUpload, GetConditionByStatus, GetCondition
<1>3. WorkerRecord
  BY <1>1 DEF WorkerState, WorkerRecord, Resting
<1>4. \/ worker'.todo = worker.todo
      \/ worker'.todo = {}
      \/ worker'.todo = Canceled(cache.conds)
      \/ \E i : worker'.todo = worker.todo \ {i}
      \/ worker'.todo = Unchecked(worker.conds)
      \/ worker'.todo = ToUpload(worker.conds)
  <2>1. CASE GatherResources
    BY <2>1 DEF GatherResources
  <2>2. ASSUME Rest PROVE worker'.todo = {}
    BY <2>2 DEF Rest, Resting
  <2>3. ASSUME NEW pc, NEW todo, Work(pc, todo) PROVE worker'.todo = todo
    BY <1>3, <2>3, SameReconcile DEF Work
  <2>4. CASE AddFinalizer \/ WorkerFails
    BY <2>2, <2>4 DEF AddFinalizer, WorkerFails, Requeue, Resting
  <2>5. CASE CancelJob \/ ApplyDeployment \/ DeleteDeployment
    BY <2>3, <2>5 DEF CancelJob, ApplyDeployment, DeleteDeployment
  <2>6. CASE RemoveFinalizer \/ NextStage
    BY <2>2, <2>3, <2>6 DEF RemoveFinalizer, NextStage, Requeue
  <2>7. ASSUME NEW n \in Names, ApplyJob(n)
        PROVE  worker'.todo = {} \/ \E i : worker'.todo = worker.todo \ {i}
    <3>1. Applied \/ Rest
      BY <2>7 DEF ApplyJob, WaitForJob, KeepJob, CreateJob, ReplaceJob, Requeue
    <3> QED
      BY <2>2, <2>3, <3>1 DEF Applied
  <2> QED
    BY <2>1, <2>4, <2>5, <2>6, <2>7 DEF WorkerStep
<1> QED
  BY <1>1, <1>2, <1>4

LEMMA WorkerTyped ==
    ASSUME Typed, ListsInv, ListsInv', [Next]_vars
    PROVE  worker' \in WorkerState /\ (worker'.pc # "idle" => worker'.template # 0)
<1>1. worker \in WorkerState /\ (worker.pc # "idle" => worker.template # 0)
  BY DEF Typed, TypeOK
<1>2. WorkerRecord
  BY <1>1 DEF WorkerState, WorkerRecord, Resting
<1>3. worker'.conds \in Lists
  BY DEF ListsInv, Sound, Lists
<1>4. seenFlow.template \in 0..MaxTemplate /\ seenFlow.template # 0
  BY BoundsAssumption DEF Typed, TypeOK
<1>5. cache.image \in {"absent", "live", "deleting"}
  BY DEF Typed, TypeOK, ImageCopy
<1>6. CASE ~(WorkerStep \/ WorkerFails)
  BY <1>1, <1>6, OthersSpareWorker
<1>7. CASE WorkerStep \/ WorkerFails
  <2>1. worker'.todo \in SUBSET Nat
    BY <1>7, TodoTyped
  <2>2. CASE worker' = worker
    BY <1>1, <2>2
  <2>3. CASE worker' = Resting
    BY <1>3, <2>3, BoundsAssumption DEF Resting, WorkerState
  <2>4. ASSUME worker.pc # "idle", NEW pc \in {"cancel", "release", "check", "upload"}, NEW todo,
               worker' = [worker EXCEPT !.pc = pc, !.todo = todo]
        PROVE  worker' \in WorkerState /\ (worker'.pc # "idle" => worker'.template # 0)
    <3>1. worker'.todo = todo /\ worker'.template = worker.template
      BY <1>2, <2>4, SameReconcile
    <3> QED
      BY <1>1, <2>1, <2>4, <3>1 DEF WorkerState
  <2>5. ASSUME NEW pc \in {"cancel", "finalize"}, NEW todo,
               worker' = [pc |-> pc, image |-> cache.image, conds |-> cache.conds,
                          template |-> seenFlow.template, todo |-> todo]
        PROVE  worker' \in WorkerState /\ (worker'.pc # "idle" => worker'.template # 0)
    BY <1>3, <1>4, <1>5, <2>1, <2>5 DEF WorkerState
  <2> QED
    BY <1>7, <2>2, <2>3, <2>4, <2>5, WorkerMoves
<1> QED
  BY <1>6, <1>7

LEMMA NextKeepsTyped ==
    ASSUME Typed, ListsInv, ListsInv', [Next]_vars
    PROVE  Typed'
<1>1. Stored' \in ImageCopy
  <2>1. conds' \in Lists
    BY DEF ListsInv, Sound, Lists
  <2> QED
    BY <2>1, SwitchesTyped DEF Stored, ImageCopy
<1>2. cache' \in ImageCopy
  BY CacheMoves DEF Typed, TypeOK
<1>3. TypedJobs(jobs') /\ seenJobs' \in [Names -> JobState]
  BY NextKeepsTypedJobs, NextKeepsSeenJobs
<1> QED
  BY <1>1, <1>2, <1>3, SwitchesTyped, VersionsTyped, FlowTyped, WorkerTyped DEF Typed, TypeOK, TypedJobs

LEMMA ListsTyped == Spec => [](IInv /\ ListsInv /\ Typed)
<1>1. IInv /\ ListsInv /\ Typed /\ [Next]_vars => (IInv /\ ListsInv /\ Typed)'
  BY NextKeepsInv, NextKeepsLists, NextKeepsTyped
<1> QED
  BY <1>1, InitInv, ListsInit, TypedInit, PTL DEF Spec

\* The variables keep their types; in particular every copy of the condition list is
\* one the setters can have made, and a job that exists was made from a template.
THEOREM TypeCorrectness == Spec => []TypeOK
<1>1. Typed => TypeOK
  BY DEF Typed
<1> QED
  BY <1>1, ListsTyped, PTL

-----------------------------------------------------------------------------
(* The jobs of canceled builds *)

LEMMA JobsInit == Init => Working
<1> SUFFICES ASSUME Init PROVE Working
  OBVIOUS
<1>1. worker.pc = "idle" /\ cache.image = "absent"
  BY DEF Init, Resting, NoImage
<1> QED
  BY <1>1 DEF Working, Follows, TodoFits, Quiet, Caught

\* A condition that is stored names a job; two of them name the same job only if they
\* are the same condition of a build.
LEMMA JobNamed ==
    ASSUME NEW list, Sound(list), Named(list), NEW i \in DOMAIN list
    PROVE  genName(list[i]) \in Names
<1>1. list[i] \in StoredCondition
  BY DEF Sound
<1>2. list[i].resolved \in Commits
  BY <1>1 DEF StoredCondition, ConditionOf
<1> QED
  BY <1>2 DEF Named, Names, genName

LEMMA OpenIsNotCanceled ==
    ASSUME NEW list, Sound(list), NEW i \in Canceled(list),
           NEW j \in Unchecked(list) \cup ToUpload(list)
    PROVE  genName(list[i]) # genName(list[j])
<1> SUFFICES ASSUME genName(list[i]) = genName(list[j]) PROVE FALSE
  OBVIOUS
<1>1. /\ list[i].type = list[j].type
      /\ list[i].revision = list[j].revision /\ list[i].resolved = list[j].resolved
  BY DEF genName
<1>2. i \in DOMAIN list /\ list[i].status = "canceled"
  BY DEF Canceled
<1>3. CASE j \in Unchecked(list)
  BY <1>1, <1>2, <1>3 DEF Unchecked, GetConditionByStatus, GetCondition, Sound, Answered
<1>4. CASE j \in ToUpload(list)
  <2>1. /\ i \in GetCondition(list, "uploaded") /\ j \in GetCondition(list, "uploaded")
        /\ list[j].status = "False"
    BY <1>1, <1>2, <1>4 DEF ToUpload, GetConditionByStatus, GetCondition
  <2> QED
    BY <1>1, <1>2, <2>1 DEF Sound, Keyed
<1> QED
  BY <1>3, <1>4

\* The first of what is left to do is part of it.
LEMMA FirstToDo ==
    ASSUME NEW list, Sound(list), NEW todo \in SUBSET DOMAIN list, todo # {}
    PROVE  Min(todo) \in todo
<1>1. todo \in SUBSET (Nat \ {0})
  BY DEF Sound
<1>2. \E x \in todo : \A y \in todo : x <= y
  BY <1>1, LeastExists
<1> QED
  BY <1>2 DEF Min

\* Nothing changes the cache and asks for nothing; nothing but the worker takes a
\* request away.
LEMMA OthersKeepJobs ==
    ASSUME Working, ListsInv, Typed, [Next]_vars, ~(WorkerStep \/ WorkerFails)
    PROVE  Working'
<1>1. UNCHANGED worker
  BY OthersSpareWorker
<1>2. UNCHANGED cache \/ queued'
  BY CacheMoves
<1>3. queued => queued'
  BY DEF Next, vars, User, CreateImage, DeleteImage, EditTemplate, RemoveResources, Detect,
     JobStep, CheckPod, UploadPod, JobEnds, JobGivesUp, JobExpires,
     Informer, SyncImage, SyncJobs, SyncDeployment, SyncFlow, Resync
<1>4. resources' => resources
  BY DEF Next, vars, User, CreateImage, DeleteImage, EditTemplate, RemoveResources, Detect,
     JobStep, CheckPod, UploadPod, JobEnds, JobGivesUp, JobExpires,
     Informer, SyncImage, SyncJobs, SyncDeployment, SyncFlow, Resync, external
<1>5. \A n \in Names : jobRunning(jobs'[n]) => jobRunning(jobs[n])
  <2>1. CASE UNCHANGED vars \/ User \/ Detect \/ Informer
    BY <2>1 DEF vars, User, CreateImage, DeleteImage, EditTemplate, RemoveResources, Detect,
       Informer, SyncImage, SyncJobs, SyncDeployment, SyncFlow, Resync, owned
  <2>2. ASSUME NEW n \in Names, JobStep(n), NEW m \in Names, jobRunning(jobs'[m])
        PROVE  jobRunning(jobs[m])
    <3>1. jobs \in [Names -> JobState]
      BY DEF Typed, TypeOK
    <3>2. \/ /\ jobRunning(jobs[n])
             /\ \E phase \in {"written", "ended"} : jobs' = [jobs EXCEPT ![n].phase = phase]
          \/ jobs' = [jobs EXCEPT ![n] = NoJob]
      BY <2>2 DEF JobStep, CheckPod, UploadPod, JobEnds, JobGivesUp, JobExpires, jobRunning
    <3> QED
      BY <2>2, <3>1, <3>2 DEF jobRunning, NoJob
  <2> QED
    BY <2>1, <2>2 DEF Next
<1>6. Follows' /\ TodoFits'
  BY <1>1, <1>2, <1>3 DEF Working, Follows, TodoFits
<1>7. Quiet'
  <2> SUFFICES ASSUME Caught', NEW i \in Canceled(cache'.conds),
                      worker.pc = "cancel" => i \notin worker.todo
               PROVE  ~jobRunning(jobs'[genName(cache'.conds[i])])
    BY <1>1 DEF Quiet
  <2>1. UNCHANGED cache /\ Caught
    BY <1>2, <1>3, <1>4 DEF Caught
  <2>2. ~jobRunning(jobs[genName(cache.conds[i])])
    BY <2>1 DEF Working, Quiet
  <2>3. genName(cache.conds[i]) \in Names
    BY <2>1, JobNamed DEF ListsInv, Canceled
  <2> QED
    BY <1>5, <2>1, <2>2, <2>3
<1> QED
  BY <1>6, <1>7 DEF Working

\* A reconciliation that gives up is asked for anew.
LEMMA RequeueKeepsJobs ==
    ASSUME Requeue
    PROVE  Working'
BY DEF Requeue, Rest, Resting, Working, Follows, TodoFits, Quiet, Caught

\* One that goes on keeps to the list it has read, and must not leave a job of a
\* canceled build running behind it.
LEMMA StageKeepsJobs ==
    ASSUME Working, WorkerRecord, worker.pc \notin {"idle", "finalize"},
           NEW pc \in {"cancel", "release", "check", "upload"}, NEW todo, Work(pc, todo),
           UNCHANGED <<cache, queued, resources>>,
           pc = "check"  => todo \subseteq Unchecked(worker.conds),
           pc = "upload" => todo \subseteq ToUpload(worker.conds),
           Caught => \A i \in Canceled(cache.conds) :
                        (pc = "cancel" => i \notin todo)
                            => ~jobRunning(jobs'[genName(cache.conds[i])])
    PROVE  Working'
<1>1. /\ worker'.pc = pc /\ worker'.todo = todo /\ worker'.conds = worker.conds
  BY SameReconcile DEF Work
<1>2. Follows'
  BY <1>1 DEF Working, Follows
<1>3. TodoFits'
  BY <1>1 DEF TodoFits
<1>4. Quiet'
  BY <1>1 DEF Quiet, Caught
<1> QED
  BY <1>2, <1>3, <1>4 DEF Working

LEMMA GatherKeepsJobs ==
    ASSUME Working, Typed, GatherResources
    PROVE  Working'
<1>1. CASE cache.image = "absent" \/ ~seenFlow.resources
  <2>1. UNCHANGED <<worker, cache, resources>> /\ worker.pc = "idle"
    BY <1>1 DEF GatherResources, external, caches
  <2>2. resources => seenFlow.resources
    BY DEF Typed, TypeOK
  <2> QED
    BY <1>1, <2>1, <2>2 DEF Working, Follows, TodoFits, Quiet, Caught
<1>2. CASE ~(cache.image = "absent" \/ ~seenFlow.resources)
  <2> DEFINE stage == IF cache.finalizer THEN "cancel" ELSE "finalize"
             todo  == IF cache.finalizer THEN Canceled(cache.conds) ELSE {}
  <2>1. /\ worker' = [pc |-> stage, image |-> cache.image, conds |-> cache.conds,
                      template |-> seenFlow.template, todo |-> todo]
        /\ UNCHANGED cache
    BY <1>2 DEF GatherResources, caches
  <2>2. /\ stage \in {"cancel", "finalize"}
        /\ stage = "finalize" => ~cache.finalizer
        /\ cache.finalizer => stage = "cancel" /\ todo = Canceled(cache.conds)
    OBVIOUS
  <2> HIDE DEF stage, todo
  <2>3. worker'.pc = stage /\ worker'.todo = todo /\ worker'.conds = cache.conds
    BY <2>1
  <2> QED
    BY <2>1, <2>2, <2>3 DEF Working, Follows, TodoFits, Quiet, Caught
<1> QED
  BY <1>1, <1>2

LEMMA CancelKeepsJobs ==
    ASSUME Working, ListsInv, Typed, WorkerRecord, CancelJob
    PROVE  Working'
<1> DEFINE i == Min(worker.todo)
           n == genName(worker.conds[i])
<1>1. /\ worker.pc = "cancel"
      /\ Work("cancel", worker.todo \ {i})
      /\ jobs' = [jobs EXCEPT ![n] = NoJob]
      /\ UNCHANGED <<cache, queued, resources>>
  BY DEF CancelJob, external, caches
<1>2. ASSUME Caught, NEW c \in Canceled(cache.conds), c \notin worker.todo \ {i}
      PROVE  ~jobRunning(jobs'[genName(cache.conds[c])])
  <2>1. genName(cache.conds[c]) \in Names
    BY JobNamed DEF ListsInv, Canceled
  <2>2. jobs \in [Names -> JobState]
    BY DEF Typed, TypeOK
  <2>3. CASE c = i
    <3>1. worker.conds = cache.conds
      BY <1>1, <1>2 DEF Working, Follows, Caught
    <3> HIDE DEF i
    <3>2. jobs'[genName(cache.conds[c])] = NoJob
      BY <1>1, <2>1, <2>2, <2>3, <3>1
    <3> QED
      BY <3>2 DEF jobRunning, NoJob
  <2>4. CASE c \notin worker.todo
    <3>1. ~jobRunning(jobs[genName(cache.conds[c])])
      BY <1>2, <2>4 DEF Working, Quiet
    <3> HIDE DEF n
    <3> QED
      BY <1>1, <2>1, <2>2, <3>1 DEF jobRunning, NoJob
  <2> QED
    BY <1>2, <2>3, <2>4
<1> HIDE DEF i, n
<1> QED
  BY <1>1, <1>2, StageKeepsJobs

\* What the worker starts is open, hence not canceled.
LEMMA ApplyKeepsJobs ==
    ASSUME Working, ListsInv, Typed, WorkerRecord, NEW n \in Names, ApplyJob(n)
    PROVE  Working'
<1>1. /\ Applying(n)
      /\ UNCHANGED <<cache, resources>>
      /\ \/ Requeue
         \/ Applied /\ (jobs' = jobs \/ jobs' = [jobs EXCEPT ![n] = Started])
  BY DEF ApplyJob, WaitForJob, KeepJob, CreateJob, ReplaceJob, external, owned, caches
<1>2. CASE Requeue
  BY <1>2, RequeueKeepsJobs
<1>3. CASE Applied /\ (jobs' = jobs \/ jobs' = [jobs EXCEPT ![n] = Started])
  <2>1. /\ worker.pc \in {"check", "upload"} /\ worker.todo # {}
        /\ n = genName(worker.conds[Min(worker.todo)])
    BY <1>1 DEF Applying
  <2>2. /\ Work(worker.pc, worker.todo \ {Min(worker.todo)})
        /\ UNCHANGED queued
    BY <1>3 DEF Applied
  <2>3. worker.todo \subseteq Unchecked(worker.conds) \cup ToUpload(worker.conds)
    BY <2>1 DEF Working, TodoFits
  <2>4. ASSUME Caught, NEW c \in Canceled(cache.conds)
        PROVE  ~jobRunning(jobs'[genName(cache.conds[c])])
    <3>1. worker.conds = cache.conds /\ Sound(cache.conds)
      BY <2>1, <2>4 DEF Working, Follows, Caught, ListsInv
    <3>2. Min(worker.todo) \in worker.todo
      <4>1. worker.todo \in SUBSET DOMAIN cache.conds
        BY <2>3, <3>1 DEF Unchecked, ToUpload, GetConditionByStatus, GetCondition
      <4> QED
        BY <2>1, <3>1, <4>1, FirstToDo
    <3>3. genName(cache.conds[c]) # n
      BY <2>1, <2>3, <3>1, <3>2, OpenIsNotCanceled
    <3>4. ~jobRunning(jobs[genName(cache.conds[c])])
      BY <2>1, <2>4 DEF Working, Quiet
    <3>5. genName(cache.conds[c]) \in Names /\ jobs \in [Names -> JobState]
      BY JobNamed DEF ListsInv, Canceled, Typed, TypeOK
    <3> QED
      BY <1>1, <1>3, <3>3, <3>4, <3>5
  <2>5. /\ worker.pc = "check"  => worker.todo \ {Min(worker.todo)} \subseteq Unchecked(worker.conds)
        /\ worker.pc = "upload" => worker.todo \ {Min(worker.todo)} \subseteq ToUpload(worker.conds)
    BY DEF Working, TodoFits
  <2> QED
    BY <1>1, <2>1, <2>2, <2>4, <2>5, StageKeepsJobs
<1> QED
  BY <1>1, <1>2, <1>3

LEMMA WorkerKeepsJobs ==
    ASSUME Working, ListsInv, Typed, WorkerRecord, WorkerStep \/ WorkerFails
    PROVE  Working'
<1>1. CASE AddFinalizer
  <2>1. CASE Requeue
    BY <2>1, RequeueKeepsJobs
  <2>2. CASE worker' = Resting /\ UNCHANGED queued
    <3>1. UNCHANGED <<cache, resources>> /\ worker.pc = "finalize"
      BY <1>1 DEF AddFinalizer, caches
    <3>2. ~Caught
      BY <3>1 DEF Working, Follows, Caught
    <3> QED
      BY <2>2, <3>1, <3>2 DEF Resting, Working, Follows, TodoFits, Quiet, Caught
  <2> QED
    BY <1>1, <2>1, <2>2 DEF AddFinalizer
<1>2. CASE ApplyDeployment \/ DeleteDeployment
  <2>1. /\ worker.pc = "cancel" /\ worker.todo = {}
        /\ Work("check", Unchecked(worker.conds)) \/ Work("release", {})
        /\ UNCHANGED <<cache, queued, resources, jobs>>
    BY <1>2 DEF ApplyDeployment, DeleteDeployment, external, caches
  <2>2. Caught => \A i \in Canceled(cache.conds) : ~jobRunning(jobs'[genName(cache.conds[i])])
    BY <2>1 DEF Working, Quiet
  <2> QED
    BY <2>1, <2>2, StageKeepsJobs
<1>3. CASE RemoveFinalizer
  <2>1. CASE Requeue
    BY <2>1, RequeueKeepsJobs
  <2>2. CASE Work("check", Unchecked(worker.conds)) /\ UNCHANGED queued
    <3>1. worker.pc = "release" /\ UNCHANGED <<cache, resources, jobs>>
      BY <1>3 DEF RemoveFinalizer, owned, caches
    <3>2. Caught => \A i \in Canceled(cache.conds) : ~jobRunning(jobs'[genName(cache.conds[i])])
      BY <3>1 DEF Working, Quiet
    <3> QED
      BY <2>2, <3>1, <3>2, StageKeepsJobs
  <2> QED
    BY <1>3, <2>1, <2>2 DEF RemoveFinalizer
<1>4. CASE NextStage
  <2>1. /\ worker.pc \in {"check", "upload"} /\ UNCHANGED <<cache, queued, resources, jobs>>
    BY <1>4 DEF NextStage, external, owned, caches
  <2>2. Caught => \A i \in Canceled(cache.conds) : ~jobRunning(jobs'[genName(cache.conds[i])])
    BY <2>1 DEF Working, Quiet
  <2>3. CASE Work("upload", ToUpload(worker.conds))
    BY <2>1, <2>2, <2>3, StageKeepsJobs
  <2>4. CASE Rest
    BY <2>1, <2>2, <2>4 DEF Rest, Resting, Working, Follows, TodoFits, Quiet, Caught
  <2> QED
    BY <1>4, <2>3, <2>4 DEF NextStage
<1>5. CASE WorkerFails
  BY <1>5, RequeueKeepsJobs DEF WorkerFails
<1> QED
  BY <1>1, <1>2, <1>3, <1>4, <1>5, GatherKeepsJobs, CancelKeepsJobs, ApplyKeepsJobs
  DEF WorkerStep

\* What every copy of the list, the reconciliation under way and the jobs have to do
\* with each other holds for any number of branches, commits, jobs and ticks.
THEOREM JobsInvariance == Spec => [](IInv /\ JobsInv)
<1>1. ASSUME IInv, ListsInv, Typed, Working, [Next]_vars PROVE Working'
  <2>1. WorkerRecord
    BY <1>1 DEF IInv
  <2> QED
    BY <1>1, <2>1, OthersKeepJobs, WorkerKeepsJobs
<1>2. ListsInv /\ Working => JobsInv
  BY DEF JobsInv
<1> QED
  BY <1>1, <1>2, ListsTyped, JobsInit, PTL DEF Spec

\* "Cancel staled build" (CHANGELOG v0.1.47), for any number of branches, commits and
\* jobs: once the controller has come to rest, no job of a canceled build runs,
\* whatever jobs it started from stale copies meanwhile.
THEOREM StaleJobsStop == Spec => []StaleJobsStopped
<1>1. ASSUME IInv, JobsInv, Settled, NEW i \in Canceled(conds)
      PROVE  ~jobRunning(jobs[genName(conds[i])])
  <2>1. cache = Stored
    BY <1>1 DEF Settled, IInv, CopiesCurrent
  <2>2. cache.image = "live" /\ cache.finalizer /\ cache.conds = conds
    BY <1>1, <2>1 DEF Settled, Stored
  <2> QED
    BY <1>1, <2>2 DEF Settled, JobsInv, Working, Quiet, Caught
<1>2. IInv /\ JobsInv => StaleJobsStopped
  BY <1>1 DEF StaleJobsStopped
<1> QED
  BY <1>2, JobsInvariance, PTL
=============================================================================
