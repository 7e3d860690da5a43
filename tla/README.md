# Verification of oci-image-operator

TLA+ models of the operator, the TLC instances that check them, and theorems
about them that TLAPS proves. Every definition is translated from the Go source;
`PROJECT.json` maps it to its lines.

## The system

The operator watches `Image` resources. An Image names a git repository, the
revisions to follow (tag policies) and a registry to push to. What is known about
each revision is kept in one list, `status.conditions`, and everything the program
does is an edit of that list or a reaction to it.

| component | state | operations | talks to |
|---|---|---|---|
| condition list (`pkg/image`, `api/v1beta1`) | a sequence of conditions: type, status, tag policy, revision, resolved revision | getters, setters, cancellation | edited by the three actors, read by the controller |
| detect actor (a deployment) | the heads it has fetched; a copy of the Image | once a minute: fetch heads, read the Image, cancel what a branch has left, set its checked condition, write | GitHub, API server |
| check actor (one job per checked condition that is False) | a copy of the Image | ask the registry about *every* open condition, write the answers | registry, API server |
| upload actor (one job per uploaded condition that is False) | a copy of the Image; one goroutine per build | dispatch a workflow for *every* pending build, wait, retry, write the results | GitHub Actions, API server |
| GitHub client (`actor/github/pkg/github`) | one map of hashes per pod, shared by branches and tags | `BranchHash`, `TagHash`; `Dispatch` with its wait for the run | GitHub |
| registry client (`actor/registryv2/pkg/registryv2`) | none: its methods work on copies | `TagExists`, on ghcr.io after a question for a token | registry |
| controller (`controllers`, `pkg/image`) | nothing of its own: informer caches and a work queue | add the finalizer; delete jobs of canceled conditions; apply the deployment and the jobs; on deletion remove the deployment, then the finalizer | API server, through lagging caches |

The components call each other nowhere. They share the Image's status and meet
in the API server, which refuses a write whose `resourceVersion` is not the stored
one.

What is hard:

- Each actor reads the list, works for seconds to twenty minutes, and writes the
  whole list back. The only protection is the conflict check, and each of the
  actors' writes edits conditions that others own.
- The setters search the list by different keys: by type, policy and revision
  (`SetCondition`), by type and commit (`UpdateCheckedCondition`), by type, revision
  and commit (`UpdateUploadedCondition`), by type and revision
  (`MarkUploadConditionAsCanceled`). They mean the same condition only as long as
  the keys determine each other.
- Detect takes a commit for checked when any other revision's check saw it, and
  visits branches in Go's random map order.
- The controller decides from caches whether a job runs, and a cached job may be an
  earlier one of the same name. Jobs have no owner reference: their events wake
  nobody, and nothing removes them with the Image.
- A dispatched workflow run has no name; the actor guesses which run is its own,
  retries three times, and shares one 20-minute context with the status write.
- What the GitHub client fetched for branches and tags lies in one map that outlives
  the tick, and is found again by the letters of its keys.

What has to be true:

- condition list: keys stay unique; what is checked has a build; builds of
  commits that a branch has left are canceled; no write loses another's work;
- check and upload: a check is not repeated; what is recorded as uploaded was
  pushed, or at least reported as pushed; what is checked is built;
- controller: no deployment without an Image that will remove it; deletion
  completes; no job of a canceled build survives; every open check is answered, every
  pending build tried;
- GitHub client: "uploaded" means a run of that build that has ended; attempts are
  bounded; the command returns; each tick gets the heads it has just fetched.
- upload command: no late failure replaces what is no longer pending; every build gets
  a result in the end.

## The modules

| module | what it is | code |
|---|---|---|
| `Conditions` | the getters and setters of the list as operators on sequences | `pkg/image/image.go:388-580` |
| `StatusEdits` | one turn of each actor's loop over the list, and what check and upload take as input | `ensureConditions`, `Check.UpdateImage`, `Upload.UpdateImage`, `getInput` |
| `StatusLists` | a whole tick, check job or upload job as the fold of its turns; what holds of every list | the loops of `ensureConditions`, `Check.UpdateImage`, `Upload.UpdateImage` |
| `RegistryClient` | which replies of the registry may count as an image that exists | `actor/registryv2/pkg/registryv2`, `parseExist` |
| `ImageStatus` | detect, check and upload processes interleaved at every fetch, read, turn, answer and write, with failures at any point | `actor/base`, `actor/github`, `actor/registryv2` |
| `AtomicStatus` | abstract specification: every tick and job is one atomic step, failed ones never happened | what `StatusLists` says a loop makes of the stored list |
| `ImageStatusRefinement` | `ImageStatus` implements `AtomicStatus` | |
| `GithubHashes` | `BranchHash` and `TagHash` with the map they share, names letter by letter | `actor/github/pkg/github/github.go:85-158` |
| `DetectFile` | beside `ImageStatus`: whether the heads of a tick come back from the client's map as they went in | `actor/github/pkg/github/github.go:85-158` |
| `Reconcile` | the controller, its caches and queue, the jobs, the user; the actors are the atomic ones of `AtomicStatus` | `controllers/image_controller.go`, `pkg/image/image.go:33-349` |
| `GithubDispatch` | inside one upload pod: goroutines, workflow runs, retries, deadline, SIGTERM | `actor/github/pkg/github/github.go:160-299`, `actor/github/pkg/upload` |
| `UploadOutput` | abstract specification: what `Output` promises the command that calls it | `actor/github/pkg/upload/upload.go:30-60` |
| `GithubDispatchRefinement` | `GithubDispatch` implements `UploadOutput` | |
| `UploadJob` | around the upload pod: the job, its restarts, the builds as `UploadOutput`, the status write with the context they leave | `actor/github/cmd/upload.go`, `actor/base/pkg/upload` |
| `MCImageStatus`, `MCReconcile`, `MCGithubDispatch`, `MCUploadJob` | instances for TLC | |
| `ConditionsProofs`, `ImageStatusProofs`, `RecordedProofs`, `SerializableProofs`, `ReconcileProofs`, `GithubDispatchProofs`, `UploadJobProofs`, `GithubHashesProofs` | theorems | |

`Reconcile` composes with the actors through the steps of `AtomicStatus`: what its pods
write is one of `DetectResults`, `CheckResults` and `UploadResults` of the stored list
(`StatusLists`), which is what `AtomicStatus` allows and, as a theorem,
what `ImageStatus` does. In the same way `UploadJob` uses `UploadOutput` for what
happens inside a pod, which `GithubDispatch` is shown to implement, and
`ImageStatus` takes the registry's answers from `RegistryClient`.

Operators named like `SetConditionAppends`, `GatherResourcesOnly` or
`UpdateLastWins`, each placed before the definition it resembles, are mutated forms:
`PROJECT.json` lists which property each of them breaks. They are used by nothing
else.

### How state and actions correspond

`ImageStatus`. `conds` is the stored list. The `resourceVersion` is seen through
`current`, the set of actors whose copy carries the stored one: a read adds the
reader, a write that changes the object empties the set. `detect[d]`, `check[p]` and
`upload[p]` hold each process's program counter, its private copy and what it has
still to do. A detect tick is `DetectTick`, one `DetectFetch` per branch and for the
tag, `DetectGet`, one `DetectBranch` or `DetectTag` per key in any order, and
`DetectWrite`; `DetectFail` is an error anywhere or the death of the pod. A check
pod is `CheckGet`, one `CheckRevision` per open condition in list order (the order
matters, see hazards), `CheckWrite`. An upload pod is `UploadGet`, one `UploadBuild`
per build in the order the results arrive, `UploadWrite`. A build ends with or without
an image and is reported as uploaded or not, independently (`BuildOutcomes`): a run that
concludes with failure is reported as uploaded (`run_fails`), a run that is given up may
still push. `registry` is what has been pushed; `claimed`, a history variable, the
commits without an image that a build was reported as uploaded for. `Update` is the API
server's conflict check. Time stamps are left out: each setter stamps what it
adds, so "no stamp" only ever means "the default a getter made up". A write that
renews nothing but stamps would make other copies stale that hold the stored
conditions; the failure of their owners is a `Fail` step, which may always happen.

`DetectFile` adds no state. `ImageStatus` hands detect the heads as GitHub has them; at
the end of the fetches `DetectFile` asks the client of `GithubHashes` the same questions,
with any map that earlier ticks may have left, and compares what comes back. The heads do
not flow through the map: the two properties are the reason why they need not.

`Reconcile`. `image`, `finalizer` and `conds` are the stored Image; `cache`, `seenJobs`,
`seenDeployment` and `seenFlow` (the template and the secrets) what the informers hold,
each lagging by itself; `worker` is the one reconciliation under way, its `pc` the place in `Reconcile`/`Ensure`. One action is
one call to the API server: `AddFinalizer`, `CancelJob` per canceled condition,
`ApplyDeployment`, `DeleteDeployment`, `RemoveFinalizer`, and for each open condition
one of `WaitForJob`, `KeepJob`, `CreateJob`, `ReplaceJob` (the four outcomes of
`applyJob`). `Ensure` goes on to the checks and uploads after it removed the
finalizer, and so does the model. A reconciliation that returns an error, or a
manager that dies, is `WorkerFails`. A job "runs" as long as its status says active,
also after its pod wrote its result (`written`).

`GithubDispatch`. `runs` is the list of workflow runs, the latest last, each with
the build it is for; the program sees only the last one's state. `task[b]` is the
goroutine of a build, `dispatched` counts dispatches whose run is not there yet.
`CancelRun` is a failed attempt whether the run was cancelled or not: GitHub answers an
accepted cancellation with 202, for which the go-github of `actor/github/go.mod` (v43) returns an
`AcceptedError`, so that the `err != nil` of `cancelRun` (`github.go:252`) holds.

`UploadOutput` forgets all of this but `result`, `expired` and whether the process
was killed: a build has one result, a success only while the context lives, and after
the deadline every build gets one.

`UploadJob`. `Builds` are the uploaded conditions there may be, each a revision and a
commit; `status` has the status of each. `copy` and `current` are the pod's copy and
whether it may be written, as in `ImageStatus`. `PodStarts` is `GetInput`: one build per
pending condition, so that a commit with two of them is built twice. `BuildEnds`,
`BuildExpires` and `Expire` are the steps of `UploadOutput`. `Record` is `UpdateImage`:
with the last result that came in for each commit (`LastResults`) it overwrites every
condition of the commit, whatever its status (`Recorded`); with an expired context or an
outdated copy it stores nothing and ends the pod with an error. The others write at any
time: `CheckWrites` an answer for one revision, `DetectWrites` a cancellation,
`UploadWrites` what another upload job makes of the builds that are pending. `Hanging`
are the commits whose run never gets a conclusion `waitForComplete` knows. The context
may expire at any time, whatever the builds do.

`GithubHashes` has no variables: `BranchHash` and `TagHash` take the map as they find
it and return the map they leave, together with the set of maps the caller may get
(Go's map order decides which of two keys trimmed to the same name stays).
`RegistryClient` has none either; `Answers` is the set of what a check may record of a
tag, given what was pushed.

## What TLC checks

Twelve runs; sizes are distinct states.

| run | instance | size | shows |
|---|---|---|---|
| `branches` | 2 branches, 2 commits (one branch moves, the other stays where it may come), one process of each kind | 2.7M | `KeysUnique`, `CheckedIsBacked`, `StaleBuildsCanceled`; `NoLostCondition`, `ResolvedMovesByDetect`, `NoCheckRepeated` |
| `upload_pods` | 1 branch over 2 commits, 1 check pod, 2 upload pods | 1.0M | `IInv`, `UploadedIsPushed`, `CheckedIsServed`, `Serializable` |
| `tags` | 1 branch and the latest tag over the same 2 commits; 2 spellings of the branch and every map earlier ticks may have left | 0.4M | `TypeOK`, `KeysUnique`, `CheckedIsBacked`, `BranchFileFaithful`, `TagFileFaithful`, `Serializable` |
| `shared_commit` | 2 branches, both over both commits | | `CheckedIsServed` **fails** |
| `lifecycle` | 1 commit, 1 template, create/delete without limit, fairness of controller and cluster | 0.2M | `DeploymentOwned`; `DeletionCompletes`, `ImageFollowed`, `ChecksAnswered`, `BuildsTried`, `LeftoversCollected` |
| `jobs` | 1 branch, 2 commits, 3 ticks that change the list | 1.9M | `JobsInv`, `StaleJobsStopped` |
| `liveness` | 1 commit, 2 template versions, template may go, the same fairness | 0.3M | `TypeOK`; `ImageFollowed`, `ChecksAnswered`, `BuildsTried` |
| `attempts` | 1 build, 3 attempts, 2 foreign runs, failing runs, SIGTERM, deadline | 1.8M | `TypeOK`, `AttemptsBounded`, `TrueMeansEnded`, `OutputReturns`, `OutputKept` |
| `upload_job` | 3 conditions of 2 commits, one of which may hang, 5 writes of others | 0.3M | `TypeOK`, `OnlyPendingFails`, `BuildRecorded` |
| `run_fails` | 1 build, runs may fail | | `TrueMeansPushed` **fails** |
| `wrong_run` | 2 builds | | `AdoptsOwnRun` **fails** |
| `stuck_build` | 2 builds, one hangs | | `FailureRecorded` **fails** |

Why the bounds are enough. Two commits let a head move away and come back, which is
what cancels and revives builds. The hazards of the list are between two revisions
(two branches, or a branch and the tag) or between two pods of one kind; a third of
either adds no new key or writer, and the theorems hold for any number. In
`branches` the second branch stays at the commit the first one moves between, so
that both orders of "checked for one, seen by the other" occur. `MaxTicks` bounds the
ticks that *change* one Image, three being there, away and back; a tick that changes
nothing is not counted. `MaxTemplate = 2` is one edit: it leaves jobs and a deployment of the old
template, a worker that has read it, and a cache that still shows it. Edits and deletions
are in two runs, `liveness` and `lifecycle`, because the temporal formulas cost more than
the states. Both have one commit, so nothing is canceled there: cancellations are in
`jobs`. `MaxOthers = 2` lets a foreign run come before and after ours. `MaxWrites = 5` adds
three conditions, which takes three writes, and leaves two to outdate a copy and to cancel
the build that hangs, or to bring it back; four do the same for the two conditions of
`stuck_build`. `ImageStatus` needs no counter: the list is finite because its keys are
unique. The two spellings of `DetectFile` are one with the other kind's word in it and
one with letters of "branch/" behind the first. Only the runs of `GithubDispatch` and
`UploadJob` disable the deadlock check; there the command ends, and nothing is left to
build.

### Fairness

`ImageStatus` is checked for safety only.

In `Reconcile`, `ControllerFairness` says that the informers of Images, deployments,
templates and secrets catch up and that the worker goes on, and `CallsSucceed` that errors
which the model does not explain (a lost connection, a manager that dies) end some day. An
error that it does explain, a conflict with an outdated cache, a job that runs, a template
that is gone, is part of `WorkerStep` and may happen for ever as far as fairness goes; that
it does not is what the run shows. `JobFairness` adds the cluster: the job informer catches
up; the manager resyncs (without it nothing would wake the controller when a job ends, a
deployment is gone or a template is edited, as nothing of this has an owner or is watched;
so `ImageFollowed` may take until the next resync); finished jobs are collected after
`ttlSecondsAfterFinished` (`image.go:35,200`); pods of an Image that is gone fail until the
job gives up (`GivesUpOrphan`). A check pod that is restarted for ever writes once (strong
fairness): it asks the registry and writes within seconds. An upload pod owes no write:
`BuildIsOver` only says that a job ends in the end, with a write or at its backoff limit, as
the context of its pods expires after 20 minutes. Hence `BuildsTried` promises a job that
runs, and a result is promised in `UploadJob` only. Users and detect owe nothing.

In `GithubDispatch` the deadline comes and goroutines run; GitHub owes nothing. The
fairness of `UploadOutput`, that the context expires and the builds that are left fail
after it, is what `attempts` shows of `GithubDispatch`. `UploadJob` adds that jobs are
created and their pods restarted (what `BuildsTried` is about), and that pods do not die,
and builds that do not hang do not run into the 20 minutes, for ever: after some last time
the context expires only while a pod waits for a run that hangs. This is weaker than that
every build is fast, but it is an assumption about GitHub: `stuck_build` shows what becomes
of the rest.

## What is proved

For any sets of branches, commits, detectors and pods (`ImageStatusProofs`):

- `Invariance`: `Spec => []IInv`. None of the properties is inductive: what the next
  write does depends on the private copies. `IInv` says that every list, stored or
  private, is `Sound` (typed, checked conditions answered or open, keys unique,
  checked commits backed, pending builds at their branch's head); that the copy of an
  actor in `current` preserves the stored list (`Preserves`), which is why the only
  writes that get through lose nothing; and that what an actor has still to do fits
  its copy. The last is what the order of `CheckRevision` is for: the open conditions
  of the edited copy are exactly those still to be answered, so that the first
  condition of a commit that is not yet True is the one that was asked about, and
  overwriting its revision changes nothing.
- `TypeCorrectness`, `KeysStayUnique`, `CheckedStaysBacked`, `StaleBuildsStayCanceled`
  (if no branch is called `latest`: the cancellation looks a checked condition up by
  revision whatever its policy, `image.go:416`), and the action property
  `NothingLost`. All follow from `IInv`.
- The lemmas are one per turn of a loop (`EnsureBranchSound`, `EnsureTagSound`,
  `RecordCheckSound`, `RecordBuildSound`): from a sound list each turn leaves a sound
  list that preserves it. They rest on `ConditionsProofs`, which says what each setter
  returns without mention of the search.

In `RecordedProofs`, on top of `IInv`:

- `UploadsArePushed`. `PushedInv` says it of every copy, also of those that can no longer
  be written: images are never removed, what was claimed stays claimed or is pushed, and
  each turn adds only successes that have an image or a build reported as uploaded. What
  the registry client may answer enters here.
- `HeadsAreDetects`, the action property `ResolvedMovesByDetect`. `HeadsInv` says that
  a check or upload pod that could still write has the stored commits in its checked
  conditions, so that its write moves none.
- `ChecksNotRepeated` (without a detected tag), the action property `NoCheckRepeated`.
  `CheckedInv` follows the copy of a detector that could still write: the branches it
  has left are as they are stored, and a condition that names its stored commit is as
  checked as the stored one.
- `OneBranchServed` (for one branch and no detected tag): `Spec => []CheckedIsServed`.
  `ServedInv` says it of every copy. Check and upload jobs cancel nothing; detect
  cancels the builds of the commit its branch leaves, which is then the commit of no
  checked condition. With two branches it may be (`shared_commit`).

In `SerializableProofs`: `WritesAreSerializable`, the refinement of `AtomicStatus` by
`ImageStatus`. The inductive invariant `SerialInv` says of the copy of an actor in
`current` that it is the stored list after the turns the actor has taken: over all
branches and tags it has left in one order, branches first; over the first open checks
in list order; over the builds that have answered. A write that changes the stored list
empties `current`, so the invariant only has to follow the actor's own turns
(`DetectGoesOn`, `CheckGoesOn`, `UploadGoesOn`), and a write that is accepted comes when
no turn is left: its list is then one that the whole tick or job makes of the stored
one. It is stated of the loops as folds (`Turns`); `ConditionsProofs` has what the
proofs need of folds (`TurnsEmpty`, `TurnsAppend`, `TurnsKeep`), and that the three
loops keep a list sound (`DetectResultsSound`, `CheckResultsSound`,
`UploadResultsSound`).

`TagFilesAreFaithful` carries `LatestFaithful` of `GithubHashesProofs` (below) over to the
tag of the files detect starts a tick from. It holds in every state, as the client answers
well whatever it is given; where it could fail is in the client, and there the proof is.
For branches that proof is `BranchesFaithful`.

In `ReconcileProofs`: `DeploymentStaysOwned`, `Spec => []DeploymentOwned`. The inductive
invariant adds that whoever holds the stored `resourceVersion` holds the stored Image,
that a cached live Image with its finalizer, like a worker on its way to apply the
deployment, means that the Image is still held, and that a worker about to release
the finalizer has seen the deletion and removed the deployment. The finalizer goes
only by an Update that was not refused, so at that moment the cache was current and
showed no live Image.

`TypeCorrectness` is the `TypeOK` of `Reconcile`; that the stored, cached and private
lists are `Sound` is part of its invariant (`ListsInv`), from the three lemmas on loops
that were just named.

`StaleJobsStop` is `Spec => []StaleJobsStopped`, for any branches, commits, templates and
ticks, and with an Image that is deleted and created again. The property says nothing
while the controller works, so that it is far from inductive; `JobsInv` says what holds
then (`JobsInvariance`), and TLC checks it in `jobs`. Unless the cached Image waits in the
queue, the worker has the cached list in hand (`Follows`), starts only jobs of open checks
and builds in it (`TodoFits`), and each canceled condition of the cached list that it has
gone past has no running job (`Quiet`). The last survives the starts because the list is
sound: a checked condition is never canceled, and a revision has one build condition per
commit, so that a canceled and an open condition never name the same job
(`OpenIsNotCanceled`). Whatever makes the cache change puts the Image in the queue again.
When the controller has come to rest with a cache that is up to date, the cached list
is the stored one.

In `GithubDispatchProofs`, for any number of builds, attempts and foreign runs:
`TypeCorrectness`, `AttemptsStayBounded` and `SuccessesHaveEnded`. The inductive
invariant counts the runs of a build and its open dispatches against its attempts,
and fixes the run a goroutine waits for. A success comes from a conclusion the poll loop
has seen, never from a cancellation. `ImplementsOutput` is the refinement of
`UploadOutput!Spec`: every step is one of its steps or a stutter. Its fairness is
model-checked.

In `UploadJobProofs`: `TypeCorrectness`, an inductive `TypeOK` that ties the input of a
running pod to its copy, and `FailuresArePending`, the action property `OnlyPendingFails`: a
result is written only with a current copy, so that its commit has a pending build in what
is stored. That a success is never turned into a failure would be too much: a commit
with two pending conditions is built twice, and `Recorded` stores either answer under both.

In `GithubHashesProofs`: `BranchesFaithful` and `LatestFaithful` state
`BranchesReturned` and `LatestReturned` for all lists of branches and tags, all replies
of GitHub and all maps earlier ticks may have left. They rest on what trimming does to
a key (`TrimPrefix`) and on names as sequences of any letters.

The constants' assumptions (`KeysAssumption`, `CommitsAssumption`, `ActorsAssumption`,
`BoundsAssumption`, `SwitchesAssumption`, `AttemptsAssumption`, `OthersAssumption`,
`HangingAssumption`, `WritesAssumption`, `FiniteAssumption`) say
that an Image follows finitely many branches and tags, that names of different kinds differ, that a missing value is not a commit or branch,
and that bounds are numbers. That at most one tag key is given comes from `TagHash`,
which stops at the first (`github.go:112-119`).

Model-checked only: liveness under fairness, which is out of the prover's reach: the five
such properties of `lifecycle` and `liveness`, `OutputReturns`, the fairness in `OutputKept`
and `BuildRecorded`; and `BranchFileFaithful`, an instance of the theorem `BranchesFaithful`.
Every other property of a passing run is a theorem, some of them under
the hypotheses given above (`StaleBuildsStayCanceled`, `ChecksNotRepeated`,
`OneBranchServed`).

## Where code and text disagree

The four runs marked **fails** are findings, with the quoted line, in `PROJECT.json`:

- `shared_commit`: a commit whose only build was canceled for one branch counts as
  checked for another branch that is still there; nobody builds it.
- `stuck_build`: a build whose run never ends is never recorded as failed, and takes
  the results of the builds pending with it.
- `run_fails`: a workflow that concludes with "failure" is reported as uploaded.
- `wrong_run`: with two builds at once a goroutine waits for the other's run.

The same models show more, each by another value of a constant:

- `ResourcesMayGo = TRUE` in `lifecycle`: an Image whose template or secret is gone is
  never released (`image_controller.go:60`: `DeletionCompletes`), although
  `image_controller_test.go:86` and `e2e/funcs.go:45-47` delete the Image and expect it to
  go.
- `WaitsForPrevious` in `liveness`: after a template edit a running job is deleted because
  the cache shows an earlier state of it, against "wait for previous job" (`image.go:314`).
  With one template the property says little: `ReplaceJob` is then never taken.
- `NoCheckRepeated` in `tags`: the tag is set back to False on every tick
  (`detect.go:110`), against CHANGELOG v0.1.44.
- `StaleBuildsCanceled` in `tags` with `Branches = {"latest"}`, see `StaleBuildsStayCanceled`.
- Without `Safe` in `BranchesReturned`: the client trims letters, not the prefix
  (`github.go:154`), so that "hotfix" comes back as "otfix" and "release" as "elease";
  the check of "release" never sees its own branch. "hot" and "ot" come back as one
  name, with the hash of either. Without the condition on tags, an explicit tag with
  "branch" in its name is taken for a branch.
- In `UploadJob` with the conditions of `upload_job`: a commit that is the head of two
  revisions has two uploaded conditions, each of which gets a build, and `UpdateImage` stores
  a result under both (`upload.go:199-210`). A recorded success turns into a failure when the
  second one is pending and fails, and a canceled build into a failed one.

## Not modelled

- JSON files, image names, logging, configuration parsing, manifests, generated code,
  and the commands that are stubs.
- The file watcher of `actor/base/pkg/upload`, the file loop of
  `actor/registryv2/pkg/check`, and the `noop` actor: nothing but tests calls them any
  more. Reading them shows that `Run` calls `Execute` once before it listens, so that
  `Stop` blocks when the output is already there, and that an output written before the
  directory is watched is missed.
- The token cache of the registry client: its methods have value receivers, so the
  token they store is lost with the copy, and each question asks for a new one.
- More than one target: `EnsureCheck` refuses it. Branches that do not exist are an
  error of the tick. Policies other than branchHash and the latest tag are not
  followed by detect.
- Collisions of the seven hash digits in job names, and two Images of one name in two
  namespaces, which share deployment and jobs because these go to one fixed namespace
  (`image.go:63,160,193,229,247`). `Reconcile` follows one Image.
- In `Reconcile`, pods of a deleted job that write during their grace period, and
  actors' minutes between read and write (in `ImageStatus`, where pods may start at
  any time). A template that comes back after it was removed.
- In `GithubDispatch`, time: any waiting run may be younger than a minute.
- In `UploadJob`, several upload jobs at once are one followed job and `UploadWrites`, each
  of them with one current reading; what jobs that race do to each other's copies is in
  `ImageStatus`.

## Plan

In order; what is done is marked.

1. `Conditions`, `StatusEdits`: the list and its edits. Done.
2. `ImageStatus` with `AtomicStatus`: the concurrency of the actors, the heart of the
   system; `ImageStatusProofs`. Done.
3. `Reconcile`: the controller against stale caches; `ReconcileProofs`. Done.
4. `GithubDispatch`: the builds inside an upload pod; `GithubDispatchProofs`. Done.
5. Findings that the properties led to. Done.
6. `UploadOutput` and `UploadJob`: the deadline and the status write composed, whether a
   build that always fails is ever recorded as failed. Done.
7. `GithubHashes`, `DetectFile`: the shared map of `setHash`/`getHashes`. Done.
8. `RegistryClient`; `RecordedProofs`. Done.
9. `ConditionsLaws`: the closed forms of `Conditions` against the literal loops of the
   source (recursive functions), over all short lists; idempotence of a tick that
   found nothing new.
10. Two Images of one name in two namespaces around a shared deployment.
11. `SerializableProofs`: the refinement of `AtomicStatus`; the types of `Reconcile` and
    `StaleJobsStopped`, from what `queued` and `current` say of the last pass of the
    worker over the canceled builds. Done.
12. `WaitsForPrevious` as a run of its own, two commits in `liveness` (a build that is
    canceled and revived while the controller looks away).
13. Proofs: `UploadsArePushed` and `OneBranchServed` for the atomic actors, so that
    `Reconcile` can cite them; what of `ChecksNotRepeated` holds with a tag.
