---------------------------- MODULE ImageStatus ----------------------------
(***************************************************************************)
(* The life of one Image's status: the detect deployment, the check jobs   *)
(* and the upload jobs each read the Image from the API server, work on a  *)
(* private copy of its condition list for seconds to minutes, and write    *)
(* the whole list back with Status().Update.  The API server refuses a     *)
(* write whose copy does not carry the stored resourceVersion.             *)
(*                                                                         *)
(* The resourceVersion is seen through "current", the actors whose copy    *)
(* still carries the stored one: a read adds the reader, a write that      *)
(* changes the object empties it.  The controller is not part of this      *)
(* module: a check or upload pod may start at any moment, which is at      *)
(* least as often as it starts one.                                        *)
(***************************************************************************)
EXTENDS StatusLists, RegistryClient

CONSTANTS
    History,        \* History[k]: the commits branch or tag key k may point at
    Detectors,      \* processes of the detect deployment
    CheckPods,      \* pods of check jobs
    UploadPods      \* pods of upload jobs

TagKeys == {"latest/hash", "latest/name"}     \* MapKeyLatestTag{Hash,Name}

\* TagHash stops at the first of the two tag keys it meets.
ASSUME KeysAssumption ==
    /\ Tags \subseteq TagKeys
    /\ \A s, t \in Tags : s = t
    /\ Branches \cap TagKeys = {}
    /\ None \notin Branches

ASSUME CommitsAssumption ==
    /\ None \notin Commits
    /\ History \in [Keys -> SUBSET Commits]

ASSUME ActorsAssumption ==
    /\ Detectors \cap CheckPods = {}
    /\ Detectors \cap UploadPods = {}
    /\ CheckPods \cap UploadPods = {}

VARIABLES
    heads,      \* the git repository: what each key points at, or None
    registry,   \* the commits an image was pushed for
    claimed,    \* those without an image that a build was reported as uploaded for
    conds,      \* status.conditions of the stored Image
    current,    \* the actors whose copy carries the stored resourceVersion
    detect,     \* local state of each detector
    check,      \* local state of each check pod
    upload      \* local state of each upload pod

vars == <<heads, registry, claimed, conds, current, detect, check, upload>>

Actors == Detectors \cup CheckPods \cup UploadPods

NoFile   == [k \in Keys |-> None]
Sleeping == [pc |-> "sleep", file |-> NoFile, todo |-> {}, conds |-> <<>>]
Idle     == [pc |-> "idle", todo |-> {}, conds |-> <<>>]

Init ==
    /\ heads = NoFile
    /\ registry = {} /\ claimed = {}
    /\ conds = <<>>
    /\ current = {}
    /\ detect = [d \in Detectors |-> Sleeping]
    /\ check = [p \in CheckPods |-> Idle]
    /\ upload = [p \in UploadPods |-> Idle]

-----------------------------------------------------------------------------
(* Status().Update *)

\* The write of the stale copy goes through.
UpdateLastWins(actor, new) ==
    /\ conds' = new
    /\ current' = IF new = conds THEN current \ {actor} ELSE {}

\* A copy read before somebody else's write is refused (409 Conflict); an
\* accepted write makes every other copy stale.  The actor drops its copy
\* either way.  A write that only renews the time stamps is like no write: the
\* copies it would make stale hold the stored conditions, and that their
\* owners fail instead of writing is a Fail step.
Update(actor, new) ==
    IF actor \in current /\ new # conds
    THEN conds' = new /\ current' = {}
    ELSE current' = current \ {actor} /\ UNCHANGED conds

-----------------------------------------------------------------------------
(* The git repository *)

\* A push, a force push or a new tag: key k points at c.
Push(k, c) ==
    /\ c \in History[k]
    /\ heads' = [heads EXCEPT ![k] = c]
    /\ UNCHANGED <<registry, claimed, conds, current, detect, check, upload>>

-----------------------------------------------------------------------------
(* The detect deployment *)

\* Run wakes up after its minute of sleep.
DetectTick(d) ==
    /\ detect[d].pc = "sleep"
    /\ detect' = [detect EXCEPT ![d].pc = "fetch", ![d].todo = Keys]
    /\ UNCHANGED <<heads, registry, claimed, conds, current, check, upload>>

\* BranchHash asks for one branch after the other, TagHash for the list of
\* tags after them; heads move in between.  A branch that does not exist is an
\* error (DetectFail), a repository without tags leaves the key out.
DetectFetch(d, k) ==
    /\ detect[d].pc = "fetch"
    /\ k \in detect[d].todo
    /\ k \in Branches => heads[k] # None
    /\ k \in Tags => detect[d].todo \cap Branches = {}
    /\ detect' = [detect EXCEPT ![d].file[k] = heads[k],
                                ![d].todo = @ \ {k}]
    /\ UNCHANGED <<heads, registry, claimed, conds, current, check, upload>>

\* A key without a commit is looped over too.
DetectGetAll(d) ==
    /\ detect[d].pc = "fetch"
    /\ detect[d].todo = {}
    /\ detect' = [detect EXCEPT ![d].pc = "ensure", ![d].todo = Keys, ![d].conds = conds]
    /\ current' = current \cup {d}
    /\ UNCHANGED <<heads, registry, claimed, conds, check, upload>>

\* UpdateImage reads the Image and copies its conditions.
DetectGet(d) ==
    /\ detect[d].pc = "fetch"
    /\ detect[d].todo = {}
    /\ detect' = [detect EXCEPT ![d].pc = "ensure",
                                ![d].todo = {k \in Keys : detect[d].file[k] # None},
                                ![d].conds = conds]
    /\ current' = current \cup {d}
    /\ UNCHANGED <<heads, registry, claimed, conds, check, upload>>

\* Go's map order: the branches, then the tags, each in any order.
DetectBranch(d, b) ==
    /\ detect[d].pc = "ensure"
    /\ b \in detect[d].todo \cap Branches
    /\ detect' = [detect EXCEPT
            ![d].todo = @ \ {b},
            ![d].conds = EnsureBranch(@, b, detect[d].file[b])]
    /\ UNCHANGED <<heads, registry, claimed, conds, current, check, upload>>

DetectTag(d, t) ==
    /\ detect[d].pc = "ensure"
    /\ t \in detect[d].todo
    /\ detect[d].todo \cap Branches = {}
    /\ detect' = [detect EXCEPT
            ![d].todo = @ \ {t},
            ![d].conds = EnsureTag(@, detect[d].file[t])]
    /\ UNCHANGED <<heads, registry, claimed, conds, current, check, upload>>

\* No difference, no write.  An error is logged and the next tick starts over.
DetectWrite(d) ==
    /\ detect[d].pc = "ensure"
    /\ detect[d].todo = {}
    /\ Update(d, detect[d].conds)
    /\ detect' = [detect EXCEPT ![d] = Sleeping]
    /\ UNCHANGED <<heads, registry, claimed, check, upload>>

\* A failed call, or the pod dies.
DetectFail(d) ==
    /\ detect[d].pc # "sleep"
    /\ detect' = [detect EXCEPT ![d] = Sleeping]
    /\ current' = current \ {d}
    /\ UNCHANGED <<heads, registry, claimed, conds, check, upload>>

-----------------------------------------------------------------------------
(* Check jobs *)

\* GetInput takes every checked condition that is False, in list order, from
\* the copy that UpdateImage will write back.
CheckGet(p) ==
    /\ check[p].pc = "idle"
    /\ check' = [check EXCEPT ![p] =
            [pc |-> "run", todo |-> GetCheckInput(conds), conds |-> conds]]
    /\ current' = current \cup {p}
    /\ UNCHANGED <<heads, registry, claimed, conds, detect, upload>>

\* The answers are taken in any order.
CheckRevisionAnyOrder(p, rev, exist) ==
    /\ check[p].pc = "run"
    /\ rev \in check[p].todo
    /\ exist \in Answers(rev.resolved, registry)
    /\ check' = [check EXCEPT ![p].todo = @ \ {rev},
                              ![p].conds = RecordCheck(@, rev, exist)]
    /\ UNCHANGED <<heads, registry, claimed, conds, current, detect, upload>>

\* The registry client answers; the output has the order of the input.
CheckRevision(p, rev, exist) ==
    /\ check[p].pc = "run"
    /\ rev \in check[p].todo
    /\ \A other \in check[p].todo : rev.at <= other.at
    /\ exist \in Answers(rev.resolved, registry)
    /\ check' = [check EXCEPT ![p].todo = @ \ {rev},
                              ![p].conds = RecordCheck(@, rev, exist)]
    /\ UNCHANGED <<heads, registry, claimed, conds, current, detect, upload>>

\* A refused write ends the process; the job's next pod reads again.
CheckWrite(p) ==
    /\ check[p].pc = "run"
    /\ check[p].todo = {}
    /\ Update(p, check[p].conds)
    /\ check' = [check EXCEPT ![p] = Idle]
    /\ UNCHANGED <<heads, registry, claimed, detect, upload>>

CheckFail(p) ==
    /\ check[p].pc = "run"
    /\ check' = [check EXCEPT ![p] = Idle]
    /\ current' = current \ {p}
    /\ UNCHANGED <<heads, registry, claimed, conds, detect, upload>>

-----------------------------------------------------------------------------
(* Upload jobs *)

UploadGet(p) ==
    /\ upload[p].pc = "idle"
    /\ upload' = [upload EXCEPT ![p] =
            [pc |-> "run", todo |-> GetUploadInput(conds), conds |-> conds]]
    /\ current' = current \cup {p}
    /\ UNCHANGED <<heads, registry, claimed, conds, detect, check>>

\* What a build reports, and whether it pushed the image: an answer that never
\* comes is reported as failed, with or without an image; a run that failed or is
\* somebody else's is reported as uploaded (GithubDispatch).
BuildOutcomes == [status : {"True", "failed"}, pushed : BOOLEAN]

\* The results arrive in the order the workflows end.
UploadBuild(p, build, outcome) ==
    /\ upload[p].pc = "run"
    /\ build \in upload[p].todo
    /\ registry' = IF outcome.pushed THEN registry \cup {build.tag} ELSE registry
    /\ claimed' = (IF outcome.status = "True" THEN claimed \cup {build.tag} ELSE claimed)
                     \ registry'
    /\ upload' = [upload EXCEPT ![p].todo = @ \ {build},
                                ![p].conds = RecordBuild(@, build.tag, outcome.status)]
    /\ UNCHANGED <<heads, conds, current, detect, check>>

UploadWrite(p) ==
    /\ upload[p].pc = "run"
    /\ upload[p].todo = {}
    /\ Update(p, upload[p].conds)
    /\ upload' = [upload EXCEPT ![p] = Idle]
    /\ UNCHANGED <<heads, registry, claimed, detect, check>>

\* The pod dies with its results; its workflows may have pushed by then.
UploadFail(p) ==
    /\ upload[p].pc = "run"
    /\ upload' = [upload EXCEPT ![p] = Idle]
    /\ current' = current \ {p}
    /\ UNCHANGED <<heads, registry, claimed, conds, detect, check>>

-----------------------------------------------------------------------------
DetectStep(d) ==
    \/ DetectTick(d)
    \/ \E k \in Keys : DetectFetch(d, k)
    \/ DetectGet(d)
    \/ \E b \in Branches : DetectBranch(d, b)
    \/ \E t \in Tags : DetectTag(d, t)
    \/ DetectWrite(d)

CheckStep(p) ==
    \/ CheckGet(p)
    \/ \E rev \in check[p].todo, exist \in {"True", "False"} : CheckRevision(p, rev, exist)
    \/ CheckWrite(p)

UploadStep(p) ==
    \/ UploadGet(p)
    \/ \E build \in upload[p].todo, outcome \in BuildOutcomes : UploadBuild(p, build, outcome)
    \/ UploadWrite(p)

Next ==
    \/ \E k \in Keys, c \in Commits : Push(k, c)
    \/ \E d \in Detectors : DetectStep(d) \/ DetectFail(d)
    \/ \E p \in CheckPods : CheckStep(p) \/ CheckFail(p)
    \/ \E p \in UploadPods : UploadStep(p) \/ UploadFail(p)

Spec == Init /\ [][Next]_vars

-----------------------------------------------------------------------------
(* Properties *)

DetectState ==
    [pc : {"sleep", "fetch", "ensure"}, file : [Keys -> Commits \cup {None}],
     todo : SUBSET Keys, conds : Seq(StoredCondition)]

CheckState ==
    [pc : {"idle", "run"}, conds : Seq(StoredCondition),
     todo : SUBSET [at : Nat, revision : Revisions, resolved : Commits]]

UploadState ==
    [pc : {"idle", "run"}, conds : Seq(StoredCondition),
     todo : SUBSET [at : Nat, tag : Commits]]

\* The types of the variables.
TypeOK ==
    /\ heads \in [Keys -> Commits \cup {None}]
    /\ registry \subseteq Commits /\ claimed \subseteq Commits
    /\ conds \in Seq(StoredCondition)
    /\ current \subseteq Actors
    /\ detect \in [Detectors -> DetectState]
    /\ check \in [CheckPods -> CheckState]
    /\ upload \in [UploadPods -> UploadState]

\* The keys of the stored conditions never become ambiguous, whatever the order
\* of detect, check and upload writes (image.go:481-543).
KeysUnique == Keyed(conds)

\* No commit counts as checked without a build condition (detect.go:94-100,
\* check.go:110-123).
CheckedIsBacked == Backed(conds)

\* "Cancel staled build" (CHANGELOG v0.1.47): no build of a commit its branch
\* has left stays pending (image.go:413-427, detect.go:101), as long as no branch has
\* the revision of the tag policy, "latest", which the cancellation looks up too.
StaleBuildsCanceled == OnlyHeadPending(conds)

\* No update is lost between the actors, each of which writes back the whole
\* list it read minutes ago.
NoLostCondition == [][Preserves(conds, conds')]_conds

\* A check or upload job never brings back a commit that detect has replaced:
\* the resolved revision of a checked condition moves in detect's writes only.
ResolvedMovesByDetect ==
    [][\A i \in GetCondition(conds, "checked") \cap DOMAIN conds' :
          conds'[i].resolved # conds[i].resolved =>
              \E d \in Detectors : /\ detect[d].pc = "ensure"
                                   /\ detect'[d].pc = "sleep"
                                   /\ detect[d].conds = conds']_conds

\* "fix detect: no change to False on CheckedCondition" (CHANGELOG v0.1.44): a
\* condition is not checked again while it names the commit it was checked for.
\* Detect keeps this for branches (detect.go:94-103); the tag's condition is set to
\* False on every tick (detect.go:110-111).
NoCheckRepeated ==
    [][\A i \in GetConditionByStatus(conds, "checked", "True") \cap DOMAIN conds' :
          conds'[i].resolved = conds[i].resolved => conds'[i].status # "False"]_conds

\* What is recorded as uploaded has an image, or a build of that very commit was
\* reported as uploaded without one: results are stored under every revision of their
\* commit, by jobs that do not know of each other, and never under another commit
\* (check.go:110-123, upload.go:199-221).
UploadedIsPushed ==
    \A i \in GetConditionByStatus(conds, "uploaded", "True") :
        conds[i].resolved \in registry \cup claimed

\* A commit is taken care of: it has an image, or a build that is not canceled.
Served(commit) ==
    \/ commit \in registry
    \/ \E i \in GetCondition(conds, "uploaded") :
          conds[i].resolved = commit /\ conds[i].status # "canceled"

\* "Check existence, Build, and Push" (README.md:2): what counts as checked is
\* pushed or still to be built.  It holds for one branch, however its head moves,
\* and not for two that share a commit (detect.go:94-103).
CheckedIsServed ==
    \A i \in GetConditionByStatus(conds, "checked", "True") : Served(conds[i].resolved)

-----------------------------------------------------------------------------
(* The inductive invariant behind KeysUnique, CheckedIsBacked, the canceled *)
(* builds and NoLostCondition.                                             *)

\* What a check pod has still to do is what its copy, as edited so far, asks for.
CheckTodo(p) == check[p].todo = GetCheckInput(check[p].conds)

\* The builds an upload pod waits for have their conditions in its copy.
UploadTodo(p) ==
    \A build \in upload[p].todo :
        /\ build.at \in GetCondition(upload[p].conds, "uploaded")
        /\ upload[p].conds[build.at].resolved = build.tag

DetectInv ==
    \A d \in Detectors :
        /\ Sound(detect[d].conds)
        /\ d \in current => Preserves(conds, detect[d].conds)
        /\ detect[d].pc = "ensure" => \A k \in detect[d].todo : detect[d].file[k] \in Commits

CheckInv ==
    \A p \in CheckPods :
        /\ Sound(check[p].conds)
        /\ p \in current => Preserves(conds, check[p].conds)
        /\ CheckTodo(p)

UploadInv ==
    \A p \in UploadPods :
        /\ Sound(upload[p].conds)
        /\ p \in current => Preserves(conds, upload[p].conds)
        /\ UploadTodo(p)

\* The stored list and every private copy are sound; the copy of an actor in
\* current, the only one that can be written, preserves what is stored; what an
\* actor has still to do fits its copy.
IInv ==
    /\ TypeOK
    /\ Sound(conds)
    /\ DetectInv
    /\ CheckInv
    /\ UploadInv
=============================================================================
