--------------------------- MODULE RecordedProofs ---------------------------
(***************************************************************************)
(* What the status records of commits and images, for every number of      *)
(* branches, commits, detectors and pods: detect alone moves a revision to *)
(* another commit, what is recorded as uploaded was pushed, what is        *)
(* recorded as checked is not checked again, and with one branch it has a  *)
(* build.                                                                  *)
(***************************************************************************)
EXTENDS ImageStatusProofs

-----------------------------------------------------------------------------
(* The steps, by what they do to a private copy *)

LEMMA SameHeadsItself ==
    ASSUME NEW list
    PROVE  SameHeads(list, list)
BY DEF SameHeads

LEMMA SameHeadsTransitive ==
    ASSUME NEW list, NEW mid, NEW new, SameHeads(list, mid), SameHeads(mid, new)
    PROVE  SameHeads(list, new)
BY DEF SameHeads

\* A step of detector d that does not write: its copy is the stored list, or goes
\* through a turn that adds no success; or it is dropped.
LEMMA DetectCopies ==
    ASSUME IInv, NEW d \in Detectors, DetectStep(d) \/ DetectFail(d), ~DetectWrite(d)
    PROVE  /\ UNCHANGED <<registry, claimed, conds, check, upload>>
           /\ current' \subseteq current \cup {d}
           /\ \A e \in Detectors \ {d} : detect'[e] = detect[e]
           /\ \/ detect'[d].conds \in {conds, <<>>, detect[d].conds}
              \/ NewSuccesses(detect[d].conds, detect'[d].conds, {})
<1>1. /\ detect \in [Detectors -> DetectState] /\ Sound(detect[d].conds)
      /\ detect[d].pc = "ensure" =>
            \A k \in detect[d].todo : detect[d].file[k] \in Commits
  BY DEF IInv, TypeOK, DetectInv
<1>2. CASE DetectTick(d) \/ DetectGet(d) \/ DetectFail(d) \/ \E k \in Keys : DetectFetch(d, k)
  <2>1. CASE DetectTick(d)
    BY <1>1, <2>1 DEF DetectTick, DetectState
  <2>2. CASE DetectGet(d)
    BY <1>1, <2>2 DEF DetectGet, DetectState
  <2>3. CASE DetectFail(d)
    BY <1>1, <2>3 DEF DetectFail, Sleeping
  <2>4. ASSUME NEW k \in Keys, DetectFetch(d, k)
        PROVE  /\ UNCHANGED <<registry, claimed, conds, current, check, upload>>
               /\ \A e \in Detectors \ {d} : detect'[e] = detect[e]
               /\ detect'[d].conds = detect[d].conds
    BY <1>1, <2>4 DEF DetectFetch, DetectState
  <2> QED
    BY <1>2, <2>1, <2>2, <2>3, <2>4
<1>3. ASSUME NEW b \in Branches, DetectBranch(d, b)
      PROVE  NewSuccesses(detect[d].conds, detect'[d].conds, {})
  <2>1. /\ detect'[d].conds = EnsureBranch(detect[d].conds, b, detect[d].file[b])
        /\ detect[d].file[b] \in Commits
    BY <1>1, <1>3 DEF DetectBranch, DetectState
  <2> QED
    BY <1>1, <2>1, EnsureBranchSound
<1>4. ASSUME NEW t \in Tags, DetectTag(d, t)
      PROVE  NewSuccesses(detect[d].conds, detect'[d].conds, {})
  <2>1. /\ detect'[d].conds = EnsureTag(detect[d].conds, detect[d].file[t])
        /\ detect[d].file[t] \in Commits
    BY <1>1, <1>4 DEF DetectTag, DetectState
  <2> QED
    BY <1>1, <2>1, EnsureTagSound
<1>5. CASE (\E b \in Branches : DetectBranch(d, b)) \/ \E t \in Tags : DetectTag(d, t)
  <2>1. /\ UNCHANGED <<registry, claimed, conds, current, check, upload>>
        /\ \A e \in Detectors \ {d} : detect'[e] = detect[e]
    BY <1>1, <1>5 DEF DetectBranch, DetectTag
  <2> QED
    BY <1>3, <1>4, <1>5, <2>1
<1> QED
  BY <1>2, <1>5 DEF DetectStep

\* The same of a check pod: a turn keeps the heads, and what it adds is pushed.
LEMMA CheckCopies ==
    ASSUME IInv, NEW p \in CheckPods, CheckStep(p) \/ CheckFail(p), ~CheckWrite(p)
    PROVE  /\ UNCHANGED <<registry, claimed, conds, detect, upload>>
           /\ \A q \in CheckPods \ {p} : check'[q] = check[q]
           /\ \/ check'[p].conds = conds /\ current' = current \cup {p}
              \/ check'[p].conds = <<>> /\ current' = current \ {p}
              \/ /\ NewSuccesses(check[p].conds, check'[p].conds, registry)
                 /\ SameHeads(check[p].conds, check'[p].conds)
                 /\ KeepsBuilds(check[p].conds, check'[p].conds)
                 /\ UNCHANGED current
<1>1. /\ check \in [CheckPods -> CheckState] /\ Sound(check[p].conds)
      /\ check[p].todo = GetCheckInput(check[p].conds)
  BY DEF IInv, TypeOK, CheckInv, CheckTodo
<1>2. CASE CheckGet(p) \/ CheckFail(p)
  BY <1>1, <1>2 DEF CheckGet, CheckFail, Idle
<1>3. ASSUME NEW rev \in check[p].todo, NEW exist \in {"True", "False"},
             CheckRevision(p, rev, exist)
      PROVE  /\ NewSuccesses(check[p].conds, check'[p].conds, registry)
             /\ SameHeads(check[p].conds, check'[p].conds)
             /\ KeepsBuilds(check[p].conds, check'[p].conds)
             /\ UNCHANGED <<registry, claimed, conds, current, detect, upload>>
             /\ \A q \in CheckPods \ {p} : check'[q] = check[q]
  <2> DEFINE new == RecordCheck(check[p].conds, rev, exist)
  <2>1. /\ check'[p].conds = new
        /\ \A other \in check[p].todo : rev.at <= other.at
        /\ exist \in Answers(rev.resolved, registry)
        /\ UNCHANGED <<registry, claimed, conds, current, detect, upload>>
        /\ \A q \in CheckPods \ {p} : check'[q] = check[q]
    BY <1>1, <1>3 DEF CheckRevision, CheckState
  <2>2. /\ Preserves(check[p].conds, new)
        /\ NewSuccesses(check[p].conds, new, BuiltWith(exist, rev.resolved))
        /\ SameHeads(check[p].conds, new)
        /\ KeepsBuilds(check[p].conds, new)
    BY <1>1, <2>1, RecordCheckTurn
  <2>3. exist = "True" => rev.resolved \in registry
    BY <2>1 DEF Answers, parseExist, TagExists, get, ManifestReplies, Replies
  <2> HIDE DEF new
  <2>4. NewSuccesses(check[p].conds, new, registry)
    BY <2>2, <2>3 DEF NewSuccesses, BuiltWith
  <2> QED
    BY <2>1, <2>2, <2>4
<1> QED
  BY <1>2, <1>3 DEF CheckStep

\* And of an upload pod: what its builds report is pushed or claimed.
LEMMA UploadCopies ==
    ASSUME IInv, NEW p \in UploadPods, UploadStep(p) \/ UploadFail(p), ~UploadWrite(p)
    PROVE  /\ UNCHANGED <<conds, detect, check>>
           /\ registry \subseteq registry'
           /\ registry \cup claimed \subseteq registry' \cup claimed'
           /\ \A q \in UploadPods \ {p} : upload'[q] = upload[q]
           /\ \/ upload'[p].conds = conds /\ current' = current \cup {p}
              \/ upload'[p].conds = <<>> /\ current' = current \ {p}
              \/ /\ NewSuccesses(upload[p].conds, upload'[p].conds, registry' \cup claimed')
                 /\ SameHeads(upload[p].conds, upload'[p].conds)
                 /\ KeepsBuilds(upload[p].conds, upload'[p].conds)
                 /\ UNCHANGED current
<1>1. /\ upload \in [UploadPods -> UploadState] /\ Sound(upload[p].conds)
      /\ \A build \in upload[p].todo :
            /\ build.at \in GetCondition(upload[p].conds, "uploaded")
            /\ upload[p].conds[build.at].resolved = build.tag
  BY DEF IInv, TypeOK, UploadInv, UploadTodo
<1>2. CASE UploadGet(p) \/ UploadFail(p)
  BY <1>1, <1>2 DEF UploadGet, UploadFail, Idle
<1>3. ASSUME NEW build \in upload[p].todo, NEW outcome \in BuildOutcomes,
             UploadBuild(p, build, outcome)
      PROVE  /\ NewSuccesses(upload[p].conds, upload'[p].conds, registry' \cup claimed')
             /\ SameHeads(upload[p].conds, upload'[p].conds)
             /\ KeepsBuilds(upload[p].conds, upload'[p].conds)
             /\ UNCHANGED <<conds, current, detect, check>>
             /\ registry \subseteq registry'
             /\ registry \cup claimed \subseteq registry' \cup claimed'
           /\ registry \cup claimed \subseteq registry' \cup claimed'
             /\ \A q \in UploadPods \ {p} : upload'[q] = upload[q]
  <2> DEFINE new == RecordBuild(upload[p].conds, build.tag, outcome.status)
  <2>1. /\ upload'[p].conds = new
        /\ UNCHANGED <<conds, current, detect, check>>
        /\ registry' = IF outcome.pushed THEN registry \cup {build.tag} ELSE registry
        /\ claimed' = (IF outcome.status = "True" THEN claimed \cup {build.tag} ELSE claimed)
                         \ registry'
        /\ \A q \in UploadPods \ {p} : upload'[q] = upload[q]
    BY <1>1, <1>3 DEF UploadBuild, UploadState
  <2>2. outcome.status \in {"True", "failed"}
    BY DEF BuildOutcomes
  <2>3. /\ Preserves(upload[p].conds, new)
        /\ NewSuccesses(upload[p].conds, new, BuiltWith(outcome.status, build.tag))
        /\ SameHeads(upload[p].conds, new)
        /\ KeepsBuilds(upload[p].conds, new)
    <3>1. /\ build.at \in GetCondition(upload[p].conds, "uploaded")
          /\ upload[p].conds[build.at].resolved = build.tag
      BY <1>1
    <3> QED
      BY <1>1, <2>2, <3>1, RecordBuildSound
  <2> HIDE DEF new
  <2>4. /\ registry \subseteq registry'
        /\ registry \cup claimed \subseteq registry' \cup claimed'
        /\ outcome.status = "True" => build.tag \in registry' \cup claimed'
    BY <2>1
  <2>5. NewSuccesses(upload[p].conds, new, registry' \cup claimed')
    BY <2>3, <2>4 DEF NewSuccesses, BuiltWith
  <2> QED
    BY <2>1, <2>3, <2>4, <2>5
<1> QED
  BY <1>2, <1>3 DEF UploadStep

-----------------------------------------------------------------------------
(* What is recorded as uploaded was pushed, or reported as such *)

Reported == registry \cup claimed

Pushed(list, images) ==
    \A i \in GetConditionByStatus(list, "uploaded", "True") : list[i].resolved \in images

\* The inductive form of UploadedIsPushed: it holds of every copy, too.
PushedInv ==
    /\ Pushed(conds, Reported)
    /\ \A d \in Detectors : Pushed(detect[d].conds, Reported)
    /\ \A p \in CheckPods : Pushed(check[p].conds, Reported)
    /\ \A p \in UploadPods : Pushed(upload[p].conds, Reported)

\* Images are never removed, and a turn adds only successes that have one.
LEMMA PushedGrows ==
    ASSUME NEW list, NEW new, NEW images, NEW more, images \subseteq more,
           Pushed(list, images), NewSuccesses(list, new, more)
    PROVE  Pushed(new, more)
BY DEF Pushed, NewSuccesses

LEMMA PushedStays ==
    ASSUME NEW list, NEW images, NEW more, images \subseteq more, Pushed(list, images)
    PROVE  Pushed(list, more)
BY DEF Pushed

LEMMA EmptyPushed == ASSUME NEW images PROVE Pushed(<<>>, images)
BY DEF Pushed, GetConditionByStatus, GetCondition

\* A write stores a copy or nothing, and the writer drops its copy.
LEMMA WritePushed ==
    ASSUME PushedInv, NEW actor, NEW new, Pushed(new, Reported),
           Update(actor, new), UNCHANGED <<registry, claimed>>
    PROVE  Pushed(conds, Reported)'
BY DEF PushedInv, Update, Reported

LEMMA DetectPushed ==
    ASSUME IInv, PushedInv, NEW d \in Detectors, DetectStep(d) \/ DetectFail(d)
    PROVE  PushedInv'
<1>1. CASE DetectWrite(d)
  <2>1. /\ Update(d, detect[d].conds) /\ Pushed(detect[d].conds, Reported)
        /\ UNCHANGED <<registry, claimed, check, upload>>
        /\ detect' = [detect EXCEPT ![d] = Sleeping]
        /\ detect \in [Detectors -> DetectState]
    BY <1>1 DEF DetectWrite, PushedInv, IInv, TypeOK
  <2>2. Pushed(conds, Reported)'
    BY <2>1, WritePushed
  <2>3. \A e \in Detectors : detect'[e].conds \in {<<>>, detect[e].conds}
    BY <2>1 DEF Sleeping
  <2> QED
    BY <2>1, <2>2, <2>3, EmptyPushed DEF PushedInv, Reported
<1>2. CASE ~DetectWrite(d)
  <2>1. /\ UNCHANGED <<registry, claimed, conds, check, upload>>
        /\ \A e \in Detectors \ {d} : detect'[e] = detect[e]
        /\ \/ detect'[d].conds \in {conds, <<>>, detect[d].conds}
           \/ NewSuccesses(detect[d].conds, detect'[d].conds, {})
    BY <1>2, DetectCopies
  <2>2. Pushed(detect'[d].conds, Reported)
    <3>1. ASSUME NewSuccesses(detect[d].conds, detect'[d].conds, {})
          PROVE  NewSuccesses(detect[d].conds, detect'[d].conds, Reported)
      BY <3>1 DEF NewSuccesses
    <3> QED
      BY <2>1, <3>1, EmptyPushed, PushedGrows DEF PushedInv
  <2> QED
    BY <2>1, <2>2 DEF PushedInv, Reported
<1> QED
  BY <1>1, <1>2

LEMMA CheckPushed ==
    ASSUME IInv, PushedInv, NEW p \in CheckPods, CheckStep(p) \/ CheckFail(p)
    PROVE  PushedInv'
<1>1. CASE CheckWrite(p)
  <2>1. /\ Update(p, check[p].conds) /\ Pushed(check[p].conds, Reported)
        /\ UNCHANGED <<registry, claimed, detect, upload>>
        /\ check' = [check EXCEPT ![p] = Idle]
        /\ check \in [CheckPods -> CheckState]
    BY <1>1 DEF CheckWrite, PushedInv, IInv, TypeOK
  <2>2. Pushed(conds, Reported)'
    BY <2>1, WritePushed
  <2>3. \A q \in CheckPods : check'[q].conds \in {<<>>, check[q].conds}
    BY <2>1 DEF Idle
  <2> QED
    BY <2>1, <2>2, <2>3, EmptyPushed DEF PushedInv, Reported
<1>2. CASE ~CheckWrite(p)
  <2>1. /\ UNCHANGED <<registry, claimed, conds, detect, upload>>
        /\ \A q \in CheckPods \ {p} : check'[q] = check[q]
        /\ \/ check'[p].conds \in {conds, <<>>}
           \/ NewSuccesses(check[p].conds, check'[p].conds, registry)
    BY <1>2, CheckCopies
  <2>2. Pushed(check'[p].conds, Reported)
    <3>1. ASSUME NewSuccesses(check[p].conds, check'[p].conds, registry)
          PROVE  NewSuccesses(check[p].conds, check'[p].conds, Reported)
      BY <3>1 DEF NewSuccesses, Reported
    <3> QED
      BY <2>1, <3>1, EmptyPushed, PushedGrows DEF PushedInv
  <2> QED
    BY <2>1, <2>2 DEF PushedInv, Reported
<1> QED
  BY <1>1, <1>2

LEMMA UploadPushed ==
    ASSUME IInv, PushedInv, NEW p \in UploadPods, UploadStep(p) \/ UploadFail(p)
    PROVE  PushedInv'
<1>1. CASE UploadWrite(p)
  <2>1. /\ Update(p, upload[p].conds) /\ Pushed(upload[p].conds, Reported)
        /\ UNCHANGED <<registry, claimed, detect, check>>
        /\ upload' = [upload EXCEPT ![p] = Idle]
        /\ upload \in [UploadPods -> UploadState]
    BY <1>1 DEF UploadWrite, PushedInv, IInv, TypeOK
  <2>2. Pushed(conds, Reported)'
    BY <2>1, WritePushed
  <2>3. \A q \in UploadPods : upload'[q].conds \in {<<>>, upload[q].conds}
    BY <2>1 DEF Idle
  <2> QED
    BY <2>1, <2>2, <2>3, EmptyPushed DEF PushedInv, Reported
<1>2. CASE ~UploadWrite(p)
  <2>1. /\ UNCHANGED <<conds, detect, check>>
        /\ Reported \subseteq Reported'
        /\ \A q \in UploadPods \ {p} : upload'[q] = upload[q]
        /\ \/ upload'[p].conds \in {conds, <<>>}
           \/ NewSuccesses(upload[p].conds, upload'[p].conds, Reported')
    BY <1>2, UploadCopies DEF Reported
  <2>2. Pushed(upload'[p].conds, Reported')
    BY <2>1, EmptyPushed, PushedGrows, PushedStays DEF PushedInv
  <2> QED
    BY <2>1, <2>2, PushedStays DEF PushedInv
<1> QED
  BY <1>1, <1>2

\* What is recorded as uploaded has an image, or a build of that very commit was
\* reported as uploaded without one: no copying, storing under every revision, check
\* or conflict makes a success of another commit's (check.go:110-123,
\* upload.go:199-221).
THEOREM UploadsArePushed == Spec => []UploadedIsPushed
<1>1. Init => PushedInv
  BY EmptyPushed DEF Init, PushedInv, Sleeping, Idle
<1>2. IInv /\ PushedInv /\ [Next]_vars => PushedInv'
  <2> SUFFICES ASSUME IInv, PushedInv, [Next]_vars PROVE PushedInv'
    OBVIOUS
  <2>1. CASE UNCHANGED vars \/ \E k \in Keys, c \in Commits : Push(k, c)
    BY <2>1 DEF vars, Push, PushedInv, Reported
  <2>2. CASE \E d \in Detectors : DetectStep(d) \/ DetectFail(d)
    BY <2>2, DetectPushed
  <2>3. CASE \E p \in CheckPods : CheckStep(p) \/ CheckFail(p)
    BY <2>3, CheckPushed
  <2>4. CASE \E p \in UploadPods : UploadStep(p) \/ UploadFail(p)
    BY <2>4, UploadPushed
  <2> QED
    BY <2>1, <2>2, <2>3, <2>4 DEF Next
<1>3. PushedInv => UploadedIsPushed
  BY DEF PushedInv, Pushed, UploadedIsPushed, Reported
<1> QED
  BY <1>1, <1>2, <1>3, Invariance, PTL DEF Spec

-----------------------------------------------------------------------------
(* Detect alone moves a revision to another commit *)

\* The copy of a job's pod that could still be written has the stored heads.
HeadsInv ==
    /\ \A p \in CheckPods : p \in current => SameHeads(conds, check[p].conds)
    /\ \A p \in UploadPods : p \in current => SameHeads(conds, upload[p].conds)

\* An accepted write leaves no current copy, a refused one not the writer's.
LEMMA WriteHeads ==
    ASSUME HeadsInv, NEW actor, NEW new, Update(actor, new),
           \A p \in CheckPods \ {actor} : check'[p] = check[p],
           \A p \in UploadPods \ {actor} : upload'[p] = upload[p]
    PROVE  HeadsInv'
<1>1. CASE current' = {}
  BY <1>1 DEF HeadsInv
<1>2. CASE current' = current \ {actor} /\ UNCHANGED conds
  BY <1>2 DEF HeadsInv
<1> QED
  BY <1>1, <1>2 DEF Update

LEMMA DetectHeads ==
    ASSUME IInv, HeadsInv, NEW d \in Detectors, DetectStep(d) \/ DetectFail(d)
    PROVE  HeadsInv'
<1>1. CASE DetectWrite(d)
  <2>1. Update(d, detect[d].conds) /\ UNCHANGED <<check, upload>>
    BY <1>1 DEF DetectWrite
  <2> QED
    BY <2>1, WriteHeads
<1>2. CASE ~DetectWrite(d)
  <2>1. UNCHANGED <<conds, check, upload>> /\ current' \subseteq current \cup {d}
    BY <1>2, DetectCopies
  <2>2. d \notin CheckPods /\ d \notin UploadPods
    BY ActorsAssumption
  <2> QED
    BY <2>1, <2>2 DEF HeadsInv
<1> QED
  BY <1>1, <1>2

LEMMA CheckHeads ==
    ASSUME IInv, HeadsInv, NEW p \in CheckPods, CheckStep(p) \/ CheckFail(p)
    PROVE  HeadsInv'
<1>1. CASE CheckWrite(p)
  <2>1. /\ Update(p, check[p].conds) /\ UNCHANGED upload
        /\ \A q \in CheckPods \ {p} : check'[q] = check[q]
    BY <1>1 DEF CheckWrite, IInv, TypeOK
  <2> QED
    BY <2>1, WriteHeads
<1>2. CASE ~CheckWrite(p)
  <2>1. /\ UNCHANGED <<conds, upload>>
        /\ \A q \in CheckPods \ {p} : check'[q] = check[q]
        /\ current' \subseteq current \cup {p}
        /\ p \in current' => \/ check'[p].conds = conds
                             \/ /\ SameHeads(check[p].conds, check'[p].conds)
                                /\ p \in current
    BY <1>2, CheckCopies
  <2>2. p \in current' => SameHeads(conds, check'[p].conds)
    BY <2>1, SameHeadsItself, SameHeadsTransitive DEF HeadsInv
  <2>3. p \notin UploadPods
    BY ActorsAssumption
  <2> QED
    BY <2>1, <2>2, <2>3 DEF HeadsInv
<1> QED
  BY <1>1, <1>2

LEMMA UploadHeads ==
    ASSUME IInv, HeadsInv, NEW p \in UploadPods, UploadStep(p) \/ UploadFail(p)
    PROVE  HeadsInv'
<1>1. CASE UploadWrite(p)
  <2>1. /\ Update(p, upload[p].conds) /\ UNCHANGED check
        /\ \A q \in UploadPods \ {p} : upload'[q] = upload[q]
    BY <1>1 DEF UploadWrite, IInv, TypeOK
  <2> QED
    BY <2>1, WriteHeads
<1>2. CASE ~UploadWrite(p)
  <2>1. /\ UNCHANGED <<conds, check>>
        /\ \A q \in UploadPods \ {p} : upload'[q] = upload[q]
        /\ current' \subseteq current \cup {p}
        /\ p \in current' => \/ upload'[p].conds = conds
                             \/ /\ SameHeads(upload[p].conds, upload'[p].conds)
                                /\ p \in current
    BY <1>2, UploadCopies
  <2>2. p \in current' => SameHeads(conds, upload'[p].conds)
    BY <2>1, SameHeadsItself, SameHeadsTransitive DEF HeadsInv
  <2>3. p \notin CheckPods
    BY ActorsAssumption
  <2> QED
    BY <2>1, <2>2, <2>3 DEF HeadsInv
<1> QED
  BY <1>1, <1>2

\* The action ResolvedMovesByDetect states of a step.
HeadsMoveByDetect ==
    \A i \in GetCondition(conds, "checked") \cap DOMAIN conds' :
        conds'[i].resolved # conds[i].resolved =>
            \E d \in Detectors : /\ detect[d].pc = "ensure"
                                 /\ detect'[d].pc = "sleep"
                                 /\ detect[d].conds = conds'

\* The list changes in an accepted write only, and those of check and upload
\* jobs keep every head.
LEMMA HeadsMoveInDetectWrites ==
    ASSUME IInv, HeadsInv, Next
    PROVE  UNCHANGED conds \/ HeadsMoveByDetect
<1>1. CASE \E k \in Keys, c \in Commits : Push(k, c)
  BY <1>1 DEF Push
<1>2. ASSUME NEW d \in Detectors, DetectStep(d) \/ DetectFail(d)
      PROVE  UNCHANGED conds \/ HeadsMoveByDetect
  <2>1. CASE DetectWrite(d)
    <3>1. /\ detect[d].pc = "ensure" /\ Update(d, detect[d].conds)
          /\ detect' = [detect EXCEPT ![d] = Sleeping]
          /\ detect \in [Detectors -> DetectState]
      BY <2>1 DEF DetectWrite, IInv, TypeOK
    <3>2. detect'[d].pc = "sleep"
      BY <3>1 DEF Sleeping
    <3>3. UNCHANGED conds \/ conds' = detect[d].conds
      BY <3>1 DEF Update
    <3> QED
      BY <3>1, <3>2, <3>3 DEF HeadsMoveByDetect
  <2> QED
    BY <1>2, <2>1, DetectCopies
<1>3. ASSUME NEW p \in CheckPods, CheckStep(p) \/ CheckFail(p)
      PROVE  UNCHANGED conds \/ HeadsMoveByDetect
  <2>1. CASE CheckWrite(p)
    <3>1. UNCHANGED conds \/ (conds' = check[p].conds /\ p \in current)
      BY <2>1 DEF CheckWrite, Update
    <3>2. p \in current => SameHeads(conds, check[p].conds)
      BY DEF HeadsInv
    <3> QED
      BY <3>1, <3>2 DEF HeadsMoveByDetect, SameHeads
  <2> QED
    BY <1>3, <2>1, CheckCopies
<1>4. ASSUME NEW p \in UploadPods, UploadStep(p) \/ UploadFail(p)
      PROVE  UNCHANGED conds \/ HeadsMoveByDetect
  <2>1. CASE UploadWrite(p)
    <3>1. UNCHANGED conds \/ (conds' = upload[p].conds /\ p \in current)
      BY <2>1 DEF UploadWrite, Update
    <3>2. p \in current => SameHeads(conds, upload[p].conds)
      BY DEF HeadsInv
    <3> QED
      BY <3>1, <3>2 DEF HeadsMoveByDetect, SameHeads
  <2> QED
    BY <1>4, <2>1, UploadCopies
<1> QED
  BY <1>1, <1>2, <1>3, <1>4 DEF Next

LEMMA HeadsInvariance == Spec => []HeadsInv
<1>1. Init => HeadsInv
  BY DEF Init, HeadsInv
<1>2. IInv /\ HeadsInv /\ [Next]_vars => HeadsInv'
  <2> SUFFICES ASSUME IInv, HeadsInv, [Next]_vars PROVE HeadsInv'
    OBVIOUS
  <2>1. CASE UNCHANGED vars \/ \E k \in Keys, c \in Commits : Push(k, c)
    BY <2>1 DEF vars, Push, HeadsInv
  <2>2. CASE \E d \in Detectors : DetectStep(d) \/ DetectFail(d)
    BY <2>2, DetectHeads
  <2>3. CASE \E p \in CheckPods : CheckStep(p) \/ CheckFail(p)
    BY <2>3, CheckHeads
  <2>4. CASE \E p \in UploadPods : UploadStep(p) \/ UploadFail(p)
    BY <2>4, UploadHeads
  <2> QED
    BY <2>1, <2>2, <2>3, <2>4 DEF Next
<1> QED
  BY <1>1, <1>2, Invariance, PTL DEF Spec

\* No check or upload job, however old its copy, brings back a commit that detect
\* has replaced (image.go:481-543, check.go:110-123, upload.go:199-221).
THEOREM HeadsAreDetects == Spec => ResolvedMovesByDetect
<1>1. IInv /\ HeadsInv /\ [Next]_vars => [HeadsMoveByDetect]_conds
  BY HeadsMoveInDetectWrites DEF vars
<1>2. Spec => [][HeadsMoveByDetect]_conds
  BY <1>1, HeadsInvariance, Invariance, PTL DEF Spec
<1> QED
  BY <1>2, PTL DEF ResolvedMovesByDetect, HeadsMoveByDetect

-----------------------------------------------------------------------------
(* No check is repeated *)

\* The current copy of detector d: the turns it has left start from the stored
\* heads, and a condition that names its stored commit is as checked as there.
DetectorKeeps(d) ==
    LET copy == detect[d].conds
    IN  \A i \in GetCondition(conds, "checked") :
            /\ i \in GetCondition(copy, "checked")
            /\ copy[i].revision = conds[i].revision
            /\ conds[i].revision \in detect[d].todo => copy[i].resolved = conds[i].resolved
            /\ conds[i].status = "True" /\ copy[i].resolved = conds[i].resolved
                  => copy[i].status = "True"

CheckedInv ==
    \A d \in Detectors : d \in current /\ detect[d].pc = "ensure" => DetectorKeeps(d)

\* Other steps leave the copy alone, or make it stale.
LEMMA OthersKeep ==
    ASSUME CheckedInv, NEW actor,
           \A d \in Detectors \ {actor} : detect'[d] = detect[d],
           actor \in Detectors => actor \notin current',
           \/ UNCHANGED conds /\ current' \subseteq current \cup {actor}
           \/ current' = {}
    PROVE  CheckedInv'
BY DEF CheckedInv, DetectorKeeps

\* A turn over a branch, whose head is in the copy as it is stored.
LEMMA BranchKeeps ==
    ASSUME IInv, CheckedInv, NEW d \in Detectors, NEW b \in Branches, DetectBranch(d, b)
    PROVE  CheckedInv'
<1> DEFINE copy == detect[d].conds
           new  == detect'[d].conds
<1>1. /\ detect[d].pc = "ensure" /\ b \in detect[d].todo
      /\ detect \in [Detectors -> DetectState] /\ Sound(copy)
      /\ detect[d].file[b] \in Commits
  BY DEF DetectBranch, IInv, TypeOK, DetectInv
<1>2. /\ new = EnsureBranch(copy, b, detect[d].file[b])
      /\ detect'[d].todo = detect[d].todo \ {b}
      /\ \A e \in Detectors \ {d} : detect'[e] = detect[e]
      /\ UNCHANGED <<conds, current>>
  BY <1>1 DEF DetectBranch, DetectState
<1>3. /\ Preserves(copy, new)
      /\ HeadMoved(copy, new, b, detect[d].file[b])
  BY <1>1, <1>2, EnsureBranchSound
<1> HIDE DEF new
<1>4. ASSUME d \in current, NEW i \in GetCondition(conds, "checked")
      PROVE  /\ i \in GetCondition(new, "checked")
             /\ new[i].revision = conds[i].revision
             /\ conds[i].revision \in detect'[d].todo => new[i].resolved = conds[i].resolved
             /\ conds[i].status = "True" /\ new[i].resolved = conds[i].resolved
                   => new[i].status = "True"
  <2>1. /\ i \in GetCondition(copy, "checked")
        /\ copy[i].revision = conds[i].revision
        /\ conds[i].revision \in detect[d].todo => copy[i].resolved = conds[i].resolved
        /\ conds[i].status = "True" /\ copy[i].resolved = conds[i].resolved
              => copy[i].status = "True"
    BY <1>1, <1>4 DEF CheckedInv, DetectorKeeps
  <2>2. /\ i \in GetCondition(new, "checked")
        /\ new[i].revision = copy[i].revision
    BY <1>3, <2>1 DEF Preserves, GetCondition
  <2>3. CASE copy[i].tagPolicy = "branchHash" /\ copy[i].revision = b
    BY <1>1, <1>2, <1>3, <2>1, <2>2, <2>3 DEF HeadMoved
  <2>4. CASE ~(copy[i].tagPolicy = "branchHash" /\ copy[i].revision = b)
    BY <1>2, <1>3, <2>1, <2>2, <2>4 DEF HeadMoved
  <2> QED
    BY <2>3, <2>4
<1>5. d \in current => DetectorKeeps(d)'
  BY <1>2, <1>4 DEF DetectorKeeps, new
<1> QED
  BY <1>2, <1>5 DEF CheckedInv, DetectorKeeps

LEMMA DetectKeeps ==
    ASSUME Tags = {},
           IInv, CheckedInv, NEW d \in Detectors, DetectStep(d) \/ DetectFail(d)
    PROVE  CheckedInv'
<1>1. detect \in [Detectors -> DetectState]
  BY DEF IInv, TypeOK
<1>2. CASE DetectTick(d) \/ \E k \in Keys : DetectFetch(d, k)
  <2>1. /\ UNCHANGED <<conds, current>> /\ detect'[d].pc = "fetch"
        /\ \A e \in Detectors \ {d} : detect'[e] = detect[e]
    BY <1>1, <1>2 DEF DetectTick, DetectFetch, DetectState
  <2> QED
    BY <2>1 DEF CheckedInv, DetectorKeeps
<1>3. CASE DetectGet(d)
  <2>1. /\ UNCHANGED conds /\ detect'[d].conds = conds
        /\ current' = current \cup {d}
        /\ \A e \in Detectors \ {d} : detect'[e] = detect[e]
    BY <1>1, <1>3 DEF DetectGet, DetectState
  <2>2. DetectorKeeps(d)'
    BY <2>1 DEF DetectorKeeps
  <2> QED
    BY <2>1, <2>2 DEF CheckedInv, DetectorKeeps
<1>4. CASE DetectWrite(d) \/ DetectFail(d)
  <2>1. /\ \A e \in Detectors \ {d} : detect'[e] = detect[e]
        /\ d \notin current'
        /\ current' = {} \/ (UNCHANGED conds /\ current' \subseteq current)
    BY <1>1, <1>4 DEF DetectWrite, DetectFail, Update
  <2> QED
    BY <2>1, OthersKeep
<1>5. \A t \in Tags : ~DetectTag(d, t)
  OBVIOUS
<1> QED
  BY <1>2, <1>3, <1>4, <1>5, BranchKeeps DEF DetectStep

LEMMA JobsKeep ==
    ASSUME IInv, CheckedInv,
           \/ \E p \in CheckPods : CheckStep(p) \/ CheckFail(p)
           \/ \E p \in UploadPods : UploadStep(p) \/ UploadFail(p)
    PROVE  CheckedInv'
<1>1. ASSUME NEW p \in CheckPods, CheckStep(p) \/ CheckFail(p)
      PROVE  CheckedInv'
  <2>1. CASE CheckWrite(p)
    BY <2>1, OthersKeep, ActorsAssumption DEF CheckWrite, Update
  <2>2. CASE ~CheckWrite(p)
    <3>1. UNCHANGED <<conds, detect>> /\ current' \subseteq current \cup {p}
      BY <1>1, <2>2, CheckCopies
    <3> QED
      BY <3>1, OthersKeep, ActorsAssumption
  <2> QED
    BY <2>1, <2>2
<1>2. ASSUME NEW p \in UploadPods, UploadStep(p) \/ UploadFail(p)
      PROVE  CheckedInv'
  <2>1. CASE UploadWrite(p)
    BY <2>1, OthersKeep, ActorsAssumption DEF UploadWrite, Update
  <2>2. CASE ~UploadWrite(p)
    <3>1. UNCHANGED <<conds, detect>> /\ current' \subseteq current \cup {p}
      BY <1>2, <2>2, UploadCopies
    <3> QED
      BY <3>1, OthersKeep, ActorsAssumption
  <2> QED
    BY <2>1, <2>2
<1> QED
  BY <1>1, <1>2

\* The action NoCheckRepeated states of a step.
CheckedStaysChecked ==
    \A i \in GetConditionByStatus(conds, "checked", "True") \cap DOMAIN conds' :
        conds'[i].resolved = conds[i].resolved => conds'[i].status # "False"

\* What is written is a current copy: detect's keeps what is checked, those of
\* check and upload jobs every head.
LEMMA WritesKeepChecked ==
    ASSUME IInv, HeadsInv, CheckedInv, Next
    PROVE  UNCHANGED conds \/ CheckedStaysChecked
<1>1. CASE \E k \in Keys, c \in Commits : Push(k, c)
  BY <1>1 DEF Push
<1>2. ASSUME NEW d \in Detectors, DetectStep(d) \/ DetectFail(d)
      PROVE  UNCHANGED conds \/ CheckedStaysChecked
  <2>1. CASE DetectWrite(d)
    <3>1. detect[d].pc = "ensure"
      BY <2>1 DEF DetectWrite
    <3>2. UNCHANGED conds \/ (conds' = detect[d].conds /\ d \in current)
      BY <2>1 DEF DetectWrite, Update
    <3> QED
      BY <3>1, <3>2
      DEF CheckedStaysChecked, CheckedInv, DetectorKeeps, GetConditionByStatus, GetCondition
  <2> QED
    BY <1>2, <2>1, DetectCopies
<1>3. ASSUME NEW p \in CheckPods, CheckStep(p) \/ CheckFail(p)
      PROVE  UNCHANGED conds \/ CheckedStaysChecked
  <2>1. CASE CheckWrite(p)
    <3>1. UNCHANGED conds \/ (conds' = check[p].conds /\ p \in current)
      BY <2>1 DEF CheckWrite, Update
    <3> QED
      BY <3>1
      DEF CheckedStaysChecked, HeadsInv, SameHeads, GetConditionByStatus, GetCondition
  <2> QED
    BY <1>3, <2>1, CheckCopies
<1>4. ASSUME NEW p \in UploadPods, UploadStep(p) \/ UploadFail(p)
      PROVE  UNCHANGED conds \/ CheckedStaysChecked
  <2>1. CASE UploadWrite(p)
    <3>1. UNCHANGED conds \/ (conds' = upload[p].conds /\ p \in current)
      BY <2>1 DEF UploadWrite, Update
    <3> QED
      BY <3>1
      DEF CheckedStaysChecked, HeadsInv, SameHeads, GetConditionByStatus, GetCondition
  <2> QED
    BY <1>4, <2>1, UploadCopies
<1> QED
  BY <1>1, <1>2, <1>3, <1>4 DEF Next

\* Without a detected tag, a condition that is checked is not checked again while it
\* names the same commit, whoever writes (CHANGELOG v0.1.44, detect.go:89-107).
THEOREM ChecksNotRepeated == ASSUME Tags = {} PROVE Spec => NoCheckRepeated
<1>1. Init => CheckedInv
  BY DEF Init, CheckedInv
<1>2. IInv /\ CheckedInv /\ [Next]_vars => CheckedInv'
  <2> SUFFICES ASSUME IInv, CheckedInv, [Next]_vars PROVE CheckedInv'
    OBVIOUS
  <2>1. CASE UNCHANGED vars \/ \E k \in Keys, c \in Commits : Push(k, c)
    BY <2>1 DEF vars, Push, CheckedInv, DetectorKeeps
  <2>2. CASE \E d \in Detectors : DetectStep(d) \/ DetectFail(d)
    BY <2>2, DetectKeeps
  <2> QED
    BY <2>1, <2>2, JobsKeep DEF Next
<1>3. IInv /\ HeadsInv /\ CheckedInv /\ [Next]_vars => [CheckedStaysChecked]_conds
  BY WritesKeepChecked DEF vars
<1>4. Spec => [][CheckedStaysChecked]_conds
  BY <1>1, <1>2, <1>3, HeadsInvariance, Invariance, PTL DEF Spec
<1> QED
  BY <1>4, PTL DEF NoCheckRepeated, CheckedStaysChecked

-----------------------------------------------------------------------------
(* What counts as checked is pushed or still to be built: one branch *)

\* Only branches are asked for, and what is checked has an image or a build.
CheckedServed(list, images) ==
    /\ \A i \in GetCondition(list, "checked") : list[i].tagPolicy = "branchHash"
    /\ \A i \in GetConditionByStatus(list, "checked", "True") :
          \/ list[i].resolved \in images
          \/ \E j \in Alive(list) : list[j].resolved = list[i].resolved

\* The inductive form of CheckedIsServed: it holds of every copy, too.
ServedInv ==
    /\ CheckedServed(conds, registry)
    /\ \A d \in Detectors : CheckedServed(detect[d].conds, registry)
    /\ \A p \in CheckPods : CheckedServed(check[p].conds, registry)
    /\ \A p \in UploadPods : CheckedServed(upload[p].conds, registry)

LEMMA ServedStays ==
    ASSUME NEW list, NEW images, NEW more, images \subseteq more,
           CheckedServed(list, images)
    PROVE  CheckedServed(list, more)
BY DEF CheckedServed

LEMMA EmptyServed == ASSUME NEW images PROVE CheckedServed(<<>>, images)
BY DEF CheckedServed, GetConditionByStatus, GetCondition

\* A turn of a check or upload job cancels nothing.
LEMMA JobTurnServed ==
    ASSUME NEW list, NEW new, NEW images,
           CheckedServed(list, images), KeepsBuilds(list, new)
    PROVE  CheckedServed(new, images)
<1>1. \A i \in GetCondition(new, "checked") : new[i].tagPolicy = "branchHash"
  BY DEF CheckedServed, KeepsBuilds
<1>2. ASSUME NEW i \in GetConditionByStatus(new, "checked", "True")
      PROVE  \/ new[i].resolved \in images
             \/ \E j \in Alive(new) : new[j].resolved = new[i].resolved
  <2>1. CASE \E j \in Alive(new) : new[j].resolved = new[i].resolved
    BY <2>1
  <2>2. CASE /\ i \in GetConditionByStatus(list, "checked", "True")
             /\ new[i].resolved = list[i].resolved
    BY <2>2 DEF CheckedServed, KeepsBuilds
  <2> QED
    BY <2>1, <2>2 DEF KeepsBuilds
<1> QED
  BY <1>1, <1>2 DEF CheckedServed

\* A turn over the one branch cancels the builds of other commits only, and at its
\* end that branch's commit is the only one that can count as checked.
LEMMA BranchTurnServed ==
    ASSUME NEW b, Branches = {b}, NEW list, NEW new, NEW r, NEW images,
           CheckedServed(list, images), Keyed(new), BranchTurn(list, new, b, r)
    PROVE  CheckedServed(new, images)
<1>1. \A i \in GetCondition(new, "checked") :
         new[i].tagPolicy = "branchHash" /\ new[i].resolved = r
  BY DEF CheckedServed, BranchTurn, Keyed, Asked
<1>2. ASSUME NEW i \in GetConditionByStatus(new, "checked", "True")
      PROVE  \/ new[i].resolved \in images
             \/ \E j \in Alive(new) : new[j].resolved = new[i].resolved
  <2>1. new[i].resolved = r
    BY <1>1 DEF GetConditionByStatus
  <2>2. PICK k \in GetConditionByStatus(list, "checked", "True") : list[k].resolved = r
    BY <2>1 DEF BranchTurn
  <2>3. r \in images \/ \E j \in Alive(list) : list[j].resolved = r
    BY <2>2 DEF CheckedServed
  <2> QED
    BY <2>1, <2>3 DEF BranchTurn
<1> QED
  BY <1>1, <1>2 DEF CheckedServed

\* A write stores a copy or nothing.
LEMMA WriteServed ==
    ASSUME ServedInv, NEW actor, NEW new, CheckedServed(new, registry),
           Update(actor, new), UNCHANGED <<registry, claimed>>
    PROVE  CheckedServed(conds, registry)'
BY DEF ServedInv, Update

LEMMA DetectServed ==
    ASSUME Tags = {}, NEW b, Branches = {b},
           IInv, ServedInv, NEW d \in Detectors, DetectStep(d) \/ DetectFail(d)
    PROVE  ServedInv'
<1>1. /\ detect \in [Detectors -> DetectState] /\ Sound(detect[d].conds)
      /\ detect[d].pc = "ensure" =>
            \A k \in detect[d].todo : detect[d].file[k] \in Commits
  BY DEF IInv, TypeOK, DetectInv
<1>2. CASE DetectTick(d) \/ DetectGet(d) \/ DetectFail(d) \/ \E k \in Keys : DetectFetch(d, k)
  <2>1. /\ UNCHANGED <<registry, claimed, conds, check, upload>>
        /\ \A e \in Detectors : detect'[e].conds \in {detect[e].conds, conds, <<>>}
    <3>1. UNCHANGED <<registry, claimed, conds, check, upload>>
      BY <1>2 DEF DetectTick, DetectGet, DetectFetch, DetectFail
    <3>2. \A e \in Detectors \ {d} : detect'[e] = detect[e]
      BY <1>1, <1>2 DEF DetectTick, DetectGet, DetectFetch, DetectFail
    <3>3. detect'[d].conds \in {detect[d].conds, conds, <<>>}
      <4>1. CASE DetectTick(d)
        BY <1>1, <4>1 DEF DetectTick, DetectState
      <4>2. CASE DetectGet(d)
        BY <1>1, <4>2 DEF DetectGet, DetectState
      <4>3. CASE DetectFail(d)
        BY <1>1, <4>3 DEF DetectFail, Sleeping
      <4>4. ASSUME NEW k \in Keys, DetectFetch(d, k)
            PROVE  detect'[d].conds = detect[d].conds
        BY <1>1, <4>4 DEF DetectFetch, DetectState
      <4> QED
        BY <1>2, <4>1, <4>2, <4>3, <4>4
    <3> QED
      BY <3>1, <3>2, <3>3
  <2> QED
    BY <2>1, EmptyServed DEF ServedInv
<1>3. CASE DetectBranch(d, b)
  <2>1. /\ UNCHANGED <<registry, claimed, conds, check, upload>>
        /\ \A e \in Detectors \ {d} : detect'[e] = detect[e]
        /\ detect'[d].conds = EnsureBranch(detect[d].conds, b, detect[d].file[b])
        /\ detect[d].file[b] \in Commits
    BY <1>1, <1>3 DEF DetectBranch, DetectState
  <2>2. /\ Sound(detect'[d].conds)
        /\ BranchTurn(detect[d].conds, detect'[d].conds, b, detect[d].file[b])
    BY <1>1, <2>1, EnsureBranchSound
  <2>3. CheckedServed(detect'[d].conds, registry)
    BY <2>2, BranchTurnServed DEF ServedInv, Sound
  <2> QED
    BY <2>1, <2>3 DEF ServedInv
<1>4. CASE DetectWrite(d)
  <2>1. /\ Update(d, detect[d].conds) /\ CheckedServed(detect[d].conds, registry)
        /\ UNCHANGED <<registry, claimed, check, upload>>
        /\ \A e \in Detectors : detect'[e].conds \in {<<>>, detect[e].conds}
    BY <1>1, <1>4 DEF DetectWrite, ServedInv, Sleeping
  <2> QED
    BY <2>1, WriteServed, EmptyServed DEF ServedInv
<1>5. \A t \in Tags : ~DetectTag(d, t)
  OBVIOUS
<1> QED
  BY <1>2, <1>3, <1>4, <1>5 DEF DetectStep

LEMMA CheckServed ==
    ASSUME IInv, ServedInv, NEW p \in CheckPods, CheckStep(p) \/ CheckFail(p)
    PROVE  ServedInv'
<1>1. CASE CheckWrite(p)
  <2>1. /\ Update(p, check[p].conds) /\ CheckedServed(check[p].conds, registry)
        /\ UNCHANGED <<registry, claimed, detect, upload>>
        /\ check' = [check EXCEPT ![p] = Idle]
        /\ check \in [CheckPods -> CheckState]
    BY <1>1 DEF CheckWrite, ServedInv, IInv, TypeOK
  <2>2. \A q \in CheckPods : check'[q].conds \in {<<>>, check[q].conds}
    BY <2>1 DEF Idle
  <2> QED
    BY <2>1, <2>2, WriteServed, EmptyServed DEF ServedInv
<1>2. CASE ~CheckWrite(p)
  <2>1. /\ UNCHANGED <<registry, claimed, conds, detect, upload>>
        /\ \A q \in CheckPods \ {p} : check'[q] = check[q]
        /\ \/ check'[p].conds \in {conds, <<>>}
           \/ KeepsBuilds(check[p].conds, check'[p].conds)
    BY <1>2, CheckCopies
  <2>2. CheckedServed(check'[p].conds, registry)
    BY <2>1, EmptyServed, JobTurnServed DEF ServedInv
  <2> QED
    BY <2>1, <2>2 DEF ServedInv
<1> QED
  BY <1>1, <1>2

LEMMA UploadServed ==
    ASSUME IInv, ServedInv, NEW p \in UploadPods, UploadStep(p) \/ UploadFail(p)
    PROVE  ServedInv'
<1>1. CASE UploadWrite(p)
  <2>1. /\ Update(p, upload[p].conds) /\ CheckedServed(upload[p].conds, registry)
        /\ UNCHANGED <<registry, claimed, detect, check>>
        /\ upload' = [upload EXCEPT ![p] = Idle]
        /\ upload \in [UploadPods -> UploadState]
    BY <1>1 DEF UploadWrite, ServedInv, IInv, TypeOK
  <2>2. \A q \in UploadPods : upload'[q].conds \in {<<>>, upload[q].conds}
    BY <2>1 DEF Idle
  <2> QED
    BY <2>1, <2>2, WriteServed, EmptyServed DEF ServedInv
<1>2. CASE ~UploadWrite(p)
  <2>1. /\ UNCHANGED <<conds, detect, check>>
        /\ registry \subseteq registry'
        /\ \A q \in UploadPods \ {p} : upload'[q] = upload[q]
        /\ \/ upload'[p].conds \in {conds, <<>>}
           \/ KeepsBuilds(upload[p].conds, upload'[p].conds)
    BY <1>2, UploadCopies
  <2>2. CheckedServed(upload'[p].conds, registry)
    BY <2>1, EmptyServed, JobTurnServed DEF ServedInv
  <2> QED
    BY <2>1, <2>2, ServedStays DEF ServedInv
<1> QED
  BY <1>1, <1>2

\* With one branch and no detected tag, what counts as checked has an image or a build
\* that is not canceled, however the head moves, whatever builds report and however
\* writes interleave (detect.go:89-107, image.go:481-543).
THEOREM OneBranchServed ==
    ASSUME Tags = {}, NEW b, Branches = {b}
    PROVE  Spec => []CheckedIsServed
<1>1. Init => ServedInv
  BY EmptyServed DEF Init, ServedInv, Sleeping, Idle
<1>2. IInv /\ ServedInv /\ [Next]_vars => ServedInv'
  <2> SUFFICES ASSUME IInv, ServedInv, [Next]_vars PROVE ServedInv'
    OBVIOUS
  <2>1. CASE UNCHANGED vars \/ \E k \in Keys, c \in Commits : Push(k, c)
    BY <2>1 DEF vars, Push, ServedInv
  <2>2. CASE \E d \in Detectors : DetectStep(d) \/ DetectFail(d)
    BY <2>2, DetectServed
  <2>3. CASE \E p \in CheckPods : CheckStep(p) \/ CheckFail(p)
    BY <2>3, CheckServed
  <2>4. CASE \E p \in UploadPods : UploadStep(p) \/ UploadFail(p)
    BY <2>4, UploadServed
  <2> QED
    BY <2>1, <2>2, <2>3, <2>4 DEF Next
<1>3. ServedInv => CheckedIsServed
  BY DEF ServedInv, CheckedServed, CheckedIsServed, Served, Alive
<1> QED
  BY <1>1, <1>2, <1>3, Invariance, PTL DEF Spec
=============================================================================
