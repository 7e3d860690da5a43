------------------------- MODULE ImageStatusProofs -------------------------
(***************************************************************************)
(* Theorems about ImageStatus, for every number of branches, commits,      *)
(* detectors and pods.                                                     *)
(* Each loop turn keeps a private copy sound, so a write, which replaces   *)
(* the stored list by a copy nobody has overtaken, keeps it sound too.     *)
(***************************************************************************)
EXTENDS ImageStatus, ConditionsProofs

-----------------------------------------------------------------------------
(* The invariant is inductive *)

\* A write leaves a sound list that preserves the one before, and outdates every
\* other copy when it changes the list.
LEMMA UpdateSound ==
    ASSUME Sound(conds), NEW actor, NEW new, Sound(new),
           actor \in current => Preserves(conds, new),
           Update(actor, new)
    PROVE  /\ Sound(conds')
           /\ Preserves(conds, conds')
           /\ current' \subseteq current \ {actor}
           /\ \A a \in current' : conds' = conds
BY PreservesItself DEF Update

\* Steps of one kind of actor leave the other kinds' part of the invariant alone.
LEMMA DetectFrame ==
    ASSUME DetectInv, UNCHANGED detect,
           \A a \in current' \cap Detectors : a \in current /\ conds' = conds
    PROVE  DetectInv'
BY DEF DetectInv

LEMMA CheckFrame ==
    ASSUME CheckInv, UNCHANGED check,
           \A a \in current' \cap CheckPods : a \in current /\ conds' = conds
    PROVE  CheckInv'
BY DEF CheckInv, CheckTodo

LEMMA UploadFrame ==
    ASSUME UploadInv, UNCHANGED upload,
           \A a \in current' \cap UploadPods : a \in current /\ conds' = conds
    PROVE  UploadInv'
BY DEF UploadInv, UploadTodo

LEMMA InitInv == Init => IInv
<1> SUFFICES ASSUME Init PROVE IInv
  OBVIOUS
<1> USE DEF Init
<1>1. TypeOK
  <2>1. <<>> \in Seq(StoredCondition)
    OBVIOUS
  <2>2. NoFile \in [Keys -> Commits \cup {None}]
    BY DEF NoFile
  <2>3. Sleeping \in DetectState
    BY <2>1, <2>2 DEF Sleeping, DetectState
  <2>4. Idle \in CheckState /\ Idle \in UploadState
    BY <2>1 DEF Idle, CheckState, UploadState
  <2> QED
    BY <2>1, <2>2, <2>3, <2>4 DEF TypeOK
<1>2. Sound(conds)
  BY EmptySound
<1>3. DetectInv
  BY EmptySound DEF DetectInv, Sleeping
<1>4. CheckInv
  BY EmptySound DEF CheckInv, CheckTodo, Idle
<1>5. UploadInv
  BY EmptySound DEF UploadInv, UploadTodo, Idle
<1> QED
  BY <1>1, <1>2, <1>3, <1>4, <1>5 DEF IInv

\* A step of detector d keeps the invariant when its new local state st is fit and
\* the stored list changes by a sound write at most.
LEMMA DetectLocal ==
    ASSUME IInv, NEW d \in Detectors, NEW st \in DetectState,
           detect' = [detect EXCEPT ![d] = st],
           Sound(st.conds),
           d \in current' => Preserves(conds', st.conds),
           st.pc = "ensure" => \A k \in st.todo : st.file[k] \in Commits,
           UNCHANGED <<heads, registry, claimed, check, upload>>,
           Sound(conds'),
           current' \subseteq current \cup {d},
           \A a \in current' \ {d} : conds' = conds
    PROVE  IInv'
<1>1. TypeOK'
  <2>1. conds' \in Seq(StoredCondition)
    BY DEF Sound
  <2>2. current' \subseteq Actors
    BY DEF IInv, TypeOK, Actors
  <2>3. detect' \in [Detectors -> DetectState]
    BY DEF IInv, TypeOK
  <2> QED
    BY <2>1, <2>2, <2>3 DEF IInv, TypeOK
<1>2. DetectInv'
  <2> SUFFICES ASSUME NEW e \in Detectors
               PROVE  /\ Sound(detect'[e].conds)
                      /\ e \in current' => Preserves(conds', detect'[e].conds)
                      /\ detect'[e].pc = "ensure" =>
                            \A k \in detect'[e].todo : detect'[e].file[k] \in Commits
    BY DEF DetectInv
  <2>1. detect'[e] = IF e = d THEN st ELSE detect[e]
    BY DEF IInv, TypeOK
  <2> QED
    BY <2>1 DEF IInv, DetectInv
<1>3. CheckInv' /\ UploadInv'
  BY CheckFrame, UploadFrame, ActorsAssumption DEF IInv
<1> QED
  BY <1>1, <1>2, <1>3 DEF IInv

LEMMA DetectKeepsInv ==
    ASSUME IInv, NEW d \in Detectors, DetectStep(d) \/ DetectFail(d)
    PROVE  IInv'
<1>1. /\ detect[d] \in DetectState
      /\ Sound(detect[d].conds) /\ Sound(conds) /\ Sleeping \in DetectState
      /\ conds \in Seq(StoredCondition)
      /\ heads \in [Keys -> Commits \cup {None}]
      /\ d \in current => Preserves(conds, detect[d].conds)
      /\ detect[d].pc = "ensure" =>
            \A k \in detect[d].todo : detect[d].file[k] \in Commits
  <2>1. <<>> \in Seq(StoredCondition)
    OBVIOUS
  <2> QED
    BY <2>1 DEF IInv, TypeOK, DetectInv, Sleeping, DetectState, NoFile
<1>2. Sound(Sleeping.conds) /\ Sleeping.pc # "ensure"
  BY EmptySound DEF Sleeping
<1>3. CASE DetectTick(d)
  <2> DEFINE st == [detect[d] EXCEPT !.pc = "fetch", !.todo = Keys]
  <2>1. /\ detect' = [detect EXCEPT ![d] = st]
        /\ UNCHANGED <<heads, registry, claimed, conds, current, check, upload>>
    BY <1>3 DEF DetectTick, IInv, TypeOK
  <2>2. st \in DetectState /\ st.conds = detect[d].conds /\ st.pc # "ensure"
    BY <1>1 DEF DetectState
  <2> HIDE DEF st
  <2> QED
    BY <1>1, <2>1, <2>2, DetectLocal
<1>4. ASSUME NEW k \in Keys, DetectFetch(d, k) PROVE IInv'
  <2> DEFINE st == [detect[d] EXCEPT !.file[k] = heads[k], !.todo = @ \ {k}]
  <2>1. /\ detect' = [detect EXCEPT ![d] = st]
        /\ UNCHANGED <<heads, registry, claimed, conds, current, check, upload>>
        /\ detect[d].pc = "fetch"
    BY <1>4 DEF DetectFetch, IInv, TypeOK
  <2>2. st \in DetectState /\ st.conds = detect[d].conds /\ st.pc # "ensure"
    BY <1>1, <2>1 DEF DetectState
  <2> HIDE DEF st
  <2> QED
    BY <1>1, <2>1, <2>2, DetectLocal
<1>5. CASE DetectGet(d)
  <2> DEFINE st == [detect[d] EXCEPT !.pc = "ensure",
                                     !.todo = {k \in Keys : detect[d].file[k] # None},
                                     !.conds = conds]
  <2>1. /\ detect' = [detect EXCEPT ![d] = st]
        /\ current' = current \cup {d}
        /\ UNCHANGED <<heads, registry, claimed, conds, check, upload>>
    BY <1>5 DEF DetectGet, IInv, TypeOK
  <2>2. /\ st \in DetectState /\ st.conds = conds
        /\ \A k \in st.todo : st.file[k] \in Commits
    BY <1>1 DEF DetectState
  <2> HIDE DEF st
  <2> QED
    BY <1>1, <2>1, <2>2, DetectLocal, PreservesItself
<1>6. ASSUME NEW b \in Branches, DetectBranch(d, b) PROVE IInv'
  <2> DEFINE new == EnsureBranch(detect[d].conds, b, detect[d].file[b])
             st  == [detect[d] EXCEPT !.todo = @ \ {b}, !.conds = new]
  <2>1. /\ detect' = [detect EXCEPT ![d] = st]
        /\ UNCHANGED <<heads, registry, claimed, conds, current, check, upload>>
        /\ detect[d].file[b] \in Commits
    BY <1>1, <1>6 DEF DetectBranch, IInv, TypeOK
  <2>2. Sound(new) /\ Preserves(detect[d].conds, new)
    BY <1>1, <2>1, EnsureBranchSound
  <2> HIDE DEF new
  <2>3. new \in Seq(StoredCondition)
    BY <2>2 DEF Sound
  <2>4. st \in DetectState /\ st.conds = new /\ st.pc = detect[d].pc
        /\ st.file = detect[d].file /\ st.todo \subseteq detect[d].todo
    BY <1>1, <2>3 DEF DetectState
  <2>5. d \in current => Preserves(conds, new)
    BY <1>1, <2>2, PreservesTransitive
  <2> HIDE DEF st
  <2> QED
    BY <1>1, <2>1, <2>2, <2>4, <2>5, DetectLocal
<1>7. ASSUME NEW t \in Tags, DetectTag(d, t) PROVE IInv'
  <2> DEFINE new == EnsureTag(detect[d].conds, detect[d].file[t])
             st  == [detect[d] EXCEPT !.todo = @ \ {t}, !.conds = new]
  <2>1. /\ detect' = [detect EXCEPT ![d] = st]
        /\ UNCHANGED <<heads, registry, claimed, conds, current, check, upload>>
        /\ detect[d].file[t] \in Commits
    BY <1>1, <1>7 DEF DetectTag, IInv, TypeOK
  <2>2. Sound(new) /\ Preserves(detect[d].conds, new)
    BY <1>1, <2>1, EnsureTagSound
  <2> HIDE DEF new
  <2>3. new \in Seq(StoredCondition)
    BY <2>2 DEF Sound
  <2>4. st \in DetectState /\ st.conds = new /\ st.pc = detect[d].pc
        /\ st.file = detect[d].file /\ st.todo \subseteq detect[d].todo
    BY <1>1, <2>3 DEF DetectState
  <2>5. d \in current => Preserves(conds, new)
    BY <1>1, <2>2, PreservesTransitive
  <2> HIDE DEF st
  <2> QED
    BY <1>1, <2>1, <2>2, <2>4, <2>5, DetectLocal
<1>8. CASE DetectWrite(d)
  <2>1. /\ detect' = [detect EXCEPT ![d] = Sleeping]
        /\ Update(d, detect[d].conds)
        /\ UNCHANGED <<heads, registry, claimed, check, upload>>
    BY <1>8 DEF DetectWrite
  <2>2. /\ Sound(conds')
        /\ current' \subseteq current \ {d}
        /\ \A a \in current' : conds' = conds
    BY <1>1, <2>1, UpdateSound
  <2> QED
    BY <1>1, <1>2, <2>1, <2>2, DetectLocal
<1>9. CASE DetectFail(d)
  <2>1. /\ detect' = [detect EXCEPT ![d] = Sleeping]
        /\ current' = current \ {d}
        /\ UNCHANGED <<heads, registry, claimed, conds, check, upload>>
    BY <1>9 DEF DetectFail
  <2> QED
    BY <1>1, <1>2, <2>1, DetectLocal
<1> QED
  BY <1>3, <1>4, <1>5, <1>6, <1>7, <1>8, <1>9 DEF DetectStep

\* The same for check pod p.
LEMMA CheckLocal ==
    ASSUME IInv, NEW p \in CheckPods, NEW st \in CheckState,
           check' = [check EXCEPT ![p] = st],
           Sound(st.conds),
           p \in current' => Preserves(conds', st.conds),
           st.todo = GetCheckInput(st.conds),
           UNCHANGED <<heads, detect, upload>>, registry' \subseteq Commits, claimed' \subseteq Commits,
           Sound(conds'),
           current' \subseteq current \cup {p},
           \A a \in current' \ {p} : conds' = conds
    PROVE  IInv'
<1>1. TypeOK'
  <2>1. conds' \in Seq(StoredCondition)
    BY DEF Sound
  <2>2. current' \subseteq Actors
    BY DEF IInv, TypeOK, Actors
  <2>3. check' \in [CheckPods -> CheckState]
    BY DEF IInv, TypeOK
  <2> QED
    BY <2>1, <2>2, <2>3 DEF IInv, TypeOK
<1>2. CheckInv'
  <2> SUFFICES ASSUME NEW q \in CheckPods
               PROVE  /\ Sound(check'[q].conds)
                      /\ q \in current' => Preserves(conds', check'[q].conds)
                      /\ CheckTodo(q)'
    BY DEF CheckInv
  <2>1. check'[q] = IF q = p THEN st ELSE check[q]
    BY DEF IInv, TypeOK
  <2> QED
    BY <2>1 DEF IInv, CheckInv, CheckTodo
<1>3. DetectInv' /\ UploadInv'
  BY DetectFrame, UploadFrame, ActorsAssumption DEF IInv
<1> QED
  BY <1>1, <1>2, <1>3 DEF IInv

LEMMA CheckKeepsInv ==
    ASSUME IInv, NEW p \in CheckPods, CheckStep(p) \/ CheckFail(p)
    PROVE  IInv'
<1>1. /\ check[p] \in CheckState
      /\ Sound(check[p].conds) /\ Sound(conds)
      /\ conds \in Seq(StoredCondition) /\ registry \subseteq Commits /\ claimed \subseteq Commits
      /\ p \in current => Preserves(conds, check[p].conds)
      /\ check[p].todo = GetCheckInput(check[p].conds)
  BY DEF IInv, TypeOK, CheckInv, CheckTodo
<1>2. /\ Idle \in CheckState /\ Sound(Idle.conds)
      /\ Idle.todo = GetCheckInput(Idle.conds)
  <2>1. <<>> \in Seq(StoredCondition)
    OBVIOUS
  <2> QED
    BY <2>1, EmptySound DEF Idle, CheckState
<1>3. CASE CheckGet(p)
  <2> DEFINE st == [pc |-> "run", todo |-> GetCheckInput(conds), conds |-> conds]
  <2>1. /\ check' = [check EXCEPT ![p] = st]
        /\ current' = current \cup {p}
        /\ UNCHANGED <<heads, registry, claimed, conds, detect, upload>>
    BY <1>3 DEF CheckGet
  <2>2. GetCheckInput(conds) \in SUBSET [at : Nat, revision : Revisions, resolved : Commits]
    <3>1. \A i \in DOMAIN conds : i \in Nat /\ conds[i] \in StoredCondition
      BY <1>1
    <3> QED
      BY <3>1 DEF GetCheckInput, Unchecked, GetConditionByStatus, GetCondition,
                  StoredCondition, ConditionOf
  <2>3. st \in CheckState /\ st.conds = conds /\ st.todo = GetCheckInput(conds)
    BY <1>1, <2>2 DEF CheckState
  <2> HIDE DEF st
  <2> QED
    BY <1>1, <2>1, <2>3, CheckLocal, PreservesItself
<1>4. ASSUME NEW rev \in check[p].todo, NEW exist \in {"True", "False"},
             CheckRevision(p, rev, exist)
      PROVE  IInv'
  <2> DEFINE new == RecordCheck(check[p].conds, rev, exist)
             st  == [check[p] EXCEPT !.todo = @ \ {rev}, !.conds = new]
  <2>1. /\ check' = [check EXCEPT ![p] = st]
        /\ UNCHANGED <<heads, registry, claimed, conds, current, detect, upload>>
        /\ \A other \in check[p].todo : rev.at <= other.at
    BY <1>4 DEF CheckRevision, IInv, TypeOK
  <2>2. /\ Sound(new) /\ Preserves(check[p].conds, new)
        /\ GetCheckInput(new) = GetCheckInput(check[p].conds) \ {rev}
    BY <1>1, <2>1, RecordCheckTurn
  <2> HIDE DEF new
  <2>3. new \in Seq(StoredCondition)
    BY <2>2 DEF Sound
  <2>4. st \in CheckState /\ st.conds = new /\ st.todo = check[p].todo \ {rev}
    BY <1>1, <2>3 DEF CheckState
  <2>5. p \in current => Preserves(conds, new)
    BY <1>1, <2>2, PreservesTransitive
  <2> HIDE DEF st
  <2> QED
    BY <1>1, <2>1, <2>2, <2>4, <2>5, CheckLocal
<1>5. CASE CheckWrite(p)
  <2>1. /\ check' = [check EXCEPT ![p] = Idle]
        /\ Update(p, check[p].conds)
        /\ UNCHANGED <<heads, registry, claimed, detect, upload>>
    BY <1>5 DEF CheckWrite
  <2>2. /\ Sound(conds')
        /\ current' \subseteq current \ {p}
        /\ \A a \in current' : conds' = conds
    BY <1>1, <2>1, UpdateSound
  <2> QED
    BY <1>1, <1>2, <2>1, <2>2, CheckLocal
<1>6. CASE CheckFail(p)
  <2>1. /\ check' = [check EXCEPT ![p] = Idle]
        /\ current' = current \ {p}
        /\ UNCHANGED <<heads, registry, claimed, conds, detect, upload>>
    BY <1>6 DEF CheckFail
  <2> QED
    BY <1>1, <1>2, <2>1, CheckLocal
<1> QED
  BY <1>3, <1>4, <1>5, <1>6 DEF CheckStep

\* The same for upload pod p.
LEMMA UploadLocal ==
    ASSUME IInv, NEW p \in UploadPods, NEW st \in UploadState,
           upload' = [upload EXCEPT ![p] = st],
           Sound(st.conds),
           p \in current' => Preserves(conds', st.conds),
           \A build \in st.todo : /\ build.at \in GetCondition(st.conds, "uploaded")
                                  /\ st.conds[build.at].resolved = build.tag,
           UNCHANGED <<heads, detect, check>>, registry' \subseteq Commits, claimed' \subseteq Commits,
           Sound(conds'),
           current' \subseteq current \cup {p},
           \A a \in current' \ {p} : conds' = conds
    PROVE  IInv'
<1>1. TypeOK'
  <2>1. conds' \in Seq(StoredCondition)
    BY DEF Sound
  <2>2. current' \subseteq Actors
    BY DEF IInv, TypeOK, Actors
  <2>3. upload' \in [UploadPods -> UploadState]
    BY DEF IInv, TypeOK
  <2> QED
    BY <2>1, <2>2, <2>3 DEF IInv, TypeOK
<1>2. UploadInv'
  <2> SUFFICES ASSUME NEW q \in UploadPods
               PROVE  /\ Sound(upload'[q].conds)
                      /\ q \in current' => Preserves(conds', upload'[q].conds)
                      /\ UploadTodo(q)'
    BY DEF UploadInv
  <2>1. upload'[q] = IF q = p THEN st ELSE upload[q]
    BY DEF IInv, TypeOK
  <2> QED
    BY <2>1 DEF IInv, UploadInv, UploadTodo
<1>3. DetectInv' /\ CheckInv'
  BY DetectFrame, CheckFrame, ActorsAssumption DEF IInv
<1> QED
  BY <1>1, <1>2, <1>3 DEF IInv

LEMMA UploadKeepsInv ==
    ASSUME IInv, NEW p \in UploadPods, UploadStep(p) \/ UploadFail(p)
    PROVE  IInv'
<1>1. /\ upload[p] \in UploadState
      /\ Sound(upload[p].conds) /\ Sound(conds)
      /\ conds \in Seq(StoredCondition) /\ registry \subseteq Commits /\ claimed \subseteq Commits
      /\ p \in current => Preserves(conds, upload[p].conds)
      /\ \A build \in upload[p].todo :
            /\ build.at \in GetCondition(upload[p].conds, "uploaded")
            /\ upload[p].conds[build.at].resolved = build.tag
  BY DEF IInv, TypeOK, UploadInv, UploadTodo
<1>2. Idle \in UploadState /\ Sound(Idle.conds) /\ Idle.todo = {}
  <2>1. <<>> \in Seq(StoredCondition)
    OBVIOUS
  <2> QED
    BY <2>1, EmptySound DEF Idle, UploadState
<1>3. CASE UploadGet(p)
  <2> DEFINE st == [pc |-> "run", todo |-> GetUploadInput(conds), conds |-> conds]
  <2>1. /\ upload' = [upload EXCEPT ![p] = st]
        /\ current' = current \cup {p}
        /\ UNCHANGED <<heads, registry, claimed, conds, detect, check>>
    BY <1>3 DEF UploadGet
  <2>2. /\ GetUploadInput(conds) \in SUBSET [at : Nat, tag : Commits]
        /\ \A build \in GetUploadInput(conds) :
              /\ build.at \in GetCondition(conds, "uploaded")
              /\ conds[build.at].resolved = build.tag
    <3>1. \A i \in DOMAIN conds : i \in Nat /\ conds[i] \in StoredCondition
      BY <1>1
    <3> QED
      BY <3>1 DEF GetUploadInput, Pending, GetCondition, StoredCondition, ConditionOf
  <2>3. st \in UploadState /\ st.conds = conds /\ st.todo = GetUploadInput(conds)
    BY <1>1, <2>2 DEF UploadState
  <2> HIDE DEF st
  <2> QED
    BY <1>1, <2>1, <2>2, <2>3, UploadLocal, PreservesItself
<1>4. ASSUME NEW build \in upload[p].todo, NEW outcome \in BuildOutcomes,
             UploadBuild(p, build, outcome)
      PROVE  IInv'
  <2> DEFINE new == RecordBuild(upload[p].conds, build.tag, outcome.status)
             st  == [upload[p] EXCEPT !.todo = @ \ {build}, !.conds = new]
  <2>1. /\ upload' = [upload EXCEPT ![p] = st]
        /\ UNCHANGED <<heads, conds, current, detect, check>>
        /\ registry' \subseteq registry \cup {build.tag}
        /\ claimed' \subseteq claimed \cup {build.tag}
    BY <1>4 DEF UploadBuild, IInv, TypeOK
  <2>2. /\ outcome.status \in {"True", "failed"}
        /\ build.tag \in Commits
    BY <1>1 DEF BuildOutcomes, UploadState
  <2>3. /\ build.at \in GetCondition(upload[p].conds, "uploaded")
        /\ new = RecordBuild(upload[p].conds, upload[p].conds[build.at].resolved,
                             outcome.status)
    BY <1>1
  <2> HIDE DEF new
  <2>4. /\ Sound(new) /\ Preserves(upload[p].conds, new)
        /\ SameBuilds(upload[p].conds, new)
    <3>1. Sound(upload[p].conds)
      BY <1>1
    <3> QED
      BY <2>2, <2>3, <3>1, RecordBuildSound
  <2>5. new \in Seq(StoredCondition)
    BY <2>4 DEF Sound
  <2>6. st \in UploadState /\ st.conds = new /\ st.todo = upload[p].todo \ {build}
    BY <1>1, <2>5 DEF UploadState
  <2>7. p \in current => Preserves(conds, new)
    BY <1>1, <2>4, PreservesTransitive
  <2> HIDE DEF st
  <2> QED
    <3>1. \A b \in st.todo : /\ b.at \in GetCondition(st.conds, "uploaded")
                             /\ st.conds[b.at].resolved = b.tag
      BY <1>1, <2>4, <2>6 DEF SameBuilds
    <3>2. registry' \subseteq Commits /\ claimed' \subseteq Commits
      BY <1>1, <2>1, <2>2
    <3> QED
      BY <1>1, <2>1, <2>4, <2>6, <2>7, <3>1, <3>2, UploadLocal
<1>5. CASE UploadWrite(p)
  <2>1. /\ upload' = [upload EXCEPT ![p] = Idle]
        /\ Update(p, upload[p].conds)
        /\ UNCHANGED <<heads, registry, claimed, detect, check>>
    BY <1>5 DEF UploadWrite
  <2>2. /\ Sound(conds')
        /\ current' \subseteq current \ {p}
        /\ \A a \in current' : conds' = conds
    BY <1>1, <2>1, UpdateSound
  <2> QED
    BY <1>1, <1>2, <2>1, <2>2, UploadLocal
<1>6. CASE UploadFail(p)
  <2>1. /\ upload' = [upload EXCEPT ![p] = Idle]
        /\ current' = current \ {p}
        /\ UNCHANGED <<heads, registry, claimed, conds, detect, check>>
    BY <1>6 DEF UploadFail
  <2> QED
    BY <1>1, <1>2, <2>1, UploadLocal
<1> QED
  BY <1>3, <1>4, <1>5, <1>6 DEF UploadStep

-----------------------------------------------------------------------------
(* The theorems *)

\* A push changes the repository, which no conjunct but the type mentions.
LEMMA PushKeepsInv ==
    ASSUME IInv, NEW k \in Keys, NEW c \in Commits, Push(k, c)
    PROVE  IInv'
<1>1. /\ heads' = [heads EXCEPT ![k] = c]
      /\ UNCHANGED <<registry, claimed, conds, current, detect, check, upload>>
  BY DEF Push
<1>2. TypeOK'
  BY <1>1 DEF IInv, TypeOK
<1>3. DetectInv' /\ CheckInv' /\ UploadInv' /\ Sound(conds')
  BY <1>1, DetectFrame, CheckFrame, UploadFrame DEF IInv
<1> QED
  BY <1>2, <1>3 DEF IInv

LEMMA NextKeepsInv == IInv /\ [Next]_vars => IInv'
<1> SUFFICES ASSUME IInv, [Next]_vars PROVE IInv'
  OBVIOUS
<1>1. CASE \E k \in Keys, c \in Commits : Push(k, c)
  BY <1>1, PushKeepsInv
<1>2. CASE \E d \in Detectors : DetectStep(d) \/ DetectFail(d)
  BY <1>2, DetectKeepsInv
<1>3. CASE \E p \in CheckPods : CheckStep(p) \/ CheckFail(p)
  BY <1>3, CheckKeepsInv
<1>4. CASE \E p \in UploadPods : UploadStep(p) \/ UploadFail(p)
  BY <1>4, UploadKeepsInv
<1>5. CASE UNCHANGED vars
  <2>1. UNCHANGED <<heads, registry, claimed, conds, current, detect, check, upload>>
    BY <1>5 DEF vars
  <2>2. TypeOK'
    BY <2>1 DEF IInv, TypeOK
  <2>3. DetectInv' /\ CheckInv' /\ UploadInv' /\ Sound(conds')
    BY <2>1, DetectFrame, CheckFrame, UploadFrame DEF IInv
  <2> QED
    BY <2>2, <2>3 DEF IInv
<1> QED
  BY <1>1, <1>2, <1>3, <1>4, <1>5 DEF Next

\* The stored list and every private copy stay sound, whatever the branches, tags
\* and commits, however many pods of each kind run, and however their reads, edits,
\* writes and crashes interleave.
THEOREM Invariance == Spec => []IInv
BY InitInv, NextKeepsInv, PTL DEF Spec

\* The variables keep their types: no pod stores a condition outside the ones the
\* setters can produce (image.go:481-580).
THEOREM TypeCorrectness == Spec => []TypeOK
<1>1. IInv => TypeOK
  BY DEF IInv
<1> QED
  BY <1>1, Invariance, PTL

\* The keys of the stored conditions stay unique, although the setters search by
\* (type, policy, revision), by commit or by both (image.go:466-580).
THEOREM KeysStayUnique == Spec => []KeysUnique
<1>1. IInv => KeysUnique
  BY DEF IInv, Sound, KeysUnique
<1> QED
  BY <1>1, Invariance, PTL

\* A commit that counts as checked has a build condition, although detect decides
\* that it does from another revision's condition (detect.go:94-100).
THEOREM CheckedStaysBacked == Spec => []CheckedIsBacked
<1>1. IInv => CheckedIsBacked
  BY DEF IInv, Sound, CheckedIsBacked
<1> QED
  BY <1>1, Invariance, PTL

\* No build of a commit that its branch has left stays pending, as long as no
\* branch is called "latest", the revision of the tag policy, whose condition the
\* cancellation would find first (image.go:413-427).
THEOREM StaleBuildsStayCanceled ==
    ASSUME "latest" \notin Branches
    PROVE  Spec => []StaleBuildsCanceled
<1>1. IInv => StaleBuildsCanceled
  BY DEF IInv, Sound, StaleBuildsCanceled
<1> QED
  BY <1>1, Invariance, PTL

\* A write is the only step that changes the stored list, and it preserves it.
LEMMA StepPreserves == IInv /\ [Next]_vars => Preserves(conds, conds')
<1> SUFFICES ASSUME IInv, [Next]_vars PROVE Preserves(conds, conds')
  OBVIOUS
<1>1. ASSUME NEW d \in Detectors, DetectWrite(d) PROVE Preserves(conds, conds')
  <2>1. /\ Sound(conds) /\ Sound(detect[d].conds)
        /\ d \in current => Preserves(conds, detect[d].conds)
    BY DEF IInv, DetectInv
  <2> QED
    BY <1>1, <2>1, UpdateSound DEF DetectWrite
<1>2. ASSUME NEW p \in CheckPods, CheckWrite(p) PROVE Preserves(conds, conds')
  <2>1. /\ Sound(conds) /\ Sound(check[p].conds)
        /\ p \in current => Preserves(conds, check[p].conds)
    BY DEF IInv, CheckInv
  <2> QED
    BY <1>2, <2>1, UpdateSound DEF CheckWrite
<1>3. ASSUME NEW p \in UploadPods, UploadWrite(p) PROVE Preserves(conds, conds')
  <2>1. /\ Sound(conds) /\ Sound(upload[p].conds)
        /\ p \in current => Preserves(conds, upload[p].conds)
    BY DEF IInv, UploadInv
  <2> QED
    BY <1>3, <2>1, UpdateSound DEF UploadWrite
<1>4. \/ UNCHANGED conds
      \/ \E d \in Detectors : DetectWrite(d)
      \/ \E p \in CheckPods : CheckWrite(p)
      \/ \E p \in UploadPods : UploadWrite(p)
  BY DEF Next, vars, Push, DetectStep, DetectTick, DetectFetch, DetectGet, DetectBranch,
     DetectTag, DetectFail, CheckStep, CheckGet, CheckRevision, CheckFail, UploadStep,
     UploadGet, UploadBuild, UploadFail
<1> QED
  BY <1>1, <1>2, <1>3, <1>4, PreservesItself

\* No accepted write loses, moves or renames a condition that another actor stored,
\* although every write replaces the whole list by a copy read long before: the
\* copies are kept apart by the resourceVersion alone.
THEOREM NothingLost == Spec => NoLostCondition
<1>1. IInv /\ [Next]_vars => [Preserves(conds, conds')]_conds
  BY StepPreserves
<1> QED
  BY <1>1, Invariance, PTL DEF Spec, NoLostCondition
=============================================================================
