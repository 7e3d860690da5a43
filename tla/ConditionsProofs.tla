-------------------------- MODULE ConditionsProofs --------------------------
(***************************************************************************)
(* What the operators on condition lists return and preserve, for every    *)
(* list: the setters, one turn of each loop, and the loops as a whole.     *)
(* The invariance proofs of ImageStatus and Reconcile rest on these.       *)
(***************************************************************************)
EXTENDS StatusLists, FiniteSetTheorems, TLAPS

\* A set of positions has a first one.  (The intervals 1..i, ordered by strict
\* inclusion, have a minimal element.)
LEMMA LeastExists ==
    ASSUME NEW S \in SUBSET (Nat \ {0}), S # {}
    PROVE  \E x \in S : \A y \in S : x <= y
<1> DEFINE T == {1..i : i \in S}
<1>1. T \subseteq FiniteSubsetsOf(Nat) /\ T # {}
  <2>1. ASSUME NEW i \in S PROVE IsFiniteSet(1..i) /\ 1..i \in SUBSET Nat
    BY FS_Interval
  <2> QED
    BY <2>1 DEF FiniteSubsetsOf
<1>2. IsWellFoundedOn(StrictSubsetOrdering(Nat), FiniteSubsetsOf(Nat))
  BY FS_StrictSubsetOrderingWellFounded
<1> HIDE DEF T
<1>3. PICK I \in T : \A J \in T : <<J, I>> \notin StrictSubsetOrdering(Nat)
  BY <1>1, <1>2, WFMin
<1>4. PICK x \in S : I = 1..x
  BY <1>3 DEF T
<1>5. ASSUME NEW y \in S PROVE x <= y
  <2>1. SUFFICES ASSUME y < x PROVE FALSE
    OBVIOUS
  <2>2. 1..y \in T
    BY DEF T
  <2>3. 1..y \subseteq 1..x /\ x \in 1..x /\ x \notin 1..y
    BY <2>1
  <2>4. 1..y \in SUBSET Nat /\ 1..x \in SUBSET Nat
    OBVIOUS
  <2>5. <<1..y, 1..x>> \in StrictSubsetOrdering(Nat)
    BY <2>3, <2>4 DEF StrictSubsetOrdering
  <2> QED
    BY <1>3, <1>4, <2>2, <2>5
<1> QED
  BY <1>5

\* FirstOf finds the first position there is, and 0 stands for none.
LEMMA FirstOfIsFirst ==
    ASSUME NEW S \in SUBSET (Nat \ {0})
    PROVE  /\ S = {} <=> FirstOf(S) = 0
           /\ S # {} => /\ FirstOf(S) \in S
                        /\ \A i \in S : FirstOf(S) <= i
<1>1. CASE S = {}
  BY <1>1 DEF FirstOf
<1>2. CASE S # {}
  <2>1. PICK x \in S : \A y \in S : x <= y
    BY <1>2, LeastExists
  <2>2. Min(S) \in S /\ \A y \in S : Min(S) <= y
    BY <2>1 DEF Min
  <2> QED
    BY <1>2, <2>2 DEF FirstOf
<1> QED
  BY <1>1, <1>2

-----------------------------------------------------------------------------
(* The setters *)

\* GetConditionBy finds the first condition at a place, 0 when there is none.
LEMMA GetConditionByFirst ==
    ASSUME NEW R, NEW K, NEW conds \in Seq(ConditionOf(R, K)),
           NEW type, NEW policy, NEW revision,
           NEW g, g = GetConditionBy(conds, type, policy, revision)
    PROVE  \/ /\ g = 0
              /\ \A i \in DOMAIN conds : ~SamePlace(conds[i], type, policy, revision)
           \/ /\ g \in DOMAIN conds
              /\ SamePlace(conds[g], type, policy, revision)
<1> DEFINE S == {i \in DOMAIN conds : SamePlace(conds[i], type, policy, revision)}
<1>1. S \in SUBSET (Nat \ {0}) /\ g = FirstOf(S)
  BY DEF GetConditionBy
<1>2. S = {} <=> FirstOf(S) = 0
  BY <1>1, FirstOfIsFirst
<1>3. S # {} => FirstOf(S) \in S
  BY <1>1, FirstOfIsFirst
<1> QED
  BY <1>1, <1>2, <1>3

\* The position at which SetCondition stores a condition.
PlaceOf(conds, type, policy, revision) ==
    LET g == GetConditionBy(conds, type, policy, revision)
    IN  IF g = 0 THEN Len(conds) + 1 ELSE g

\* The list new is conds with cond stored at position m, a position with the same
\* key or a new one when no condition has the key.
StoredAt(conds, new, m, cond) ==
    /\ DOMAIN new = DOMAIN conds \cup {m}
    /\ new[m] = cond
    /\ \A i \in DOMAIN conds \ {m} : new[i] = conds[i]
    /\ m \in DOMAIN conds =>
          SamePlace(conds[m], cond.type, cond.tagPolicy, cond.revision)
    /\ m \notin DOMAIN conds =>
          \A i \in DOMAIN conds :
             ~SamePlace(conds[i], cond.type, cond.tagPolicy, cond.revision)

\* SetCondition changes one position.
LEMMA SetConditionResult ==
    ASSUME NEW R, NEW K, NEW conds \in Seq(ConditionOf(R, K)),
           NEW cond \in ConditionOf(R, K)
    PROVE  /\ SetCondition(conds, cond) \in Seq(ConditionOf(R, K))
           /\ StoredAt(conds, SetCondition(conds, cond),
                       PlaceOf(conds, cond.type, cond.tagPolicy, cond.revision), cond)
<1> DEFINE new == SetCondition(conds, cond)
           m   == PlaceOf(conds, cond.type, cond.tagPolicy, cond.revision)
           g   == GetConditionBy(conds, cond.type, cond.tagPolicy, cond.revision)
<1>1. \/ /\ g = 0
         /\ \A i \in DOMAIN conds :
               ~SamePlace(conds[i], cond.type, cond.tagPolicy, cond.revision)
      \/ /\ g \in DOMAIN conds
         /\ SamePlace(conds[g], cond.type, cond.tagPolicy, cond.revision)
  BY GetConditionByFirst
<1>2. /\ new = IF g = 0 THEN Append(conds, cond) ELSE [conds EXCEPT ![g] = cond]
      /\ m = IF g = 0 THEN Len(conds) + 1 ELSE g
  BY DEF SetCondition, PlaceOf
<1> HIDE DEF g, new, m
<1>3. CASE g = 0
  <2>1. new = Append(conds, cond) /\ new \in Seq(ConditionOf(R, K))
    BY <1>2, <1>3
  <2>2. m \notin DOMAIN conds /\ DOMAIN new = DOMAIN conds \cup {m}
    BY <1>2, <1>3, <2>1
  <2>3. new[m] = cond /\ \A i \in DOMAIN conds \ {m} : new[i] = conds[i]
    BY <1>2, <1>3, <2>1
  <2>4. \A i \in DOMAIN conds :
            ~SamePlace(conds[i], cond.type, cond.tagPolicy, cond.revision)
    BY <1>1, <1>3
  <2> QED
    BY <2>1, <2>2, <2>3, <2>4 DEF new, m, StoredAt
<1>4. CASE g \in DOMAIN conds
  <2>1. g # 0 /\ m = g
    BY <1>2, <1>4
  <2>2. new = [conds EXCEPT ![g] = cond] /\ new \in Seq(ConditionOf(R, K))
    BY <1>2, <1>4, <2>1
  <2>3. DOMAIN new = DOMAIN conds /\ new[g] = cond
    BY <1>4, <2>2
  <2>4. \A i \in DOMAIN conds \ {m} : new[i] = conds[i]
    BY <1>4, <2>1, <2>2
  <2>5. SamePlace(conds[m], cond.type, cond.tagPolicy, cond.revision)
    BY <1>1, <2>1
  <2> QED
    BY <1>4, <2>1, <2>2, <2>3, <2>4, <2>5 DEF new, m, StoredAt
<1> QED
  BY <1>1, <1>3, <1>4

\* UpdateCondition with a status leaves exactly the condition it was given at one
\* position, which had the same key or is new.
LEMMA UpdateConditionResult ==
    ASSUME NEW R, NEW K, NEW conds \in Seq(ConditionOf(R, K)),
           NEW type \in Types, NEW status \in Statuses, NEW policy \in Policies,
           NEW revision \in R, NEW resolved \in K
    PROVE  /\ UpdateCondition(conds, type, status, policy, revision, resolved)
                 \in Seq(ConditionOf(R, K))
           /\ StoredAt(conds,
                       UpdateCondition(conds, type, status, policy, revision, resolved),
                       PlaceOf(conds, type, policy, revision),
                       Condition(type, status, policy, revision, resolved))
<1> DEFINE cond == Condition(type, status, policy, revision, resolved)
<1>1. cond \in ConditionOf(R, K)
  BY DEF Condition, ConditionOf
<1>2. cond.type = type /\ cond.tagPolicy = policy /\ cond.revision = revision
  BY DEF Condition
<1>3. status # NoStatus
  BY DEF Statuses, NoStatus
<1>4. UpdateCondition(conds, type, status, policy, revision, resolved)
         = SetCondition(conds, cond)
  BY <1>3 DEF UpdateCondition
<1> HIDE DEF cond
<1>5. /\ SetCondition(conds, cond) \in Seq(ConditionOf(R, K))
      /\ StoredAt(conds, SetCondition(conds, cond),
                  PlaceOf(conds, cond.type, cond.tagPolicy, cond.revision), cond)
  BY <1>1, SetConditionResult
<1> QED
  BY <1>2, <1>4, <1>5 DEF cond

\* The loop of MarkUploadConditionAsCanceled changes nothing but statuses, and
\* those to "canceled" only: it cancels the checked conditions at the place, and
\* the builds of other commits that the first checked condition of the revision
\* names.
LEMMA MarkResult ==
    ASSUME NEW R, NEW K, NEW conds \in Seq(ConditionOf(R, K)),
           NEW policy, NEW revision, NEW resolved,
           NEW new, new = MarkUploadConditionAsCanceled(conds, policy, revision, resolved)
    PROVE  /\ new \in Seq(ConditionOf(R, K))
           /\ DOMAIN new = DOMAIN conds
           /\ \A i \in DOMAIN conds :
                 /\ \/ new[i] = conds[i]
                    \/ new[i] = [conds[i] EXCEPT !.status = "canceled"]
                 /\ SamePlace(conds[i], "checked", policy, revision)
                       => new[i].status = "canceled"
                 /\ conds[i].type = "checked" /\ new[i] # conds[i]
                       => SamePlace(conds[i], "checked", policy, revision)
                 /\ conds[i].type = "uploaded" /\ conds[i].resolved = resolved
                       => new[i] = conds[i]
<1> DEFINE k == GetConditionByRevision(conds, "checked", revision)
           Superseded(i) ==
              /\ conds[i].type = "uploaded"
              /\ conds[i].revision = revision
              /\ conds[i].resolved # resolved
              /\ k # 0
              /\ conds[k].tagPolicy = policy
              /\ conds[k].resolved = conds[i].resolved
              /\ k < i \/ conds[k].status # "Unknown"
           Hit(i) == Superseded(i) \/ SamePlace(conds[i], "checked", policy, revision)
<1>1. new = [i \in DOMAIN conds |->
               IF Hit(i) THEN [conds[i] EXCEPT !.status = "canceled"] ELSE conds[i]]
  BY DEF MarkUploadConditionAsCanceled
<1>2. \A i \in DOMAIN conds : conds[i].type = "checked" /\ Hit(i)
                                => SamePlace(conds[i], "checked", policy, revision)
  OBVIOUS
<1>3. \A i \in DOMAIN conds : SamePlace(conds[i], "checked", policy, revision) => Hit(i)
  OBVIOUS
<1>4. \A i \in DOMAIN conds :
         conds[i].type = "uploaded" /\ conds[i].resolved = resolved => ~Hit(i)
  BY DEF SamePlace
<1> HIDE DEF Hit
<1>5. \A i \in DOMAIN conds : conds[i] \in ConditionOf(R, K)
  OBVIOUS
<1>6. \A i \in DOMAIN conds :
         /\ [conds[i] EXCEPT !.status = "canceled"] \in ConditionOf(R, K)
         /\ [conds[i] EXCEPT !.status = "canceled"].status = "canceled"
  BY <1>5 DEF ConditionOf, Statuses
<1>7. new \in [1..Len(conds) -> ConditionOf(R, K)]
  BY <1>1, <1>5, <1>6
<1>8. new \in Seq(ConditionOf(R, K)) /\ DOMAIN new = DOMAIN conds
  BY <1>7
<1> QED
  BY <1>1, <1>2, <1>3, <1>6, <1>8, <1>4

\* A pending build is canceled when the only checked condition of its revision has
\* been answered, names the build's commit, and the revision moves on.
LEMMA MarkCancelsStale ==
    ASSUME NEW R, NEW K, NEW conds \in Seq(ConditionOf(R, K)),
           NEW policy, NEW revision, NEW resolved,
           NEW k \in DOMAIN conds,
           SamePlace(conds[k], "checked", policy, revision),
           conds[k].status # "Unknown",
           \A j \in DOMAIN conds :
              conds[j].type = "checked" /\ conds[j].revision = revision => j = k,
           NEW i \in DOMAIN conds,
           conds[i].type = "uploaded", conds[i].revision = revision,
           conds[i].resolved = conds[k].resolved, conds[i].resolved # resolved
    PROVE  MarkUploadConditionAsCanceled(conds, policy, revision, resolved)[i].status
              = "canceled"
<1> DEFINE S == {j \in GetCondition(conds, "checked") : conds[j].revision = revision}
<1>1. S = {k} /\ S \in SUBSET (Nat \ {0})
  BY DEF GetCondition, SamePlace
<1>2. GetConditionByRevision(conds, "checked", revision) = k
  <2>1. GetConditionByRevision(conds, "checked", revision) = FirstOf(S)
    BY DEF GetConditionByRevision
  <2> QED
    BY <1>1, <2>1, FirstOfIsFirst
<1>3. [conds[i] EXCEPT !.status = "canceled"].status = "canceled"
  <2>1. conds[i] \in ConditionOf(R, K)
    OBVIOUS
  <2> QED
    BY <2>1 DEF ConditionOf
<1>4. conds[k].tagPolicy = policy /\ k # 0
  BY DEF SamePlace
<1> QED
  BY <1>2, <1>3, <1>4 DEF MarkUploadConditionAsCanceled

\* The list new is conds with the status of the uploaded conditions of revision
\* and commit changed, or with one more uploaded condition when there is none.
UploadedStored(conds, new, status, revision, resolved) ==
    /\ DOMAIN conds \subseteq DOMAIN new
    /\ \A i \in DOMAIN conds :
          new[i] = IF /\ conds[i].type = "uploaded"
                      /\ conds[i].revision = revision
                      /\ conds[i].resolved = resolved
                   THEN [conds[i] EXCEPT !.status = status]
                   ELSE conds[i]
    /\ \A i \in DOMAIN new \ DOMAIN conds :
          /\ new[i] = Condition("uploaded", status, "unused", revision, resolved)
          /\ \A j \in DOMAIN new \ DOMAIN conds : i = j
          /\ \A j \in DOMAIN conds :
                ~(/\ conds[j].type = "uploaded"
                  /\ conds[j].revision = revision
                  /\ conds[j].resolved = resolved)
    /\ \E i \in DOMAIN new : /\ new[i].type = "uploaded"
                            /\ new[i].resolved = resolved
                            /\ new[i].status = status

\* UpdateUploadedCondition stores the status under revision and commit.
LEMMA UpdateUploadedResult ==
    ASSUME NEW R, NEW K, NEW conds \in Seq(ConditionOf(R, K)),
           NEW status \in Statuses, NEW revision \in R, NEW resolved \in K,
           NEW new, new = UpdateUploadedCondition(conds, status, revision, resolved)
    PROVE  /\ new \in Seq(ConditionOf(R, K))
           /\ UploadedStored(conds, new, status, revision, resolved)
<1> DEFINE same == {i \in GetCondition(conds, "uploaded") :
                      conds[i].revision = revision /\ conds[i].resolved = resolved}
           cond == Condition("uploaded", status, "unused", revision, resolved)
<1>1. /\ cond \in ConditionOf(R, K) /\ cond.type = "uploaded"
      /\ cond.resolved = resolved /\ cond.status = status
  BY DEF Condition, ConditionOf, Types, Policies
<1>2. same \subseteq DOMAIN conds
      /\ \A i \in DOMAIN conds : i \in same <=> /\ conds[i].type = "uploaded"
                                                /\ conds[i].revision = revision
                                                /\ conds[i].resolved = resolved
  BY DEF GetCondition
<1>3. new = IF same = {} THEN Append(conds, cond)
            ELSE [i \in DOMAIN conds |->
                    IF i \in same THEN [conds[i] EXCEPT !.status = status] ELSE conds[i]]
  BY DEF UpdateUploadedCondition
<1> HIDE DEF same, cond
<1>4. CASE same = {}
  <2>1. new = Append(conds, cond) /\ new \in Seq(ConditionOf(R, K))
    BY <1>1, <1>3, <1>4
  <2> DEFINE m == Len(conds) + 1
  <2>2. /\ m \in DOMAIN new /\ m \notin DOMAIN conds /\ DOMAIN new = DOMAIN conds \cup {m}
        /\ new[m] = cond
        /\ \A i \in DOMAIN conds : new[i] = conds[i]
    BY <2>1
  <2> HIDE DEF m
  <2> QED
    BY <1>1, <1>2, <1>4, <2>1, <2>2 DEF cond, UploadedStored
<1>5. CASE same # {}
  <2>1. \A i \in DOMAIN conds :
           /\ conds[i] \in ConditionOf(R, K)
           /\ [conds[i] EXCEPT !.status = status] \in ConditionOf(R, K)
           /\ [conds[i] EXCEPT !.status = status].type = conds[i].type
           /\ [conds[i] EXCEPT !.status = status].resolved = conds[i].resolved
           /\ [conds[i] EXCEPT !.status = status].status = status
    <3>1. \A i \in DOMAIN conds : conds[i] \in ConditionOf(R, K)
      OBVIOUS
    <3> QED
      BY <3>1 DEF ConditionOf
  <2>2. new = [i \in DOMAIN conds |->
                 IF i \in same THEN [conds[i] EXCEPT !.status = status] ELSE conds[i]]
    BY <1>3, <1>5
  <2>3. new \in [1..Len(conds) -> ConditionOf(R, K)]
    BY <2>1, <2>2
  <2>4. new \in Seq(ConditionOf(R, K)) /\ DOMAIN new = DOMAIN conds
    BY <2>3
  <2>5. \E i \in DOMAIN new : /\ new[i].type = "uploaded"
                             /\ new[i].resolved = resolved
                             /\ new[i].status = status
    <3>1. PICK i \in same : TRUE
      BY <1>5
    <3>2. new[i] = [conds[i] EXCEPT !.status = status] /\ i \in DOMAIN new
      BY <1>2, <2>2, <2>4, <3>1
    <3> QED
      BY <1>2, <2>1, <3>1, <3>2
  <2> QED
    BY <1>2, <2>2, <2>4, <2>5 DEF UploadedStored
<1> QED
  BY <1>4, <1>5

\* UpdateCheckedCondition, asked about the first checked condition of a commit that
\* still has another status, changes the status of that condition and nothing else.
LEMMA UpdateCheckedAt ==
    ASSUME NEW R, NEW K, NEW conds \in Seq(ConditionOf(R, K)),
           NEW status \in Statuses,
           NEW i \in DOMAIN conds,
           conds[i].type = "checked", conds[i].status # status,
           \A j \in DOMAIN conds :
              /\ conds[j].type = "checked"
              /\ conds[j].resolved = conds[i].resolved
              /\ conds[j].status # status
              => i <= j,
           \A j \in DOMAIN conds :
              SamePlace(conds[j], "checked", conds[i].tagPolicy, conds[i].revision) => i = j
    PROVE  UpdateCheckedCondition(conds, status, conds[i].revision, conds[i].resolved)
              = [conds EXCEPT ![i] = [conds[i] EXCEPT !.status = status]]
<1> DEFINE same  == {j \in GetCondition(conds, "checked") :
                       conds[j].resolved = conds[i].resolved}
           late  == {j \in same : conds[j].status # status}
           cond  == [conds[i] EXCEPT !.status = status, !.revision = conds[i].revision]
<1>1. same # {} /\ late \in SUBSET (Nat \ {0}) /\ i \in late
  BY DEF GetCondition
<1>2. \A j \in late : i <= j
  BY DEF GetCondition
<1>3. FirstOf(late) = i
  <2>1. FirstOf(late) \in late /\ FirstOf(late) <= i
    BY <1>1, FirstOfIsFirst
  <2>2. FirstOf(late) \in Nat /\ i \in Nat
    BY <1>1, <2>1
  <2> HIDE DEF late
  <2> QED
    BY <1>2, <2>1, <2>2
<1>4. UpdateCheckedCondition(conds, status, conds[i].revision, conds[i].resolved)
         = SetCondition(conds, cond)
  <2>1. i # 0
    OBVIOUS
  <2> QED
    BY <1>1, <1>3, <2>1 DEF UpdateCheckedCondition
<1>5. /\ cond = [conds[i] EXCEPT !.status = status]
      /\ cond.type = "checked"
      /\ cond.tagPolicy = conds[i].tagPolicy
      /\ cond.revision = conds[i].revision
  <2>1. conds[i] \in ConditionOf(R, K)
    OBVIOUS
  <2> QED
    BY <2>1 DEF ConditionOf
<1>6. GetConditionBy(conds, "checked", conds[i].tagPolicy, conds[i].revision) = i
  <2> DEFINE g == GetConditionBy(conds, "checked", conds[i].tagPolicy, conds[i].revision)
  <2>1. SamePlace(conds[i], "checked", conds[i].tagPolicy, conds[i].revision)
    BY DEF SamePlace
  <2>2. \/ /\ g = 0
           /\ \A j \in DOMAIN conds :
                 ~SamePlace(conds[j], "checked", conds[i].tagPolicy, conds[i].revision)
        \/ /\ g \in DOMAIN conds
           /\ SamePlace(conds[g], "checked", conds[i].tagPolicy, conds[i].revision)
    BY GetConditionByFirst
  <2> HIDE DEF g
  <2>3. g = i
    BY <2>1, <2>2
  <2> QED
    BY <2>3 DEF g
<1> HIDE DEF cond, same, late
<1>7. SetCondition(conds, cond) = [conds EXCEPT ![i] = cond]
  <2>1. i # 0
    OBVIOUS
  <2> QED
    BY <1>5, <1>6, <2>1 DEF SetCondition
<1> QED
  BY <1>4, <1>5, <1>7

\* A build's result reaches every uploaded condition of its commit and no other
\* condition, as long as there is one.
LEMMA RecordBuildResult ==
    ASSUME NEW R, NEW K, NEW conds \in Seq(ConditionOf(R, K)),
           NEW tag \in K, NEW status \in Statuses,
           \E i \in DOMAIN conds : conds[i].type = "uploaded" /\ conds[i].resolved = tag,
           NEW new, new = RecordBuild(conds, tag, status)
    PROVE  /\ new \in Seq(ConditionOf(R, K))
           /\ DOMAIN new = DOMAIN conds
           /\ \A i \in DOMAIN conds :
                 new[i] = IF conds[i].type = "uploaded" /\ conds[i].resolved = tag
                          THEN [conds[i] EXCEPT !.status = status] ELSE conds[i]
<1> DEFINE same == {i \in GetCondition(conds, "uploaded") : conds[i].resolved = tag}
<1>1. same # {} /\ \A i \in DOMAIN conds :
                      i \in same <=> conds[i].type = "uploaded" /\ conds[i].resolved = tag
  BY DEF GetCondition
<1>2. new = [i \in DOMAIN conds |->
               IF i \in same THEN [conds[i] EXCEPT !.status = status] ELSE conds[i]]
  BY <1>1 DEF RecordBuild
<1> HIDE DEF same
<1>3. \A i \in DOMAIN conds : /\ conds[i] \in ConditionOf(R, K)
                              /\ [conds[i] EXCEPT !.status = status] \in ConditionOf(R, K)
  <2>1. \A i \in DOMAIN conds : conds[i] \in ConditionOf(R, K)
    OBVIOUS
  <2> QED
    BY <2>1 DEF ConditionOf
<1>4. new \in [1..Len(conds) -> ConditionOf(R, K)]
  BY <1>2, <1>3
<1>5. new \in Seq(ConditionOf(R, K)) /\ DOMAIN new = DOMAIN conds
  BY <1>4
<1> QED
  BY <1>1, <1>2, <1>5

-----------------------------------------------------------------------------
(* The turns of the loops keep a list sound and preserve its conditions *)

\* The commits an answer or a result makes an uploaded one.
BuiltWith(status, commit) == IF status = "True" THEN {commit} ELSE {}

\* What is uploaded in the new list was so before, or is one of "built".
NewSuccesses(list, new, built) ==
    \A i \in GetConditionByStatus(new, "uploaded", "True") :
        \/ /\ i \in GetConditionByStatus(list, "uploaded", "True")
           /\ new[i].resolved = list[i].resolved
        \/ new[i].resolved \in built

\* The checked conditions of a list keep their places and commits, and none is opened
\* again.
SameHeads(list, new) ==
    \A i \in GetCondition(list, "checked") :
        /\ i \in GetCondition(new, "checked")
        /\ new[i].resolved = list[i].resolved
        /\ list[i].status = "True" => new[i].status = "True"

\* Branch b is at commit r now: its condition names r, is not opened again if it did so
\* before, and no other one changes.
HeadMoved(list, new, b, r) ==
    \A i \in GetCondition(list, "checked") :
        IF list[i].tagPolicy = "branchHash" /\ list[i].revision = b
        THEN /\ new[i].resolved = r
             /\ list[i].status = "True" /\ list[i].resolved = r => new[i].status = "True"
        ELSE new[i] = list[i]

\* The builds that are not canceled.
Alive(list) == {i \in GetCondition(list, "uploaded") : list[i].status # "canceled"}

\* No build is canceled, no condition is asked for, and what becomes checked has a build.
KeepsBuilds(list, new) ==
    /\ \A i \in Alive(list) : i \in Alive(new) /\ new[i].resolved = list[i].resolved
    /\ \A i \in GetCondition(new, "checked") :
          i \in GetCondition(list, "checked") /\ new[i].tagPolicy = list[i].tagPolicy
    /\ \A i \in GetConditionByStatus(new, "checked", "True") :
          \/ /\ i \in GetConditionByStatus(list, "checked", "True")
             /\ new[i].resolved = list[i].resolved
          \/ \E j \in Alive(new) : new[j].resolved = new[i].resolved

\* Branch b is at commit r now: the builds of r go on, the condition of b names r,
\* and what is checked is a commit that was.
BranchTurn(list, new, b, r) ==
    /\ \A i \in Alive(list) :
          list[i].resolved = r => i \in Alive(new) /\ new[i].resolved = r
    /\ \A i \in GetCondition(new, "checked") :
          IF new[i].tagPolicy = "branchHash"
          THEN new[i].revision = b => new[i].resolved = r
          ELSE i \in GetCondition(list, "checked") /\ new[i].tagPolicy = list[i].tagPolicy
    /\ \A i \in GetConditionByStatus(new, "checked", "True") :
          \E k \in GetConditionByStatus(list, "checked", "True") :
              list[k].resolved = new[i].resolved

\* One turn over a branch.
LEMMA EnsureBranchSound ==
    ASSUME NEW list, Sound(list), NEW b \in Branches, NEW r \in Commits
    PROVE  /\ Sound(EnsureBranch(list, b, r))
           /\ Preserves(list, EnsureBranch(list, b, r))
           /\ NewSuccesses(list, EnsureBranch(list, b, r), {})
           /\ HeadMoved(list, EnsureBranch(list, b, r), b, r)
           /\ BranchTurn(list, EnsureBranch(list, b, r), b, r)
<1> DEFINE s   == IF \E i \in GetConditionByStatus(list, "checked", "True") :
                        list[i].resolved = r
                  THEN "True" ELSE "False"
           mid == MarkUploadConditionAsCanceled(list, "branchHash", b, r)
           new == UpdateCondition(mid, "checked", s, "branchHash", b, r)
           m   == PlaceOf(mid, "checked", "branchHash", b)
<1>1. list \in Seq(ConditionOf(Revisions, Commits))
  BY DEF Sound, StoredCondition
<1>2. /\ mid \in Seq(ConditionOf(Revisions, Commits))
      /\ DOMAIN mid = DOMAIN list
      /\ \A i \in DOMAIN list :
            /\ \/ mid[i] = list[i]
               \/ mid[i] = [list[i] EXCEPT !.status = "canceled"]
            /\ SamePlace(list[i], "checked", "branchHash", b) => mid[i].status = "canceled"
            /\ list[i].type = "checked" /\ mid[i] # list[i]
                  => SamePlace(list[i], "checked", "branchHash", b)
            /\ list[i].type = "uploaded" /\ list[i].resolved = r => mid[i] = list[i]
  BY <1>1, MarkResult
<1>3. /\ EnsureBranch(list, b, r) = new
      /\ "checked" \in Types /\ s \in Statuses /\ "branchHash" \in Policies
      /\ b \in Revisions /\ s \in {"True", "False"}
  BY DEF EnsureBranch, Types, Statuses, Policies, Revisions
<1>4. s = "True" <=> \E i \in GetConditionByStatus(list, "checked", "True") :
                       list[i].resolved = r
  OBVIOUS
<1> HIDE DEF s, mid
<1>5. mid \in Seq(ConditionOf(Revisions, Commits))
  BY <1>2
<1>6. /\ new \in Seq(ConditionOf(Revisions, Commits))
      /\ DOMAIN new = DOMAIN mid \cup {m}
      /\ new[m] = Condition("checked", s, "branchHash", b, r)
      /\ \A i \in DOMAIN mid \ {m} : new[i] = mid[i]
      /\ m \in DOMAIN mid => SamePlace(mid[m], "checked", "branchHash", b)
      /\ m \notin DOMAIN mid =>
            \A i \in DOMAIN mid : ~SamePlace(mid[i], "checked", "branchHash", b)
  <2>1. /\ new \in Seq(ConditionOf(Revisions, Commits))
        /\ StoredAt(mid, new, m, Condition("checked", s, "branchHash", b, r))
    BY <1>3, <1>5, UpdateConditionResult
  <2> HIDE DEF new, m
  <2> QED
    BY <2>1 DEF StoredAt, Condition
<1> HIDE DEF m, new
<1>7. \A i \in DOMAIN list : /\ list[i] \in ConditionOf(Revisions, Commits)
                             /\ mid[i].type = list[i].type
                             /\ mid[i].tagPolicy = list[i].tagPolicy
                             /\ mid[i].revision = list[i].revision
                             /\ mid[i].resolved = list[i].resolved
                             /\ mid[i].status \in {list[i].status, "canceled"}
  <2>1. \A i \in DOMAIN list : list[i] \in ConditionOf(Revisions, Commits)
    BY <1>1
  <2> QED
    BY <1>2, <2>1 DEF ConditionOf
<1>8. /\ new[m].type = "checked" /\ new[m].tagPolicy = "branchHash"
      /\ new[m].revision = b /\ new[m].resolved = r /\ new[m].status = s
  BY <1>6 DEF Condition
<1>9. Keyed(list)
  BY DEF Sound
<1>10. m \in DOMAIN list => /\ list[m].type = "checked"
                            /\ list[m].tagPolicy = "branchHash"
                            /\ list[m].revision = b
  BY <1>2, <1>6, <1>7 DEF SamePlace
<1>11. \A i \in DOMAIN list \ {m} : new[i] = mid[i]
  BY <1>2, <1>6
<1>12. \A i \in DOMAIN list \ {m} :
          ~(/\ list[i].type = "checked"
            /\ list[i].tagPolicy = "branchHash"
            /\ list[i].revision = b)
  BY <1>2, <1>6, <1>7, <1>9, <1>10 DEF SamePlace, Keyed, GetCondition
<1>13. \A i \in DOMAIN list \ {m} : list[i].type = "checked" => new[i] = list[i]
  BY <1>2, <1>11, <1>12 DEF SamePlace
<1>14. Preserves(list, new)
  BY <1>2, <1>6, <1>7, <1>8, <1>10, <1>11 DEF Preserves
<1>15. Answered(new)
  <2>1. Answered(list)
    BY DEF Sound
  <2> QED
    BY <2>1, <1>2, <1>3, <1>6, <1>7, <1>8, <1>11, <1>13 DEF Answered, GetCondition
<1>16. Keyed(new)
  <2>1. \A i \in GetCondition(new, "checked") :
           <<new[i].tagPolicy, new[i].revision>> \in Asked
    BY <1>2, <1>6, <1>7, <1>8, <1>9, <1>11 DEF Keyed, GetCondition, Asked
  <2>2. \A i, j \in GetCondition(new, "checked") :
           new[i].tagPolicy = new[j].tagPolicy /\ new[i].revision = new[j].revision
           => i = j
    BY <1>2, <1>6, <1>7, <1>8, <1>9, <1>11, <1>12 DEF Keyed, GetCondition
  <2>3. \A i, j \in GetCondition(new, "uploaded") :
           new[i].revision = new[j].revision /\ new[i].resolved = new[j].resolved
           => i = j
    BY <1>2, <1>6, <1>7, <1>8, <1>9, <1>11 DEF Keyed, GetCondition
  <2> QED
    BY <2>1, <2>2, <2>3 DEF Keyed
<1>17. Backed(new)
  <2>1. Backed(list)
    BY DEF Sound
  <2>2. \A j \in GetCondition(list, "uploaded") :
           j \in GetCondition(new, "uploaded") /\ new[j].resolved = list[j].resolved
    BY <1>2, <1>6, <1>7, <1>10, <1>11 DEF GetCondition
  <2> SUFFICES ASSUME NEW i \in GetConditionByStatus(new, "checked", "True")
               PROVE  \E j \in GetCondition(new, "uploaded") :
                         new[j].resolved = new[i].resolved
    BY DEF Backed
  <2>3. CASE i = m
    BY <1>4, <1>8, <2>1, <2>2, <2>3 DEF Backed, GetConditionByStatus, GetCondition
  <2>4. CASE i # m
    <3>1. i \in DOMAIN list /\ new[i] = list[i]
      BY <1>2, <1>6, <1>7, <1>11, <1>13, <2>4 DEF GetConditionByStatus, GetCondition
    <3>2. i \in GetConditionByStatus(list, "checked", "True")
      BY <3>1 DEF GetConditionByStatus, GetCondition
    <3> QED
      BY <2>1, <2>2, <3>1, <3>2 DEF Backed
  <2> QED
    BY <2>3, <2>4
<1>18. ASSUME "latest" \notin Branches PROVE OnlyHeadPending(new)
  <2>1. OnlyHeadPending(list) /\ Answered(list)
    BY <1>18 DEF Sound
  <2> SUFFICES ASSUME NEW i \in GetConditionByStatus(new, "uploaded", "False"),
                      NEW c \in Branches, new[i].revision = c
               PROVE  \E k \in GetCondition(new, "checked") :
                         /\ new[k].tagPolicy = "branchHash"
                         /\ new[k].revision = c
                         /\ new[k].resolved = new[i].resolved
    BY DEF OnlyHeadPending
  <2>2. i # m /\ i \in DOMAIN list /\ new[i] = mid[i] /\ mid[i] = list[i]
    <3>1. i \in DOMAIN new /\ new[i].type = "uploaded" /\ new[i].status = "False"
      BY DEF GetConditionByStatus, GetCondition
    <3>2. i # m /\ i \in DOMAIN list /\ new[i] = mid[i]
      BY <1>2, <1>6, <1>8, <1>11, <3>1
    <3>3. [list[i] EXCEPT !.status = "canceled"].status = "canceled"
      BY <1>7, <3>2 DEF ConditionOf
    <3> QED
      BY <1>2, <3>1, <3>2, <3>3
  <2>3. i \in GetConditionByStatus(list, "uploaded", "False") /\ list[i].revision = c
    BY <2>2 DEF GetConditionByStatus, GetCondition
  <2>4. PICK k \in GetCondition(list, "checked") :
           /\ list[k].tagPolicy = "branchHash"
           /\ list[k].revision = c
           /\ list[k].resolved = list[i].resolved
    BY <2>1, <2>3 DEF OnlyHeadPending
  <2>5. k \in DOMAIN list /\ list[k].type = "checked"
    BY DEF GetCondition
  <2>6. CASE c # b
    <3>1. k # m
      BY <1>10, <2>4, <2>5, <2>6
    <3>2. k \in DOMAIN new /\ new[k] = list[k]
      BY <1>2, <1>6, <1>13, <2>5, <3>1
    <3>3. k \in GetCondition(new, "checked")
      BY <2>5, <3>2 DEF GetCondition
    <3> QED
      BY <2>2, <2>4, <3>2, <3>3
  <2>7. CASE c = b
    <3>1. \A j \in DOMAIN list :
             list[j].type = "checked" /\ list[j].revision = b => j = k
      BY <1>9, <1>18, <2>4, <2>5, <2>7 DEF Keyed, Asked, GetCondition
    <3>2. SamePlace(list[k], "checked", "branchHash", b) /\ list[k].status # "Unknown"
      BY <2>1, <2>4, <2>5, <2>7 DEF SamePlace, Answered
    <3>3. list[i].type = "uploaded" /\ mid[i].status # "canceled"
      BY <2>2, <2>3 DEF GetConditionByStatus, GetCondition
    <3>4. list[i].resolved = r
      <4> SUFFICES ASSUME list[i].resolved # r PROVE FALSE
        OBVIOUS
      <4>1. list[i].revision = b /\ list[i].resolved = list[k].resolved
        BY <2>3, <2>4, <2>7
      <4>2. mid[i].status = "canceled"
        BY <1>1, <2>2, <2>5, <3>1, <3>2, <3>3, <4>1, MarkCancelsStale DEF mid
      <4> QED
        BY <3>3, <4>2
    <3> QED
      BY <1>6, <1>8, <2>2, <2>7, <3>4 DEF GetCondition
  <2> QED
    BY <2>6, <2>7
<1>19. NewSuccesses(list, new, {})
  <2> SUFFICES ASSUME NEW i \in DOMAIN new, new[i].type = "uploaded", new[i].status = "True"
               PROVE  i \in DOMAIN list /\ new[i] = list[i]
    BY DEF NewSuccesses, GetConditionByStatus, GetCondition
  <2>1. i \in DOMAIN list /\ new[i] = mid[i]
    BY <1>2, <1>6, <1>8, <1>11
  <2>2. [list[i] EXCEPT !.status = "canceled"].status = "canceled"
    BY <1>7, <2>1 DEF ConditionOf
  <2> QED
    BY <1>2, <2>1, <2>2
<1>20. HeadMoved(list, new, b, r)
  <2> SUFFICES ASSUME NEW i \in DOMAIN list, list[i].type = "checked"
               PROVE  IF list[i].tagPolicy = "branchHash" /\ list[i].revision = b
                      THEN /\ new[i].resolved = r
                           /\ list[i].status = "True" /\ list[i].resolved = r
                                 => new[i].status = "True"
                      ELSE new[i] = list[i]
    BY DEF HeadMoved, GetCondition
  <2>1. CASE i = m
    BY <1>4, <1>8, <1>10, <2>1 DEF GetConditionByStatus, GetCondition
  <2>2. CASE i # m
    BY <1>12, <1>13, <2>2
  <2> QED
    BY <2>1, <2>2
<1>21. BranchTurn(list, new, b, r)
  <2>1. \A i \in Alive(list) :
           list[i].resolved = r => i \in Alive(new) /\ new[i].resolved = r
    <3> SUFFICES ASSUME NEW i \in DOMAIN list, list[i].type = "uploaded",
                        list[i].status # "canceled", list[i].resolved = r
                 PROVE  i \in DOMAIN new /\ new[i] = list[i]
      BY DEF Alive, GetCondition
    <3> QED
      BY <1>2, <1>6, <1>10, <1>11
  <2>2. ASSUME NEW i \in DOMAIN new, new[i].type = "checked"
        PROVE  \/ i = m
               \/ i \in DOMAIN list \ {m} /\ list[i].type = "checked" /\ new[i] = list[i]
    BY <1>2, <1>6, <1>7, <1>11, <1>13, <2>2
  <2>3. \A i \in GetCondition(new, "checked") :
           IF new[i].tagPolicy = "branchHash"
           THEN new[i].revision = b => new[i].resolved = r
           ELSE i \in GetCondition(list, "checked") /\ new[i].tagPolicy = list[i].tagPolicy
    BY <1>8, <1>12, <2>2 DEF GetCondition
  <2>4. \A i \in GetConditionByStatus(new, "checked", "True") :
           \E k \in GetConditionByStatus(list, "checked", "True") :
               list[k].resolved = new[i].resolved
    <3> SUFFICES ASSUME NEW i \in DOMAIN new, new[i].type = "checked", new[i].status = "True"
                 PROVE  \E k \in GetConditionByStatus(list, "checked", "True") :
                            list[k].resolved = new[i].resolved
      BY DEF GetConditionByStatus, GetCondition
    <3>1. CASE i = m
      BY <1>4, <1>8, <3>1
    <3>2. CASE i # m
      BY <2>2, <3>2 DEF GetConditionByStatus, GetCondition
    <3> QED
      BY <3>1, <3>2
  <2> QED
    BY <2>1, <2>3, <2>4 DEF BranchTurn
<1> QED
  BY <1>3, <1>6, <1>14, <1>15, <1>16, <1>17, <1>18, <1>19, <1>20, <1>21
  DEF Sound, StoredCondition

\* One turn over a tag.
LEMMA EnsureTagSound ==
    ASSUME NEW list, Sound(list), NEW r \in Commits
    PROVE  /\ Sound(EnsureTag(list, r))
           /\ Preserves(list, EnsureTag(list, r))
           /\ NewSuccesses(list, EnsureTag(list, r), {})
<1> DEFINE new == UpdateCondition(list, "checked", "False", "tagHash", "latest", r)
           m   == PlaceOf(list, "checked", "tagHash", "latest")
<1>1. /\ list \in Seq(ConditionOf(Revisions, Commits))
      /\ Answered(list) /\ Keyed(list) /\ Backed(list)
  BY DEF Sound, StoredCondition
<1>2. /\ EnsureTag(list, r) = new
      /\ "checked" \in Types /\ "False" \in Statuses /\ "tagHash" \in Policies
      /\ "latest" \in Revisions
  BY DEF EnsureTag, Types, Statuses, Policies, Revisions
<1>3. /\ new \in Seq(ConditionOf(Revisions, Commits))
      /\ StoredAt(list, new, m, Condition("checked", "False", "tagHash", "latest", r))
  BY <1>1, <1>2, UpdateConditionResult
<1> HIDE DEF m, new
<1>4. /\ DOMAIN new = DOMAIN list \cup {m}
      /\ \A i \in DOMAIN list \ {m} : new[i] = list[i]
      /\ new[m].type = "checked" /\ new[m].tagPolicy = "tagHash"
      /\ new[m].revision = "latest" /\ new[m].resolved = r /\ new[m].status = "False"
  BY <1>3 DEF StoredAt, Condition
<1>5. /\ m \in DOMAIN list => /\ list[m].type = "checked"
                              /\ list[m].tagPolicy = "tagHash"
                              /\ list[m].revision = "latest"
      /\ m \notin DOMAIN list =>
            \A i \in DOMAIN list : ~(/\ list[i].type = "checked"
                                     /\ list[i].tagPolicy = "tagHash"
                                     /\ list[i].revision = "latest")
  BY <1>3 DEF StoredAt, Condition, SamePlace
<1>6. Preserves(list, new)
  BY <1>4, <1>5 DEF Preserves
<1>7. Answered(new)
  BY <1>1, <1>4 DEF Answered, GetCondition
<1>8. Keyed(new)
  <2>1. \A i \in GetCondition(new, "checked") :
           <<new[i].tagPolicy, new[i].revision>> \in Asked
    BY <1>1, <1>4 DEF Keyed, GetCondition, Asked
  <2>2. \A i, j \in GetCondition(new, "checked") :
           new[i].tagPolicy = new[j].tagPolicy /\ new[i].revision = new[j].revision
           => i = j
    BY <1>1, <1>4, <1>5 DEF Keyed, GetCondition
  <2>3. \A i, j \in GetCondition(new, "uploaded") :
           new[i].revision = new[j].revision /\ new[i].resolved = new[j].resolved
           => i = j
    BY <1>1, <1>4 DEF Keyed, GetCondition
  <2> QED
    BY <2>1, <2>2, <2>3 DEF Keyed
<1>9. Backed(new)
  BY <1>1, <1>4, <1>5 DEF Backed, GetConditionByStatus, GetCondition
<1>10. ASSUME "latest" \notin Branches PROVE OnlyHeadPending(new)
  <2>1. OnlyHeadPending(list)
    BY <1>10 DEF Sound
  <2> SUFFICES ASSUME NEW i \in GetConditionByStatus(new, "uploaded", "False"),
                      NEW c \in Branches, new[i].revision = c
               PROVE  \E k \in GetCondition(new, "checked") :
                         /\ new[k].tagPolicy = "branchHash"
                         /\ new[k].revision = c
                         /\ new[k].resolved = new[i].resolved
    BY DEF OnlyHeadPending
  <2>2. /\ new[i] = list[i]
        /\ i \in GetConditionByStatus(list, "uploaded", "False") /\ list[i].revision = c
    BY <1>4 DEF GetConditionByStatus, GetCondition
  <2>3. PICK k \in GetCondition(list, "checked") :
           /\ list[k].tagPolicy = "branchHash"
           /\ list[k].revision = c
           /\ list[k].resolved = list[i].resolved
    BY <2>1, <2>2 DEF OnlyHeadPending
  <2>4. k \in DOMAIN list \ {m} /\ list[k].type = "checked"
    BY <1>5, <2>3 DEF GetCondition
  <2> QED
    BY <1>4, <2>2, <2>3, <2>4 DEF GetCondition
<1>11. NewSuccesses(list, new, {})
  BY <1>4 DEF NewSuccesses, GetConditionByStatus, GetCondition
<1> QED
  BY <1>2, <1>3, <1>6, <1>7, <1>8, <1>9, <1>10, <1>11 DEF Sound, StoredCondition

\* One turn over the revisions a check job was asked about, taken in list order:
\* it answers its own condition, and leaves the others to the turns that follow.
LEMMA RecordCheckSound ==
    ASSUME NEW list, Sound(list),
           NEW i \in Unchecked(list), \A j \in Unchecked(list) : i <= j,
           NEW exist \in {"True", "False"},
           NEW new, new = RecordCheck(list, [revision |-> list[i].revision,
                                             resolved |-> list[i].resolved], exist)
    PROVE  /\ Sound(new)
           /\ Preserves(list, new)
           /\ NewSuccesses(list, new, BuiltWith(exist, list[i].resolved))
           /\ Unchecked(new) = Unchecked(list) \ {i}
           /\ SameHeads(list, new)
           /\ KeepsBuilds(list, new)
<1> DEFINE rev == list[i].revision
           res == list[i].resolved
           mid == [list EXCEPT ![i] = [list[i] EXCEPT !.status = "True"]]
<1>1. /\ list \in Seq(ConditionOf(Revisions, Commits))
      /\ Answered(list) /\ Keyed(list) /\ Backed(list)
  BY DEF Sound, StoredCondition
<1>2. i \in DOMAIN list /\ list[i].type = "checked" /\ list[i].status = "False"
  BY DEF Unchecked, GetConditionByStatus, GetCondition
<1>3. \A j \in DOMAIN list : list[j] \in ConditionOf(Revisions, Commits)
  BY <1>1
<1>4. /\ "True" \in Statuses /\ "False" \in Statuses /\ exist \in Statuses
      /\ rev \in Revisions /\ res \in Commits
  BY <1>2, <1>3 DEF Statuses, ConditionOf
<1>5. UpdateCheckedCondition(list, "True", rev, res) = mid
  <2>1. \A j \in DOMAIN list :
           list[j].type = "checked" /\ list[j].resolved = res /\ list[j].status # "True"
           => i <= j
    BY <1>1 DEF Answered, Unchecked, GetConditionByStatus, GetCondition
  <2>2. \A j \in DOMAIN list :
           SamePlace(list[j], "checked", list[i].tagPolicy, rev) => i = j
    BY <1>1, <1>2 DEF SamePlace, Keyed, GetCondition
  <2>3. list[i].status # "True"
    BY <1>2
  <2> QED
    BY <1>1, <1>2, <1>4, <2>1, <2>2, <2>3, UpdateCheckedAt
<1>6. new = UpdateUploadedCondition(mid, exist, rev, res)
  BY <1>5 DEF RecordCheck
<1>7. /\ mid \in Seq(ConditionOf(Revisions, Commits))
      /\ DOMAIN mid = DOMAIN list
      /\ \A j \in DOMAIN list \ {i} : mid[j] = list[j]
      /\ mid[i].type = "checked" /\ mid[i].status = "True"
      /\ mid[i].tagPolicy = list[i].tagPolicy
      /\ mid[i].revision = rev /\ mid[i].resolved = res
  <2>1. [list[i] EXCEPT !.status = "True"] \in ConditionOf(Revisions, Commits)
    BY <1>2, <1>3, <1>4 DEF ConditionOf
  <2>2. mid \in Seq(ConditionOf(Revisions, Commits)) /\ DOMAIN mid = DOMAIN list
    BY <1>1, <1>2, <2>1
  <2>3. /\ [list[i] EXCEPT !.status = "True"].type = "checked"
        /\ [list[i] EXCEPT !.status = "True"].status = "True"
        /\ [list[i] EXCEPT !.status = "True"].tagPolicy = list[i].tagPolicy
        /\ [list[i] EXCEPT !.status = "True"].revision = rev
        /\ [list[i] EXCEPT !.status = "True"].resolved = res
    BY <1>2, <1>3 DEF ConditionOf
  <2> QED
    BY <1>2, <2>2, <2>3
<1> HIDE DEF mid, rev, res
<1>8. /\ new \in Seq(ConditionOf(Revisions, Commits))
      /\ DOMAIN mid \subseteq DOMAIN new
      /\ \A j \in DOMAIN mid :
            new[j] = IF /\ mid[j].type = "uploaded"
                        /\ mid[j].revision = rev
                        /\ mid[j].resolved = res
                     THEN [mid[j] EXCEPT !.status = exist] ELSE mid[j]
      /\ \A j \in DOMAIN new \ DOMAIN mid :
            /\ new[j] = Condition("uploaded", exist, "unused", rev, res)
            /\ \A k \in DOMAIN new \ DOMAIN mid : j = k
            /\ \A k \in DOMAIN mid : ~(/\ mid[k].type = "uploaded"
                                       /\ mid[k].revision = rev
                                       /\ mid[k].resolved = res)
      /\ \E j \in DOMAIN new : /\ new[j].type = "uploaded" /\ new[j].resolved = res
                              /\ new[j].status = exist
  <2>1. mid \in Seq(ConditionOf(Revisions, Commits))
    BY <1>7
  <2>2. /\ new \in Seq(ConditionOf(Revisions, Commits))
        /\ UploadedStored(mid, new, exist, rev, res)
    BY <1>4, <1>6, <2>1, UpdateUploadedResult
  <2> QED
    BY <2>2 DEF UploadedStored
<1>9. \A j \in DOMAIN list : /\ new[j].type = list[j].type
                             /\ new[j].tagPolicy = list[j].tagPolicy
                             /\ new[j].revision = list[j].revision
                             /\ new[j].resolved = list[j].resolved
  <2>1. \A j \in DOMAIN mid : mid[j] \in ConditionOf(Revisions, Commits)
    BY <1>7
  <2>2. \A j \in DOMAIN mid : /\ new[j].type = mid[j].type
                              /\ new[j].tagPolicy = mid[j].tagPolicy
                              /\ new[j].revision = mid[j].revision
                              /\ new[j].resolved = mid[j].resolved
    BY <1>8, <2>1 DEF ConditionOf
  <2> QED
    BY <1>2, <1>7, <2>2 DEF rev, res
<1>10. \A j \in DOMAIN new \ DOMAIN list :
          /\ new[j].type = "uploaded" /\ new[j].revision = rev /\ new[j].resolved = res
          /\ \A k \in DOMAIN new \ DOMAIN list : j = k
          /\ \A k \in DOMAIN list : ~(/\ list[k].type = "uploaded"
                                      /\ list[k].revision = rev
                                      /\ list[k].resolved = res)
  BY <1>2, <1>7, <1>8 DEF Condition
<1>11. \A j \in DOMAIN list :
          list[j].type = "checked" => /\ j # i => new[j] = list[j]
                                      /\ j = i => new[j].status = "True"
  <2>1. \A j \in DOMAIN mid : mid[j].type = "checked" => new[j] = mid[j]
    BY <1>8
  <2> QED
    BY <1>2, <1>7, <2>1
<1>12. Preserves(list, new)
  BY <1>7, <1>8, <1>9 DEF Preserves
<1>13. Unchecked(new) = Unchecked(list) \ {i}
  BY <1>7, <1>8, <1>9, <1>10, <1>11 DEF Unchecked, GetConditionByStatus, GetCondition
<1>14. Answered(new)
  BY <1>1, <1>7, <1>8, <1>9, <1>10, <1>11 DEF Answered, GetCondition
<1>15. Keyed(new)
  <2>1. \A j \in GetCondition(new, "checked") :
           j \in GetCondition(list, "checked")
    BY <1>9, <1>10 DEF GetCondition
  <2>2. \A j, k \in GetCondition(new, "uploaded") :
           new[j].revision = new[k].revision /\ new[j].resolved = new[k].resolved
           => j = k
    BY <1>1, <1>9, <1>10 DEF Keyed, GetCondition
  <2>3. \A j \in GetCondition(list, "checked") : j \in DOMAIN list
    BY DEF GetCondition
  <2> QED
    BY <1>1, <1>9, <2>1, <2>2, <2>3 DEF Keyed
<1>16. Backed(new)
  <2> SUFFICES ASSUME NEW j \in GetConditionByStatus(new, "checked", "True")
               PROVE  \E k \in GetCondition(new, "uploaded") :
                         new[k].resolved = new[j].resolved
    BY DEF Backed
  <2>1. j \in DOMAIN list /\ list[j].type = "checked"
    BY <1>9, <1>10 DEF GetConditionByStatus, GetCondition
  <2>2. CASE j = i
    BY <1>8, <1>9, <2>1, <2>2 DEF GetCondition, res
  <2>3. CASE j # i
    <3>1. j \in GetConditionByStatus(list, "checked", "True")
      BY <1>11, <2>1, <2>3 DEF GetConditionByStatus, GetCondition
    <3>2. PICK k \in GetCondition(list, "uploaded") : list[k].resolved = list[j].resolved
      BY <1>1, <3>1 DEF Backed
    <3>3. k \in DOMAIN list /\ list[k].type = "uploaded"
      BY DEF GetCondition
    <3> QED
      BY <1>7, <1>8, <1>9, <2>1, <3>2, <3>3 DEF GetCondition
  <2> QED
    BY <2>2, <2>3
<1>17. ASSUME "latest" \notin Branches PROVE OnlyHeadPending(new)
  <2>1. OnlyHeadPending(list)
    BY <1>17 DEF Sound
  <2> SUFFICES ASSUME NEW j \in GetConditionByStatus(new, "uploaded", "False"),
                      NEW c \in Branches, new[j].revision = c
               PROVE  \E k \in DOMAIN list :
                         /\ list[k].type = "checked"
                         /\ list[k].tagPolicy = "branchHash"
                         /\ list[k].revision = c
                         /\ list[k].resolved = new[j].resolved
    <3>1. \A k \in DOMAIN list : /\ k \in DOMAIN new
                                 /\ list[k].type = "checked" => new[k].type = "checked"
      BY <1>7, <1>8, <1>9
    <3> QED
      BY <1>9, <3>1 DEF OnlyHeadPending, GetCondition
  <2>2. j \in DOMAIN new /\ new[j].type = "uploaded" /\ new[j].status = "False"
    BY DEF GetConditionByStatus, GetCondition
  <2>3. CASE new[j].revision = rev /\ new[j].resolved = res
    <3>1. <<list[i].tagPolicy, list[i].revision>> \in Asked
      BY <1>1, <1>2 DEF Keyed, GetCondition
    <3>2. list[i].tagPolicy = "branchHash"
      BY <1>17, <2>3, <3>1 DEF Asked, rev
    <3> QED
      BY <1>2, <2>3, <3>2 DEF rev, res
  <2>4. CASE ~(new[j].revision = rev /\ new[j].resolved = res)
    <3>1. j \in DOMAIN list
      BY <1>10, <2>2, <2>4
    <3>2. j # i
      BY <1>2, <1>9, <2>2
    <3>3. new[j] = list[j]
      <4>1. mid[j] = list[j] /\ j \in DOMAIN mid
        BY <1>7, <3>1, <3>2
      <4>2. ~(mid[j].revision = rev /\ mid[j].resolved = res)
        BY <1>9, <2>4, <3>1, <4>1
      <4> QED
        BY <1>8, <4>1, <4>2
    <3>4. j \in GetConditionByStatus(list, "uploaded", "False")
      BY <2>2, <3>1, <3>3 DEF GetConditionByStatus, GetCondition
    <3> QED
      BY <2>1, <3>3, <3>4 DEF OnlyHeadPending, GetCondition
  <2> QED
    BY <2>3, <2>4
<1>18. NewSuccesses(list, new, BuiltWith(exist, res))
  <2> SUFFICES ASSUME NEW j \in DOMAIN new, new[j].type = "uploaded", new[j].status = "True",
                      ~(exist = "True" /\ new[j].resolved = res)
               PROVE  j \in DOMAIN list /\ new[j] = list[j]
    BY DEF NewSuccesses, GetConditionByStatus, GetCondition, BuiltWith
  <2>1. CASE j \in DOMAIN list
    <3>1. j # i
      BY <1>2, <1>9, <2>1
    <3>2. mid[j] = list[j] /\ j \in DOMAIN mid /\ list[j] \in ConditionOf(Revisions, Commits)
      BY <1>3, <1>7, <2>1, <3>1
    <3>3. [list[j] EXCEPT !.status = exist].status = exist
      BY <3>2 DEF ConditionOf
    <3> QED
      BY <1>8, <1>9, <2>1, <3>2, <3>3
  <2>2. CASE j \notin DOMAIN list
    BY <1>7, <1>8, <1>10, <2>2 DEF Condition
  <2> QED
    BY <2>1, <2>2
<1>19. SameHeads(list, new)
  BY <1>7, <1>8, <1>9, <1>11 DEF SameHeads, GetCondition
<1>20. KeepsBuilds(list, new)
  <2>1. \A j \in Alive(list) : j \in Alive(new) /\ new[j].resolved = list[j].resolved
    <3> SUFFICES ASSUME NEW j \in DOMAIN list, list[j].type = "uploaded",
                        list[j].status # "canceled"
                 PROVE  j \in DOMAIN new /\ new[j].status # "canceled"
      BY <1>9 DEF Alive, GetCondition
    <3>1. mid[j] = list[j] /\ j \in DOMAIN mid
      BY <1>2, <1>7
    <3>2. [list[j] EXCEPT !.status = exist].status = exist
      BY <1>3 DEF ConditionOf
    <3> QED
      BY <1>8, <3>1, <3>2
  <2>2. \A j \in GetCondition(new, "checked") :
           j \in GetCondition(list, "checked") /\ new[j].tagPolicy = list[j].tagPolicy
    BY <1>9, <1>10 DEF GetCondition
  <2>3. \E j \in Alive(new) : new[j].resolved = res
    BY <1>8 DEF Alive, GetCondition
  <2>4. ASSUME NEW j \in GetConditionByStatus(new, "checked", "True")
        PROVE  \/ /\ j \in GetConditionByStatus(list, "checked", "True")
                  /\ new[j].resolved = list[j].resolved
               \/ \E k \in Alive(new) : new[k].resolved = new[j].resolved
    <3>1. j \in DOMAIN list /\ list[j].type = "checked" /\ new[j].status = "True"
      BY <1>9, <1>10 DEF GetConditionByStatus, GetCondition
    <3>2. CASE j = i
      BY <1>9, <2>3, <3>1, <3>2 DEF res
    <3>3. CASE j # i
      BY <1>11, <3>1, <3>3 DEF GetConditionByStatus, GetCondition
    <3> QED
      BY <3>2, <3>3
  <2> QED
    BY <2>1, <2>2, <2>4 DEF KeepsBuilds
<1> QED
  BY <1>8, <1>12, <1>13, <1>14, <1>15, <1>16, <1>17, <1>18, <1>19, <1>20
  DEF Sound, StoredCondition, res

\* The same, for the entry of the pod's input that comes first: what is left to do
\* is the rest of it.
LEMMA RecordCheckTurn ==
    ASSUME NEW list, Sound(list),
           NEW rev \in GetCheckInput(list),
           \A other \in GetCheckInput(list) : rev.at <= other.at,
           NEW exist \in {"True", "False"}
    PROVE  /\ Sound(RecordCheck(list, rev, exist))
           /\ Preserves(list, RecordCheck(list, rev, exist))
           /\ NewSuccesses(list, RecordCheck(list, rev, exist),
                           BuiltWith(exist, rev.resolved))
           /\ SameHeads(list, RecordCheck(list, rev, exist))
           /\ KeepsBuilds(list, RecordCheck(list, rev, exist))
           /\ GetCheckInput(RecordCheck(list, rev, exist)) = GetCheckInput(list) \ {rev}
<1>1. PICK i \in Unchecked(list) :
         rev = [at |-> i, revision |-> list[i].revision, resolved |-> list[i].resolved]
  BY DEF GetCheckInput
<1>2. \A j \in Unchecked(list) : i <= j
  <2> SUFFICES ASSUME NEW j \in Unchecked(list) PROVE i <= j
    OBVIOUS
  <2> DEFINE other == [at |-> j, revision |-> list[j].revision,
                       resolved |-> list[j].resolved]
  <2>1. other \in GetCheckInput(list)
    BY DEF GetCheckInput
  <2>2. other.at = j /\ rev.at = i
    BY <1>1
  <2> QED
    BY <2>1, <2>2
<1> DEFINE new == RecordCheck(list, rev, exist)
<1>3. new = RecordCheck(list, [revision |-> list[i].revision,
                               resolved |-> list[i].resolved], exist)
  BY <1>1 DEF RecordCheck
<1> HIDE DEF new
<1>4. /\ Sound(new)
      /\ Preserves(list, new)
      /\ NewSuccesses(list, new, BuiltWith(exist, list[i].resolved))
      /\ Unchecked(new) = Unchecked(list) \ {i}
      /\ SameHeads(list, new)
      /\ KeepsBuilds(list, new)
  BY <1>2, <1>3, RecordCheckSound
<1>5. \A j \in Unchecked(list) : /\ new[j].resolved = list[j].resolved
                                 /\ new[j].revision = list[j].revision
  BY <1>4 DEF SameHeads, Preserves, Unchecked, GetConditionByStatus, GetCondition
<1>6. GetCheckInput(new) = GetCheckInput(list) \ {rev}
  <2>1. GetCheckInput(new) \subseteq GetCheckInput(list) \ {rev}
    BY <1>1, <1>4, <1>5 DEF GetCheckInput
  <2>2. GetCheckInput(list) \ {rev} \subseteq GetCheckInput(new)
    BY <1>1, <1>4, <1>5 DEF GetCheckInput
  <2> QED
    BY <2>1, <2>2
<1>7. rev.resolved = list[i].resolved
  BY <1>1
<1> QED
  BY <1>4, <1>6, <1>7 DEF new

\* The uploaded conditions of a list keep their places and their commits.
SameBuilds(list, new) ==
    \A i \in GetCondition(list, "uploaded") :
        i \in GetCondition(new, "uploaded") /\ new[i].resolved = list[i].resolved

\* One turn over the builds of an upload job.  A result is never "False", so it
\* makes no build pending again.
LEMMA RecordBuildSound ==
    ASSUME NEW list, Sound(list),
           NEW at \in GetCondition(list, "uploaded"),
           NEW status \in {"True", "failed"}
    PROVE  /\ Sound(RecordBuild(list, list[at].resolved, status))
           /\ Preserves(list, RecordBuild(list, list[at].resolved, status))
           /\ SameBuilds(list, RecordBuild(list, list[at].resolved, status))
           /\ NewSuccesses(list, RecordBuild(list, list[at].resolved, status),
                           BuiltWith(status, list[at].resolved))
           /\ SameHeads(list, RecordBuild(list, list[at].resolved, status))
           /\ KeepsBuilds(list, RecordBuild(list, list[at].resolved, status))
<1> DEFINE tag == list[at].resolved
           new == RecordBuild(list, tag, status)
<1>1. /\ list \in Seq(ConditionOf(Revisions, Commits))
      /\ Answered(list) /\ Keyed(list) /\ Backed(list)
  BY DEF Sound, StoredCondition
<1>2. at \in DOMAIN list /\ list[at].type = "uploaded"
  BY DEF GetCondition
<1>3. \A i \in DOMAIN list : list[i] \in ConditionOf(Revisions, Commits)
  BY <1>1
<1>4. tag \in Commits /\ status \in Statuses /\ status # "False"
  BY <1>2, <1>3 DEF ConditionOf, Statuses
<1>5. \E i \in DOMAIN list : list[i].type = "uploaded" /\ list[i].resolved = tag
  BY <1>2
<1>6. new = RecordBuild(list, tag, status)
  OBVIOUS
<1> HIDE DEF new, tag
<1>7. /\ new \in Seq(ConditionOf(Revisions, Commits))
      /\ DOMAIN new = DOMAIN list
      /\ \A i \in DOMAIN list :
            new[i] = IF list[i].type = "uploaded" /\ list[i].resolved = tag
                     THEN [list[i] EXCEPT !.status = status] ELSE list[i]
  BY <1>1, <1>4, <1>5, <1>6, RecordBuildResult
<1>8. \A i \in DOMAIN list : /\ new[i].type = list[i].type
                             /\ new[i].tagPolicy = list[i].tagPolicy
                             /\ new[i].revision = list[i].revision
                             /\ new[i].resolved = list[i].resolved
                             /\ new[i].status \in {list[i].status, status}
  BY <1>3, <1>7 DEF ConditionOf
<1>9. \A i \in DOMAIN list : list[i].type = "checked" => new[i] = list[i]
  BY <1>7
<1>10. Preserves(list, new)
  BY <1>7, <1>8 DEF Preserves
<1>11. Answered(new)
  BY <1>1, <1>7, <1>8, <1>9 DEF Answered, GetCondition
<1>12. Keyed(new)
  BY <1>1, <1>7, <1>8 DEF Keyed, GetCondition
<1>13. Backed(new)
  BY <1>1, <1>7, <1>8, <1>9 DEF Backed, GetConditionByStatus, GetCondition
<1>14. ASSUME "latest" \notin Branches PROVE OnlyHeadPending(new)
  <2>1. OnlyHeadPending(list)
    BY <1>14 DEF Sound
  <2>2. \A i \in GetConditionByStatus(new, "uploaded", "False") :
           i \in GetConditionByStatus(list, "uploaded", "False")
    BY <1>4, <1>7, <1>8 DEF GetConditionByStatus, GetCondition
  <2>3. \A i \in GetConditionByStatus(list, "uploaded", "False") : i \in DOMAIN list
    BY DEF GetConditionByStatus, GetCondition
  <2>4. \A k : k \in GetCondition(list, "checked")
                  => k \in DOMAIN list /\ k \in GetCondition(new, "checked")
    BY <1>7, <1>8 DEF GetCondition
  <2> QED
    BY <1>8, <2>1, <2>2, <2>3, <2>4 DEF OnlyHeadPending
<1> QED
  <2>1. SameBuilds(list, new)
    BY <1>7, <1>8 DEF SameBuilds, GetCondition
  <2>2. Sound(new)
    BY <1>7, <1>11, <1>12, <1>13, <1>14 DEF Sound, StoredCondition
  <2>3. NewSuccesses(list, new, BuiltWith(status, tag))
    <3> SUFFICES ASSUME NEW i \in DOMAIN new,
                        new[i].type = "uploaded", new[i].status = "True",
                        ~(status = "True" /\ new[i].resolved = tag)
                 PROVE  i \in DOMAIN list /\ new[i] = list[i]
      BY DEF NewSuccesses, GetConditionByStatus, GetCondition, BuiltWith
    <3>1. [list[i] EXCEPT !.status = status].status = status
      BY <1>3, <1>7 DEF ConditionOf
    <3> QED
      BY <1>7, <1>8, <3>1
  <2>4. SameHeads(list, new)
    BY <1>7, <1>9 DEF SameHeads, GetCondition
  <2>5. KeepsBuilds(list, new)
    BY <1>7, <1>8, <1>9 DEF KeepsBuilds, Alive, GetConditionByStatus, GetCondition
  <2> QED
    BY <1>10, <2>1, <2>2, <2>3, <2>4, <2>5 DEF new, tag

\* The turns store conditions of branches and of the latest tag only: an old one keeps
\* its key, a new one takes it from the turn.
LEMMA OldNamed ==
    ASSUME NEW list, NEW new, Named(list), Preserves(list, new),
           \A i \in DOMAIN new \ DOMAIN list :
              \/ /\ new[i].type = "checked" /\ new[i].tagPolicy = "branchHash"
                 /\ new[i].revision \in Branches
              \/ /\ new[i].type = "checked" /\ new[i].tagPolicy = "tagHash"
                 /\ new[i].revision = "latest" /\ Tags # {}
              \/ /\ new[i].type = "uploaded" /\ new[i].tagPolicy = "unused"
                 /\ new[i].revision \in Branches \/ (new[i].revision = "latest" /\ Tags # {})
    PROVE  Named(new)
BY DEF Named, Preserves

LEMMA BranchNamed ==
    ASSUME NEW list, Sound(list), Named(list), NEW b \in Branches, NEW r \in Commits
    PROVE  Named(EnsureBranch(list, b, r))
<1> DEFINE s   == IF \E i \in GetConditionByStatus(list, "checked", "True") :
                        list[i].resolved = r
                  THEN "True" ELSE "False"
           mid == MarkUploadConditionAsCanceled(list, "branchHash", b, r)
           new == UpdateCondition(mid, "checked", s, "branchHash", b, r)
           m   == PlaceOf(mid, "checked", "branchHash", b)
<1>1. list \in Seq(ConditionOf(Revisions, Commits))
  BY DEF Sound, StoredCondition
<1>2. mid \in Seq(ConditionOf(Revisions, Commits)) /\ DOMAIN mid = DOMAIN list
  BY <1>1, MarkResult
<1>3. /\ EnsureBranch(list, b, r) = new
      /\ "checked" \in Types /\ s \in Statuses /\ "branchHash" \in Policies
      /\ b \in Revisions
  BY DEF EnsureBranch, Types, Statuses, Policies, Revisions
<1>4. Preserves(list, new)
  BY <1>3, EnsureBranchSound
<1> HIDE DEF mid, s
<1>5. StoredAt(mid, new, m, Condition("checked", s, "branchHash", b, r))
  BY <1>2, <1>3, UpdateConditionResult
<1> HIDE DEF new, m
<1>6. \A i \in DOMAIN new \ DOMAIN list :
         /\ new[i].type = "checked" /\ new[i].tagPolicy = "branchHash"
         /\ new[i].revision \in Branches
  BY <1>2, <1>5 DEF StoredAt, Condition
<1> QED
  BY <1>3, <1>4, <1>6, OldNamed

LEMMA TagNamed ==
    ASSUME NEW list, Sound(list), Named(list), Tags # {}, NEW r \in Commits
    PROVE  Named(EnsureTag(list, r))
<1> DEFINE new == UpdateCondition(list, "checked", "False", "tagHash", "latest", r)
           m   == PlaceOf(list, "checked", "tagHash", "latest")
<1>1. list \in Seq(ConditionOf(Revisions, Commits))
  BY DEF Sound, StoredCondition
<1>2. /\ EnsureTag(list, r) = new
      /\ "checked" \in Types /\ "False" \in Statuses /\ "tagHash" \in Policies
      /\ "latest" \in Revisions
  BY DEF EnsureTag, Types, Statuses, Policies, Revisions
<1>3. StoredAt(list, new, m, Condition("checked", "False", "tagHash", "latest", r))
  BY <1>1, <1>2, UpdateConditionResult
<1>4. Preserves(list, new)
  BY <1>2, EnsureTagSound
<1> HIDE DEF new, m
<1>5. \A i \in DOMAIN new \ DOMAIN list :
         /\ new[i].type = "checked" /\ new[i].tagPolicy = "tagHash"
         /\ new[i].revision = "latest"
  BY <1>3 DEF StoredAt, Condition
<1> QED
  BY <1>2, <1>4, <1>5, OldNamed

\* The uploaded condition a check adds has the revision of the checked one.
LEMMA CheckNamed ==
    ASSUME NEW list, Sound(list), Named(list),
           NEW i \in Unchecked(list), \A j \in Unchecked(list) : i <= j,
           NEW exist \in {"True", "False"},
           NEW new, new = RecordCheck(list, [revision |-> list[i].revision,
                                             resolved |-> list[i].resolved], exist)
    PROVE  Named(new)
<1> DEFINE rev == list[i].revision
           res == list[i].resolved
           mid == [list EXCEPT ![i] = [list[i] EXCEPT !.status = "True"]]
<1>1. /\ list \in Seq(ConditionOf(Revisions, Commits))
      /\ Answered(list) /\ Keyed(list)
  BY DEF Sound, StoredCondition
<1>2. i \in DOMAIN list /\ list[i].type = "checked" /\ list[i].status = "False"
  BY DEF Unchecked, GetConditionByStatus, GetCondition
<1>3. list[i] \in ConditionOf(Revisions, Commits)
  BY <1>1, <1>2
<1>4. /\ "True" \in Statuses /\ exist \in Statuses
      /\ rev \in Revisions /\ res \in Commits
  BY <1>3 DEF Statuses, ConditionOf
<1>5. UpdateCheckedCondition(list, "True", rev, res) = mid
  <2>1. \A j \in DOMAIN list :
           list[j].type = "checked" /\ list[j].resolved = res /\ list[j].status # "True"
           => i <= j
    BY <1>1 DEF Answered, Unchecked, GetConditionByStatus, GetCondition
  <2>2. \A j \in DOMAIN list :
           SamePlace(list[j], "checked", list[i].tagPolicy, rev) => i = j
    BY <1>1, <1>2 DEF SamePlace, Keyed, GetCondition
  <2>3. list[i].status # "True"
    BY <1>2
  <2> QED
    BY <1>1, <1>2, <1>4, <2>1, <2>2, <2>3, UpdateCheckedAt
<1>6. new = UpdateUploadedCondition(mid, exist, rev, res)
  BY <1>5 DEF RecordCheck
<1>7. mid \in Seq(ConditionOf(Revisions, Commits)) /\ DOMAIN mid = DOMAIN list
  <2>1. [list[i] EXCEPT !.status = "True"] \in ConditionOf(Revisions, Commits)
    BY <1>3, <1>4 DEF ConditionOf
  <2> QED
    BY <1>1, <1>2, <2>1
<1>8. Preserves(list, new)
  BY RecordCheckSound
<1> HIDE DEF mid, rev, res
<1>9. UploadedStored(mid, new, exist, rev, res)
  BY <1>4, <1>6, <1>7, UpdateUploadedResult
<1>10. \A j \in DOMAIN new \ DOMAIN list :
          new[j].type = "uploaded" /\ new[j].tagPolicy = "unused" /\ new[j].revision = rev
  BY <1>7, <1>9 DEF UploadedStored, Condition
<1>11. rev \in Branches \/ (rev = "latest" /\ Tags # {})
  BY <1>2 DEF Named, rev
<1> QED
  BY <1>8, <1>10, <1>11, OldNamed

LEMMA BuildNamed ==
    ASSUME NEW list, Sound(list), Named(list),
           NEW at \in GetCondition(list, "uploaded"), NEW status \in {"True", "failed"}
    PROVE  Named(RecordBuild(list, list[at].resolved, status))
<1> DEFINE tag == list[at].resolved
           new == RecordBuild(list, tag, status)
<1>1. list \in Seq(ConditionOf(Revisions, Commits))
  BY DEF Sound, StoredCondition
<1>2. at \in DOMAIN list /\ list[at].type = "uploaded"
  BY DEF GetCondition
<1>3. tag \in Commits /\ status \in Statuses
  <2>1. list[at] \in ConditionOf(Revisions, Commits)
    BY <1>1, <1>2
  <2> QED
    BY <2>1 DEF ConditionOf, Statuses
<1>4. Preserves(list, new)
  BY RecordBuildSound
<1>5. new = RecordBuild(list, tag, status)
  OBVIOUS
<1>6. \E i \in DOMAIN list : list[i].type = "uploaded" /\ list[i].resolved = tag
  BY <1>2
<1> HIDE DEF new, tag
<1>7. DOMAIN new = DOMAIN list
  BY <1>1, <1>3, <1>5, <1>6, RecordBuildResult
<1>8. Named(new)
  BY <1>4, <1>7, OldNamed
<1> QED
  BY <1>8 DEF new, tag

\* The empty list of a process that has not read yet.
LEMMA EmptySound == Sound(<<>>) /\ Named(<<>>) /\ GetCheckInput(<<>>) = {}
<1>1. <<>> \in Seq(StoredCondition) /\ DOMAIN <<>> = {}
  OBVIOUS
<1> QED
  BY <1>1 DEF Sound, Named, Answered, Keyed, Backed, OnlyHeadPending, GetCheckInput, Unchecked,
     GetConditionByStatus, GetCondition

LEMMA PreservesItself ==
    ASSUME NEW list
    PROVE  Preserves(list, list)
BY DEF Preserves

LEMMA PreservesTransitive ==
    ASSUME NEW list, NEW mid, NEW new, Preserves(list, mid), Preserves(mid, new)
    PROVE  Preserves(list, new)
BY DEF Preserves

-----------------------------------------------------------------------------
(* Folds *)

\* Induction over the natural numbers, for a set of them.
LEMMA NatInductive ==
    ASSUME NEW T, 0 \in T, \A n \in Nat : n \in T => n + 1 \in T
    PROVE  Nat \subseteq T
<1> SUFFICES ASSUME NEW m \in Nat, m \notin T PROVE FALSE
  OBVIOUS
<1> DEFINE S == {n \in Nat \ {0} : n \notin T}
<1>1. m \in S /\ S \subseteq Nat \ {0}
  OBVIOUS
<1> HIDE DEF S
<1>2. PICK x \in S : \A y \in S : x <= y
  BY <1>1, LeastExists
<1>3. x \in Nat \ {0} /\ x \notin T
  BY <1>2 DEF S
<1>4. x - 1 \in Nat /\ x - 1 + 1 = x /\ x - 1 \notin S
  BY <1>1, <1>2, <1>3
<1>5. x - 1 \in T
  BY <1>4 DEF S
<1> QED
  BY <1>3, <1>4, <1>5

\* Iter is what FoldLeft computes: its value for each set of positions of turns.
Iterates(list, turns, n, iter) ==
    iter = [s \in SUBSET (1..n) |->
              IF s = {} THEN list ELSE Turn(iter[s \ {Max(s)}], turns[Max(s)])]

LEMMA MaxOfInterval ==
    ASSUME NEW n \in Nat, NEW s \in SUBSET (1..n)
    PROVE  n + 1 = Max(s \cup {n + 1})
<1> DEFINE all == s \cup {n + 1}
<1>1. n + 1 \in all /\ \A y \in all : y \in Int /\ n + 1 >= y
  OBVIOUS
<1> HIDE DEF all
<1>2. Max(all) \in all /\ \A y \in all : Max(all) >= y
  BY <1>1 DEF Max
<1>3. n + 1 = Max(all)
  BY <1>1, <1>2
<1> QED
  BY <1>3 DEF all

LEMMA IterateExists ==
    ASSUME NEW list, NEW turns, NEW m \in Nat
    PROVE  \E iter : Iterates(list, turns, m, iter)
<1> DEFINE T == {n \in Nat : \E iter : Iterates(list, turns, n, iter)}
<1>1. 0 \in T
  <2> DEFINE iter == [s \in SUBSET (1..0) |-> list]
  <2>1. SUBSET (1..0) = {{}}
    OBVIOUS
  <2>2. Iterates(list, turns, 0, iter)
    BY <2>1 DEF Iterates
  <2> QED
    BY <2>2
<1>2. ASSUME NEW n \in Nat, n \in T PROVE n + 1 \in T
  <2>1. PICK old : Iterates(list, turns, n, old)
    BY <1>2
  <2> DEFINE new == [s \in SUBSET (1..(n + 1)) |->
                       IF n + 1 \in s THEN Turn(old[s \ {n + 1}], turns[n + 1]) ELSE old[s]]
  <2>2. ASSUME NEW s \in SUBSET (1..(n + 1)), s # {}
        PROVE  new[s] = Turn(new[s \ {Max(s)}], turns[Max(s)])
    <3>1. CASE n + 1 \in s
      <4>1. s \ {n + 1} \in SUBSET (1..n) /\ (s \ {n + 1}) \cup {n + 1} = s
        BY <3>1
      <4>2. Max(s) = n + 1
        BY <4>1, MaxOfInterval
      <4>3. new[s \ {n + 1}] = old[s \ {n + 1}]
        BY <4>1
      <4> QED
        BY <3>1, <4>2, <4>3
    <3>2. CASE n + 1 \notin s
      <4>1. s \in SUBSET (1..n)
        BY <3>2
      <4>2. \A x : s \ {x} \in SUBSET (1..n) /\ n + 1 \notin s \ {x}
        BY <3>2, <4>1
      <4>3. new[s] = old[s] /\ new[s \ {Max(s)}] = old[s \ {Max(s)}]
        BY <3>2, <4>1, <4>2
      <4> HIDE DEF new
      <4> QED
        BY <2>1, <2>2, <4>1, <4>3 DEF Iterates
    <3> QED
      BY <3>1, <3>2
  <2>3. new[{}] = list
    <3>1. {} \in SUBSET (1..n) /\ {} \in SUBSET (1..(n + 1))
      OBVIOUS
    <3> QED
      BY <2>1, <3>1 DEF Iterates
  <2>4. DOMAIN new = SUBSET (1..(n + 1))
    OBVIOUS
  <2>5. new = [s \in SUBSET (1..(n + 1)) |-> new[s]]
    OBVIOUS
  <2> HIDE DEF new
  <2>6. Iterates(list, turns, n + 1, new)
    BY <2>2, <2>3, <2>5 DEF Iterates
  <2> QED
    BY <2>6
<1> HIDE DEF T
<1>3. Nat \subseteq T
  BY <1>1, <1>2, NatInductive
<1> QED
  BY <1>3 DEF T

\* The lists the turns leave one after the other, from the first on.
Path(list, turns, path) ==
    path = [n \in 0..Len(turns) |->
              IF n = 0 THEN list ELSE Turn(path[n - 1], turns[n])]

\* Turns is the last list of the path.
LEMMA TurnsPath ==
    ASSUME NEW list, NEW R, NEW turns \in Seq(R)
    PROVE  \E path : Path(list, turns, path) /\ Turns(list, turns) = path[Len(turns)]
<1>1. DOMAIN turns = 1..Len(turns) /\ Len(turns) \in Nat
  OBVIOUS
<1>2. PICK iter : Iterates(list, turns, Len(turns), iter) /\ Turns(list, turns) = iter[1..Len(turns)]
  <2>1. PICK g : Iterates(list, turns, Len(turns), g)
    BY <1>1, IterateExists
  <2>2. g = [s \in SUBSET DOMAIN turns |->
              IF s = {} THEN list ELSE Turn(g[s \ {Max(s)}], turns[Max(s)])]
    BY <1>1, <2>1 DEF Iterates
  <2>3. \E h : /\ h = [s \in SUBSET DOMAIN turns |->
                         IF s = {} THEN list ELSE Turn(h[s \ {Max(s)}], turns[Max(s)])]
               /\ Turns(list, turns) = h[DOMAIN turns]
    BY <2>2 DEF Turns, FoldLeft, MapThenFoldSet
  <2> QED
    BY <1>1, <2>3 DEF Iterates
<1> DEFINE path == [n \in 0..Len(turns) |-> iter[1..n]]
<1>3. ASSUME NEW n \in 1..Len(turns) PROVE path[n] = Turn(path[n - 1], turns[n])
  <2>1. n - 1 \in Nat /\ n - 1 \in 0..Len(turns) /\ n - 1 + 1 = n
    OBVIOUS
  <2>2. 1..(n - 1) \in SUBSET (1..(n - 1)) /\ (1..(n - 1)) \cup {n} = 1..n
    BY <2>1
  <2>3. Max(1..n) = n
    BY <2>1, <2>2, MaxOfInterval
  <2>4. (1..n) \ {n} = 1..(n - 1) /\ n \in 1..n
    BY <2>1
  <2>5. 1..n \in SUBSET (1..Len(turns))
    BY <1>1
  <2>6. iter[1..n] = Turn(iter[1..(n - 1)], turns[n])
    BY <1>2, <2>3, <2>4, <2>5 DEF Iterates
  <2> QED
    BY <2>1, <2>6
<1>4. path[0] = list
  <2>1. 1..0 = {} /\ {} \in SUBSET (1..Len(turns))
    OBVIOUS
  <2> QED
    BY <1>1, <1>2, <2>1 DEF Iterates
<1>5. path = [n \in 0..Len(turns) |-> path[n]] /\ path[Len(turns)] = iter[1..Len(turns)]
  BY <1>1
<1> HIDE DEF path
<1>6. path = [n \in 0..Len(turns) |-> IF n = 0 THEN list ELSE Turn(path[n - 1], turns[n])]
  <2>1. ASSUME NEW n \in 0..Len(turns)
        PROVE  path[n] = IF n = 0 THEN list ELSE Turn(path[n - 1], turns[n])
    <3>1. n = 0 \/ n \in 1..Len(turns)
      BY <1>1
    <3> QED
      BY <1>3, <1>4, <3>1
  <2> QED
    BY <1>5, <2>1
<1> QED
  BY <1>2, <1>5, <1>6 DEF Path

\* No turn, no change.
LEMMA TurnsEmpty ==
    ASSUME NEW list
    PROVE  Turns(list, <<>>) = list
<1>1. <<>> \in Seq({}) /\ Len(<<>>) = 0
  OBVIOUS
<1>2. PICK path : Path(list, <<>>, path) /\ Turns(list, <<>>) = path[Len(<<>>)]
  BY <1>1, TurnsPath
<1>3. path[0] = list
  BY <1>1, <1>2 DEF Path
<1> QED
  BY <1>1, <1>2, <1>3

\* The last turn works on what the turns before it have left.
LEMMA TurnsAppend ==
    ASSUME NEW list, NEW R, NEW turns \in Seq(R), NEW turn \in R
    PROVE  Turns(list, Append(turns, turn)) = Turn(Turns(list, turns), turn)
<1> DEFINE longer == Append(turns, turn)
           l == Len(turns)
<1>1. /\ longer \in Seq(R) /\ l \in Nat /\ Len(longer) = l + 1 /\ longer[l + 1] = turn
      /\ \A n \in 1..l : longer[n] = turns[n]
  OBVIOUS
<1>2. PICK short : Path(list, turns, short) /\ Turns(list, turns) = short[l]
  BY TurnsPath
<1>3. PICK path : Path(list, longer, path) /\ Turns(list, longer) = path[l + 1]
  BY <1>1, TurnsPath
<1> HIDE DEF longer, l
<1>4. short = [n \in 0..l |-> IF n = 0 THEN list ELSE Turn(short[n - 1], turns[n])]
  BY <1>2 DEF Path, l
<1>5. \A n \in 0..(l + 1) :
         path[n] = IF n = 0 THEN list ELSE Turn(path[n - 1], longer[n])
  <2>1. path = [n \in 0..(l + 1) |-> IF n = 0 THEN list ELSE Turn(path[n - 1], longer[n])]
    BY <1>1, <1>3 DEF Path
  <2> QED
    BY <2>1
<1> DEFINE T == {n \in Nat : n <= l => path[n] = short[n]}
<1>6. 0 \in T
  BY <1>1, <1>4, <1>5
<1>7. ASSUME NEW n \in Nat, n \in T PROVE n + 1 \in T
  <2> SUFFICES ASSUME n + 1 <= l PROVE path[n + 1] = short[n + 1]
    OBVIOUS
  <2>1. n <= l /\ path[n] = short[n] /\ n + 1 \in 1..l /\ n + 1 # 0 /\ n + 1 - 1 = n
    BY <1>1, <1>7
  <2>2. n + 1 \in 0..l /\ n + 1 \in 0..(l + 1)
    BY <1>1, <2>1
  <2>3. path[n + 1] = Turn(path[n], longer[n + 1])
    BY <1>5, <2>1, <2>2
  <2>4. short[n + 1] = Turn(short[n], turns[n + 1])
    BY <1>4, <2>1, <2>2
  <2> QED
    BY <1>1, <2>1, <2>3, <2>4
<1> HIDE DEF T
<1>8. l \in T
  BY <1>1, <1>6, <1>7, NatInductive
<1>9. path[l] = short[l]
  BY <1>1, <1>8 DEF T
<1>10. path[l + 1] = Turn(path[l], turn)
  <2>1. l + 1 \in 0..(l + 1) /\ l + 1 # 0 /\ l + 1 - 1 = l
    BY <1>1
  <2> QED
    BY <1>1, <1>5, <2>1
<1> QED
  BY <1>2, <1>3, <1>9, <1>10 DEF longer

\* What holds of the list, and what every turn keeps, holds after the turns: the lists
\* are told apart by their place, the number of turns so far.
LEMMA TurnsKeep ==
    ASSUME NEW list, NEW R, NEW turns \in Seq(R), NEW Kept,
           <<0, list>> \in Kept,
           \A n \in 1..Len(turns) : \A l :
              <<n - 1, l>> \in Kept => <<n, Turn(l, turns[n])>> \in Kept
    PROVE  <<Len(turns), Turns(list, turns)>> \in Kept
<1>1. PICK path : Path(list, turns, path) /\ Turns(list, turns) = path[Len(turns)]
  BY TurnsPath
<1>2. path = [n \in 0..Len(turns) |-> IF n = 0 THEN list ELSE Turn(path[n - 1], turns[n])]
  BY <1>1 DEF Path
<1> DEFINE T == {n \in Nat : n <= Len(turns) => <<n, path[n]>> \in Kept}
<1>3. 0 \in T
  BY <1>2
<1>4. ASSUME NEW n \in Nat, n \in T PROVE n + 1 \in T
  <2> SUFFICES ASSUME n + 1 <= Len(turns) PROVE <<n + 1, path[n + 1]>> \in Kept
    OBVIOUS
  <2>1. /\ n + 1 \in 1..Len(turns) /\ n + 1 \in 0..Len(turns) /\ n + 1 # 0
        /\ n + 1 - 1 = n /\ <<n, path[n]>> \in Kept
    BY <1>4
  <2>2. path[n + 1] = Turn(path[n], turns[n + 1])
    BY <1>2, <2>1
  <2> QED
    BY <2>1, <2>2
<1> HIDE DEF T
<1>5. Len(turns) \in T
  BY <1>3, <1>4, NatInductive
<1> QED
  BY <1>1, <1>5 DEF T

-----------------------------------------------------------------------------
(* Whole loops *)

\* An order of a finite set is a sequence that meets each of its elements once.
LEMMA OrderMeetsAll ==
    ASSUME NEW S, IsFiniteSet(S), NEW order \in SetToSeqs(S)
    PROVE  /\ order \in Seq(S)
           /\ \A i, j \in DOMAIN order : i # j => order[i] # order[j]
           /\ \A s \in S : \E i \in DOMAIN order : order[i] = s
<1> DEFINE n == Cardinality(S)
<1>1. n \in Nat
  BY FS_CardinalityType
<1>2. order \in [1..n -> S] /\ \A i, j \in 1..n : i # j => order[i] # order[j]
  BY DEF SetToSeqs
<1>3. IsFiniteSet(1..n) /\ Cardinality(1..n) = n
  BY <1>1, FS_Interval
<1>4. order \in Injection(1..n, S)
  BY <1>2 DEF Injection, IsInjective
<1>5. order \in Surjection(1..n, S)
  BY <1>3, <1>4, FS_Injection
<1> HIDE DEF n
<1>6. order \in Seq(S) /\ DOMAIN order = 1..n
  BY <1>1, <1>2
<1>7. \A s \in S : \E i \in DOMAIN order : order[i] = s
  BY <1>5, <1>6 DEF Surjection
<1> QED
  BY <1>2, <1>6, <1>7

\* And a sequence that meets each element once is an order of the set.
LEMMA OrderOfSet ==
    ASSUME NEW S, NEW order \in Seq(S),
           \A i, j \in DOMAIN order : i # j => order[i] # order[j],
           \A s \in S : \E i \in DOMAIN order : order[i] = s
    PROVE  order \in SetToSeqs(S)
<1> DEFINE n == Len(order)
<1>1. n \in Nat /\ DOMAIN order = 1..n /\ order \in [1..n -> S]
  OBVIOUS
<1> HIDE DEF n
<1>2. order \in Bijection(1..n, S)
  BY <1>1 DEF Bijection, Injection, Surjection, IsInjective
<1>3. Cardinality(S) = n
  BY <1>1, <1>2, FS_CountingElements DEF ExistsBijection
<1> QED
  BY <1>1, <1>3 DEF SetToSeqs

\* What a turn of each loop does.
LEMMA TurnOfDetect ==
    ASSUME NEW list, NEW key, NEW resolved
    PROVE  Turn(list, DetectTurn(key, resolved))
              = IF key \in Branches THEN EnsureBranch(list, key, resolved)
                ELSE EnsureTag(list, resolved)
BY DEF Turn, DetectTurn

LEMMA TurnOfCheck ==
    ASSUME NEW list, NEW cond, NEW exist
    PROVE  Turn(list, CheckTurn(cond, exist))
              = RecordCheck(list, [revision |-> cond.revision, resolved |-> cond.resolved],
                            exist)
BY DEF Turn, CheckTurn, RecordCheck

LEMMA TurnOfBuild ==
    ASSUME NEW list, NEW cond, NEW status
    PROVE  Turn(list, BuildTurn(cond, status)) = RecordBuild(list, cond.resolved, status)
BY DEF Turn, BuildTurn

\* A detect tick keeps a list sound.
LEMMA DetectResultsSound ==
    ASSUME IsFiniteSet(Keys), NEW list, Sound(list),
           NEW file \in [Keys -> Commits \cup {None}],
           NEW new \in DetectResults(list, file)
    PROVE  Sound(new) /\ (Named(list) => Named(new))
<1> DEFINE found == {k \in Keys : file[k] # None}
<1>1. PICK order \in SetToSeqs(found) :
         new = Turns(list, [i \in DOMAIN order |-> DetectTurn(order[i], file[order[i]])])
  BY DEF DetectResults
<1> DEFINE turns == [i \in DOMAIN order |-> DetectTurn(order[i], file[order[i]])]
           Kept == {p \in Nat \X Seq(StoredCondition) :
                      Sound(p[2]) /\ (Named(list) => Named(p[2]))}
<1>2. order \in Seq(found)
  <2>1. IsFiniteSet(found)
    BY FS_Subset
  <2> HIDE DEF found
  <2> QED
    BY <2>1, OrderMeetsAll
<1>3. DOMAIN order = 1..Len(order) /\ Len(order) \in Nat
  BY <1>2
<1>4. turns \in Seq({turns[i] : i \in DOMAIN order}) /\ Len(turns) = Len(order)
  BY <1>3
<1>5. <<0, list>> \in Kept
  BY DEF Sound
<1>6. ASSUME NEW n \in 1..Len(turns), NEW l, <<n - 1, l>> \in Kept
      PROVE  <<n, Turn(l, turns[n])>> \in Kept
  <2>1. n \in DOMAIN order /\ n \in Nat /\ Sound(l) /\ (Named(list) => Named(l))
    BY <1>3, <1>4, <1>6
  <2>2. order[n] \in Keys /\ file[order[n]] \in Commits
    BY <1>2, <2>1
  <2>3. turns[n] = DetectTurn(order[n], file[order[n]])
    BY <2>1
  <2> HIDE DEF turns
  <2>4. Sound(Turn(l, turns[n])) /\ (Named(list) => Named(Turn(l, turns[n])))
    <3>1. CASE order[n] \in Branches
      BY <2>1, <2>2, <2>3, <3>1, TurnOfDetect, EnsureBranchSound, BranchNamed
    <3>2. CASE order[n] \notin Branches
      BY <2>1, <2>2, <2>3, <3>2, TurnOfDetect, EnsureTagSound, TagNamed DEF Keys
    <3> QED
      BY <3>1, <3>2
  <2>5. Turn(l, turns[n]) \in Seq(StoredCondition)
    BY <2>4 DEF Sound
  <2> QED
    BY <2>1, <2>4, <2>5
<1> HIDE DEF Kept, turns
<1>7. <<Len(turns), Turns(list, turns)>> \in Kept
  BY <1>4, <1>5, <1>6, TurnsKeep
<1> QED
  BY <1>1, <1>7 DEF Kept, turns

\* A list has finitely many positions.
LEMMA PositionsFinite ==
    ASSUME NEW list \in Seq(StoredCondition), NEW S \in SUBSET DOMAIN list
    PROVE  IsFiniteSet(S)
<1>1. DOMAIN list = 1..Len(list) /\ Len(list) \in Int
  OBVIOUS
<1>2. IsFiniteSet(1..Len(list))
  BY <1>1, FS_Interval
<1> QED
  BY <1>1, <1>2, FS_Subset

\* A check job keeps a list sound: when its turn comes, each condition it was asked
\* about is the first one that is still open.
LEMMA CheckResultsSound ==
    ASSUME NEW list, Sound(list),
           NEW exist \in [Unchecked(list) -> {"True", "False"}],
           NEW new \in CheckResults(list, exist)
    PROVE  Sound(new) /\ (Named(list) => Named(new))
<1>1. PICK order \in SetToSeqs(Unchecked(list)) :
         /\ \A i, j \in DOMAIN order : i < j => order[i] < order[j]
         /\ new = Turns(list, [i \in DOMAIN order |->
                                 CheckTurn(list[order[i]], exist[order[i]])])
  BY DEF CheckResults
<1> DEFINE turns == [i \in DOMAIN order |-> CheckTurn(list[order[i]], exist[order[i]])]
           Kept == {p \in Nat \X Seq(StoredCondition) :
                      /\ Sound(p[2]) /\ (Named(list) => Named(p[2]))
                      /\ Unchecked(p[2]) = {order[m] : m \in {k \in DOMAIN order : k > p[1]}}
                      /\ \A i \in Unchecked(list) :
                            /\ i \in GetCondition(p[2], "checked")
                            /\ p[2][i].revision = list[i].revision
                            /\ p[2][i].resolved = list[i].resolved}
<1>2. list \in Seq(StoredCondition)
  BY DEF Sound
<1>3. /\ order \in Seq(Unchecked(list))
      /\ \A i, j \in DOMAIN order : i # j => order[i] # order[j]
      /\ \A s \in Unchecked(list) : \E i \in DOMAIN order : order[i] = s
  <2>1. Unchecked(list) \subseteq DOMAIN list
    BY DEF Unchecked, GetConditionByStatus, GetCondition
  <2> QED
    BY <1>2, <2>1, PositionsFinite, OrderMeetsAll
<1>4. DOMAIN order = 1..Len(order) /\ Len(order) \in Nat
  BY <1>3
<1>5. turns \in Seq({turns[i] : i \in DOMAIN order}) /\ Len(turns) = Len(order)
  BY <1>4
<1>6. <<0, list>> \in Kept
  <2>1. Unchecked(list) = {order[m] : m \in {k \in DOMAIN order : k > 0}}
    BY <1>3, <1>4
  <2>2. Unchecked(list) \subseteq GetCondition(list, "checked")
    BY DEF Unchecked, GetConditionByStatus
  <2> QED
    BY <1>2, <2>1, <2>2
<1>7. ASSUME NEW n \in 1..Len(turns), NEW l, <<n - 1, l>> \in Kept
      PROVE  <<n, Turn(l, turns[n])>> \in Kept
  <2> DEFINE i == order[n]
             next == Turn(l, turns[n])
  <2>1. /\ n \in DOMAIN order /\ n \in Nat /\ Sound(l) /\ (Named(list) => Named(l))
        /\ Unchecked(l) = {order[m] : m \in {k \in DOMAIN order : k > n - 1}}
        /\ \A j \in Unchecked(list) : /\ j \in GetCondition(l, "checked")
                                      /\ l[j].revision = list[j].revision
                                      /\ l[j].resolved = list[j].resolved
    BY <1>4, <1>5, <1>7
  <2>2. i \in Unchecked(list) /\ i \in Unchecked(l) /\ exist[i] \in {"True", "False"}
    BY <1>3, <1>4, <2>1
  <2>3. \A j \in Unchecked(l) : i <= j
    <3> SUFFICES ASSUME NEW m \in DOMAIN order, m > n - 1 PROVE i <= order[m]
      BY <2>1
    <3>1. n = m \/ n < m
      BY <1>4, <2>1
    <3>2. i \in Nat
      BY <1>2, <2>2 DEF Unchecked, GetConditionByStatus, GetCondition
    <3>3. n < m => order[n] < order[m]
      BY <1>1, <2>1
    <3>4. order[m] \in Nat
      <4>1. order[m] \in Unchecked(list)
        BY <1>3
      <4> QED
        BY <1>2, <4>1 DEF Unchecked, GetConditionByStatus, GetCondition
    <3> QED
      BY <3>1, <3>2, <3>3, <3>4
  <2>4. next = RecordCheck(l, [revision |-> l[i].revision, resolved |-> l[i].resolved],
                           exist[i])
    <3>1. turns[n] = CheckTurn(list[i], exist[i])
      BY <2>1
    <3> QED
      BY <2>1, <2>2, <3>1, TurnOfCheck
  <2> HIDE DEF next
  <2>5. Named(list) => Named(next)
    BY <2>1, <2>2, <2>3, <2>4, CheckNamed
  <2>6. Sound(l)
    BY <2>1
  <2>7. /\ Sound(next) /\ Preserves(l, next)
        /\ Unchecked(next) = Unchecked(l) \ {i} /\ SameHeads(l, next)
    BY <2>6, <2>2, <2>3, <2>4, RecordCheckSound
  <2>8. Unchecked(next) = {order[m] : m \in {k \in DOMAIN order : k > n}}
    <3>1. \A k \in DOMAIN order : k > n <=> (k > n - 1 /\ k # n)
      BY <1>4
    <3> QED
      BY <1>3, <2>1, <2>7, <3>1
  <2>9. \A j \in Unchecked(list) : /\ j \in GetCondition(next, "checked")
                                   /\ next[j].revision = list[j].revision
                                   /\ next[j].resolved = list[j].resolved
    BY <2>1, <2>7 DEF SameHeads, Preserves, GetCondition
  <2>10. next \in Seq(StoredCondition)
    BY <2>7 DEF Sound
  <2> QED
    BY <2>1, <2>5, <2>7, <2>8, <2>9, <2>10 DEF next
<1> HIDE DEF Kept, turns
<1>8. <<Len(turns), Turns(list, turns)>> \in Kept
  BY <1>5, <1>6, <1>7, TurnsKeep
<1> QED
  BY <1>1, <1>8 DEF Kept, turns

\* An upload job keeps a list sound: the builds it was given keep their conditions.
LEMMA UploadResultsSound ==
    ASSUME NEW list, Sound(list),
           NEW status \in [Pending(list) -> {"True", "failed"}],
           NEW new \in UploadResults(list, status)
    PROVE  Sound(new) /\ (Named(list) => Named(new))
<1>1. PICK order \in SetToSeqs(Pending(list)) :
         new = Turns(list, [i \in DOMAIN order |->
                              BuildTurn(list[order[i]], status[order[i]])])
  BY DEF UploadResults
<1> DEFINE turns == [i \in DOMAIN order |-> BuildTurn(list[order[i]], status[order[i]])]
           Kept == {p \in Nat \X Seq(StoredCondition) :
                      /\ Sound(p[2]) /\ (Named(list) => Named(p[2]))
                      /\ \A i \in Pending(list) :
                            /\ i \in GetCondition(p[2], "uploaded")
                            /\ p[2][i].resolved = list[i].resolved}
<1>2. list \in Seq(StoredCondition)
  BY DEF Sound
<1>3. order \in Seq(Pending(list))
  <2>1. Pending(list) \subseteq DOMAIN list
    BY DEF Pending, GetCondition
  <2> QED
    BY <1>2, <2>1, PositionsFinite, OrderMeetsAll
<1>4. DOMAIN order = 1..Len(order) /\ Len(order) \in Nat
  BY <1>3
<1>5. turns \in Seq({turns[i] : i \in DOMAIN order}) /\ Len(turns) = Len(order)
  BY <1>4
<1>6. <<0, list>> \in Kept
  BY <1>2 DEF Pending
<1>7. ASSUME NEW n \in 1..Len(turns), NEW l, <<n - 1, l>> \in Kept
      PROVE  <<n, Turn(l, turns[n])>> \in Kept
  <2> DEFINE at == order[n]
             next == Turn(l, turns[n])
  <2>1. /\ n \in DOMAIN order /\ n \in Nat /\ Sound(l) /\ (Named(list) => Named(l))
        /\ \A i \in Pending(list) : /\ i \in GetCondition(l, "uploaded")
                                    /\ l[i].resolved = list[i].resolved
    BY <1>4, <1>5, <1>7
  <2>2. at \in Pending(list) /\ status[at] \in {"True", "failed"}
    BY <1>3, <1>4, <2>1
  <2>3. next = RecordBuild(l, l[at].resolved, status[at])
    <3>1. turns[n] = BuildTurn(list[at], status[at])
      BY <2>1
    <3> QED
      BY <2>1, <2>2, <3>1, TurnOfBuild
  <2> HIDE DEF next
  <2>4. Named(list) => Named(next)
    BY <2>1, <2>2, <2>3, BuildNamed
  <2>5. Sound(next) /\ SameBuilds(l, next)
    BY <2>1, <2>2, <2>3, RecordBuildSound
  <2>6. \A i \in Pending(list) : /\ i \in GetCondition(next, "uploaded")
                                 /\ next[i].resolved = list[i].resolved
    BY <2>1, <2>5 DEF SameBuilds
  <2>7. next \in Seq(StoredCondition)
    BY <2>5 DEF Sound
  <2> QED
    BY <2>1, <2>4, <2>5, <2>6, <2>7 DEF next
<1> HIDE DEF Kept, turns
<1>8. <<Len(turns), Turns(list, turns)>> \in Kept
  BY <1>5, <1>6, <1>7, TurnsKeep
<1> QED
  BY <1>1, <1>8 DEF Kept, turns
=============================================================================
