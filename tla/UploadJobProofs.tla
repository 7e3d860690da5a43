--------------------------- MODULE UploadJobProofs ---------------------------
(***************************************************************************)
(* An upload job cannot put an old failure over a recorded success or a    *)
(* canceled build, for any conditions and any number of writes by others:  *)
(* a pod whose copy is current holds the stored statuses, and it has       *)
(* results only for the commits that are pending in its copy.              *)
(***************************************************************************)
EXTENDS UploadJob, TLAPS

LEMMA InitTypes == Init => TypeOK
<1> SUFFICES ASSUME Init PROVE TypeOK
  OBVIOUS
<1>1. /\ status = [b \in Builds |-> "none"] /\ copy = status
      /\ job = "none" /\ ~running /\ ~current
      /\ writes = 0 /\ input = {}
      /\ result = [b \in Builds |-> "none"]
      /\ ~expired /\ ~killed
  BY DEF Init, Output!Init
<1>2. /\ running \in BOOLEAN /\ current \in BOOLEAN
      /\ expired \in BOOLEAN /\ killed \in BOOLEAN
  BY Zenon DEF Init, Output!Init
<1>3. /\ status \in [Builds -> Statuses] /\ copy \in [Builds -> Statuses]
      /\ result \in [Builds -> {"none", "True", "failed"}]
  BY <1>1 DEF Statuses
<1>4. writes \in 0..MaxWrites
  BY <1>1, WritesAssumption
<1> QED
  BY <1>1, <1>2, <1>3, <1>4 DEF TypeOK

\* One result of Output.
LEMMA ResultKeepsTypes ==
    ASSUME TypeOK, NEW b \in Builds, Output!Succeeds(b) \/ Output!Fails(b),
           UNCHANGED <<stored, job, running, copy, current>>
    PROVE  TypeOK'
<1>1. PICK r \in {"True", "failed"} : result' = [result EXCEPT ![b] = r]
  BY DEF Output!Succeeds, Output!Fails, Output!Result
<1>2. UNCHANGED <<status, writes, job, running, copy, current, input, expired, killed>>
  BY DEF stored, Output!Succeeds, Output!Fails, Output!Result
<1>3. result' \in [Builds -> {"none", "True", "failed"}]
  BY <1>1 DEF TypeOK
<1> QED
  BY <1>2, <1>3 DEF TypeOK, Pending

\* A commit's result under each of its conditions.
LEMMA RecordedTypes ==
    ASSUME NEW statuses \in [Builds -> Statuses], NEW commits,
           NEW results \in [commits -> {"True", "failed"}]
    PROVE  /\ Recorded(statuses, results) \in [Builds -> Statuses]
           /\ \A b \in Builds : statuses[b] # "failed" /\ Recorded(statuses, results)[b] = "failed"
                                 => b.commit \in commits
BY DEF Recorded, Statuses

\* Somebody else's write.
LEMMA OtherKeepsTypes ==
    ASSUME TypeOK, NEW statuses \in [Builds -> Statuses], OtherWrites(statuses)
    PROVE  TypeOK'
<1>1. /\ status' = statuses /\ writes' = writes + 1 /\ writes < MaxWrites
      /\ current' = FALSE
      /\ UNCHANGED <<job, running, copy, input, result, expired, killed>>
  BY DEF OtherWrites, output
<1>2. writes' \in 0..MaxWrites
  BY <1>1, WritesAssumption DEF TypeOK
<1>3. current' \in BOOLEAN
  BY <1>1, Zenon
<1> QED
  BY <1>1, <1>2, <1>3 DEF TypeOK, Pending

LEMMA NextKeepsTypes == TypeOK /\ [Next]_vars => TypeOK'
<1> SUFFICES ASSUME TypeOK, [Next]_vars PROVE TypeOK'
  OBVIOUS
<1>1. CASE CheckWrites \/ DetectWrites \/ UploadWrites
  <2>1. CASE CheckWrites
    <3>1. PICK b \in Builds, exist \in {"True", "False"} :
              OtherWrites([status EXCEPT ![b] = exist])
      BY <2>1 DEF CheckWrites
    <3>2. [status EXCEPT ![b] = exist] \in [Builds -> Statuses]
      BY DEF TypeOK, Statuses
    <3> QED
      BY <3>1, <3>2, OtherKeepsTypes
  <2>2. CASE DetectWrites
    <3>1. PICK b \in Builds : OtherWrites([status EXCEPT ![b] = "canceled"])
      BY <2>2 DEF DetectWrites
    <3>2. [status EXCEPT ![b] = "canceled"] \in [Builds -> Statuses]
      BY DEF TypeOK, Statuses
    <3> QED
      BY <3>1, <3>2, OtherKeepsTypes
  <2>3. CASE UploadWrites
    <3>1. PICK results \in [{b.commit : b \in Pending(status)} -> {"True", "failed"}] :
              OtherWrites(Recorded(status, results))
      BY <2>3 DEF UploadWrites
    <3>2. Recorded(status, results) \in [Builds -> Statuses]
      BY RecordedTypes DEF TypeOK
    <3> QED
      BY <3>1, <3>2, OtherKeepsTypes
  <2> QED
    BY <1>1, <2>1, <2>2, <2>3
<1>2. CASE JobCreated
  BY <1>2 DEF JobCreated, TypeOK, stored, output, Pending
<1>3. CASE JobGivesUp
  BY <1>3 DEF JobGivesUp, TypeOK, stored, output, Pending
<1>4. CASE PodStarts
  <2>1. /\ job # "none" /\ running' = TRUE /\ current' = TRUE /\ copy' = status
        /\ UNCHANGED <<status, writes, job>>
        /\ input' = Pending(status)
        /\ result' = [b \in Builds |-> "none"]
        /\ expired' = FALSE /\ killed' = FALSE
    BY <1>4 DEF PodStarts, stored, Output!Start
  <2>2. /\ running' \in BOOLEAN /\ current' \in BOOLEAN
        /\ expired' \in BOOLEAN /\ killed' \in BOOLEAN
    BY <2>1, Zenon
  <2>3. input' \subseteq Builds /\ input' = Pending(copy)'
    BY <2>1 DEF Pending
  <2>4. result' \in [Builds -> {"none", "True", "failed"}]
    BY <2>1
  <2> QED
    BY <2>1, <2>2, <2>3, <2>4 DEF TypeOK
<1>5. CASE \E b \in Builds : BuildEnds(b) \/ BuildExpires(b)
  BY <1>5, ResultKeepsTypes DEF BuildEnds, BuildExpires
<1>6. CASE Expire
  <2>1. expired' = TRUE
        /\ UNCHANGED <<status, writes, job, running, copy, current, input, result, killed>>
    BY <1>6 DEF Expire, Output!Expire, stored
  <2>2. expired' \in BOOLEAN
    BY <2>1, Zenon
  <2> QED
    BY <2>1, <2>2 DEF TypeOK, Pending
<1>7. CASE Record
  <2>1. /\ running' = FALSE /\ current' = FALSE
        /\ UNCHANGED <<writes, copy, input, result, expired, killed>>
        /\ job' \in {"none", "created", "retried"}
        /\ Output!Returned
    BY <1>7 DEF Record, output
  <2>2. \A results \in LastResults : Recorded(copy, results) \in [Builds -> Statuses]
    BY RecordedTypes DEF LastResults, TypeOK
  <2>3. (\E results \in LastResults : status' = Recorded(copy, results)) \/ status' = status
    BY <1>7 DEF Record
  <2>4. status' \in [Builds -> Statuses]
    BY <2>2, <2>3 DEF TypeOK
  <2>5. running' \in BOOLEAN /\ current' \in BOOLEAN
    BY <2>1, Zenon
  <2> QED
    BY <2>1, <2>4, <2>5 DEF TypeOK
<1>8. CASE PodDies
  <2>1. /\ running' = FALSE /\ current' = FALSE /\ job' = "retried" /\ killed' = TRUE
        /\ UNCHANGED <<status, writes, copy, input, result, expired>>
    BY <1>8 DEF PodDies, stored, Output!Die
  <2>2. running' \in BOOLEAN /\ current' \in BOOLEAN /\ killed' \in BOOLEAN
    BY <2>1, Zenon
  <2> QED
    BY <2>1, <2>2 DEF TypeOK
<1>9. CASE UNCHANGED vars
  BY <1>9 DEF vars, stored, output, TypeOK, Pending
<1> QED
  BY <1>1, <1>2, <1>3, <1>4, <1>5, <1>6, <1>7, <1>8, <1>9 DEF Next

\* The types of UploadJob; without a pod that runs nothing is current, and one that
\* runs waits for what its copy says is pending.
THEOREM TypeCorrectness == Spec => []TypeOK
BY InitTypes, NextKeepsTypes, PTL DEF Spec

\* Only a write changes the stored statuses, and one of a pod has failures of commits
\* that are pending in its copy.
LEMMA FailureIsPending ==
    ASSUME TypeOK, [Next]_vars, NEW b \in Builds, status[b] # "failed", status'[b] = "failed"
    PROVE  \E a \in Pending(status) : a.commit = b.commit
<1>1. CASE CheckWrites \/ DetectWrites
  <2>1. PICK a \in Builds, s \in {"True", "False", "canceled"} :
            OtherWrites([status EXCEPT ![a] = s])
    BY <1>1 DEF CheckWrites, DetectWrites
  <2>2. status' = [status EXCEPT ![a] = s]
    BY <2>1 DEF OtherWrites
  <2> QED
    BY <2>2 DEF TypeOK
<1>2. CASE UploadWrites
  <2>1. PICK results \in [{a.commit : a \in Pending(status)} -> {"True", "failed"}] :
            OtherWrites(Recorded(status, results))
    BY <1>2 DEF UploadWrites
  <2>2. status'[b] = Recorded(status, results)[b]
    BY <2>1 DEF OtherWrites
  <2> QED
    BY <2>2, RecordedTypes DEF TypeOK
<1>3. CASE Record
  <2>1. CASE current /\ \E results \in LastResults : status' = Recorded(copy, results)
    <3>1. running /\ copy = status /\ input = Pending(status)
      BY <1>3, <2>1 DEF Record, TypeOK
    <3>2. PICK results \in LastResults : status' = Recorded(copy, results)
      BY <2>1
    <3>3. results \in [{a.commit : a \in Pending(status)} -> {"True", "failed"}]
      BY <3>1 DEF LastResults
    <3> QED
      BY <3>1, <3>2, <3>3, RecordedTypes DEF TypeOK
  <2>2. CASE status' = status
    BY <2>2
  <2> QED
    BY <1>3, <2>1, <2>2 DEF Record
<1>4. CASE status' = status
  BY <1>4
<1> QED
  BY <1>1, <1>2, <1>3, <1>4 DEF Next, JobCreated, JobGivesUp, PodStarts, BuildEnds,
     BuildExpires, Expire, PodDies, stored, vars

\* A condition fails only while its commit has a pending build: a pod that was started
\* before a success or a cancellation was stored cannot put its failure over it
\* (upload.go:64-74, 196-222).
THEOREM FailuresArePending == Spec => OnlyPendingFails
<1>1. TypeOK /\ [Next]_vars
      => [\A b \in Builds :
             status[b] # "failed" /\ status'[b] = "failed" =>
                 \E a \in Pending(status) : a.commit = b.commit]_status
  BY FailureIsPending
<1> QED
  BY <1>1, TypeCorrectness, PTL DEF Spec, OnlyPendingFails
=============================================================================
