------------------------ MODULE GithubDispatchProofs ------------------------
(***************************************************************************)
(* Whatever GitHub, the signals and the other runs do, and for any number  *)
(* of builds and attempts: a pod starts at most "Attempts" runs of a       *)
(* commit, reports no success unless the run it waits for has concluded, and *)
(* what its caller sees of it are steps of UploadOutput.                   *)
(***************************************************************************)
EXTENDS GithubDispatchRefinement, FiniteSetTheorems, TLAPS

WorkflowRuns == [ref : Builds \cup {Others}, state : RunStates]

Tasks == [pc : {"dispatch", "detect", "wait", "done"}, attempt : 1..Attempts, run : Nat]

Types ==
    /\ dispatched \in [Builds -> Nat]
    /\ runs \in Seq(WorkflowRuns)
    /\ task \in [Builds -> Tasks]
    /\ result \in [Builds -> {"none", "True", "failed"}]
    /\ process \in {"up", "terminating", "killed"}
    /\ expired \in BOOLEAN /\ notified \in BOOLEAN
    /\ signaled \subseteq Builds

\* An attempt is counted before its dispatch: one that has not dispatched yet still
\* has its run to give.
Started(b) == task[b].attempt - (IF task[b].pc = "dispatch" THEN 1 ELSE 0)

\* What a goroutine knows of its build.
TaskSound(b) ==
    /\ result[b] # "none" <=> task[b].pc = "done"
    /\ task[b].pc = "wait" \/ result[b] = "True" => task[b].run \in DOMAIN runs
    /\ result[b] = "True" => runs[task[b].run].state \in Concluded
    /\ result[b] = "failed" => task[b].attempt = Attempts
    /\ RunsOf(b) + dispatched[b] <= Started(b)

IInv == Types /\ \A b \in Builds : TaskSound(b)

-----------------------------------------------------------------------------
(* Counting runs *)

RunsIn(rs, ref) == {i \in DOMAIN rs : rs[i].ref = ref}

\* The runs for one commit are counted by a number, which a new run raises by one
\* at most.
LEMMA RunAdded ==
    ASSUME NEW S, NEW s \in Seq(S), NEW e \in S, NEW x
    PROVE  /\ Cardinality(RunsIn(s, x)) \in Nat
           /\ Cardinality(RunsIn(Append(s, e), x)) =
                  Cardinality(RunsIn(s, x)) + (IF e.ref = x THEN 1 ELSE 0)
<1> DEFINE Of(q) == {i \in DOMAIN q : q[i].ref = x}
           n == Len(s)
<1>1. n \in Nat /\ DOMAIN s = 1..n
  OBVIOUS
<1>2. IsFiniteSet(Of(s)) /\ Cardinality(Of(s)) \in Nat
  <2>1. IsFiniteSet(1..n)
    BY <1>1, FS_Interval
  <2>2. Of(s) \in SUBSET (1..n)
    BY <1>1
  <2> QED
    BY <2>1, <2>2, FS_Subset, FS_CardinalityType
<1>3. /\ Append(s, e) \in Seq(S) /\ Len(Append(s, e)) = n + 1
      /\ DOMAIN Append(s, e) = 1..(n + 1)
      /\ Append(s, e)[n + 1] = e
      /\ \A i \in 1..n : Append(s, e)[i] = s[i]
  OBVIOUS
<1>4. Of(Append(s, e)) = IF e.ref = x THEN Of(s) \cup {n + 1} ELSE Of(s)
  <2>1. \A i : i \in 1..(n + 1) <=> i \in 1..n \/ i = n + 1
    BY <1>1
  <2> QED
    BY <1>1, <1>3, <2>1
<1>5. n + 1 \notin Of(s)
  BY <1>1
<1>6. Cardinality(Of(s) \cup {n + 1}) = Cardinality(Of(s)) + 1
  BY <1>2, <1>5, FS_AddElement
<1>7. RunsIn(s, x) = Of(s) /\ RunsIn(Append(s, e), x) = Of(Append(s, e))
  BY DEF RunsIn
<1> HIDE DEF Of
<1> QED
  BY <1>2, <1>4, <1>6, <1>7

\* A run that ends is a run of the same commit.
LEMMA RunEnded ==
    ASSUME Types, NEW i \in DOMAIN runs, NEW c \in RunStates,
           runs' = [runs EXCEPT ![i].state = c]
    PROVE  /\ runs' \in Seq(WorkflowRuns)
           /\ DOMAIN runs' = DOMAIN runs
           /\ \A j \in DOMAIN runs : runs'[j].state = IF j = i THEN c ELSE runs[j].state
           /\ \A x : RunsOf(x)' = RunsOf(x)
<1>1. runs \in Seq(WorkflowRuns)
  BY DEF Types
<1>2. runs[i] \in WorkflowRuns
  BY <1>1
<1>3. [runs[i] EXCEPT !.state = c] \in WorkflowRuns
  BY <1>2 DEF WorkflowRuns
<1>4. runs' = [runs EXCEPT ![i] = [runs[i] EXCEPT !.state = c]]
  OBVIOUS
<1>5. runs' \in Seq(WorkflowRuns) /\ DOMAIN runs' = DOMAIN runs
  BY <1>1, <1>3, <1>4
<1>6. \A j \in DOMAIN runs : /\ runs'[j].state = IF j = i THEN c ELSE runs[j].state
                             /\ runs'[j].ref = runs[j].ref
  <2> TAKE j \in DOMAIN runs
  <2>1. CASE j = i
    <3>1. runs'[j] = [runs[i] EXCEPT !.state = c]
      BY <1>4, <2>1
    <3> QED
      BY <1>2, <2>1, <3>1 DEF WorkflowRuns
  <2>2. CASE j # i
    BY <1>4, <2>2
  <2> QED
    BY <2>1, <2>2
<1>7. ASSUME NEW x PROVE RunsOf(x)' = RunsOf(x)
  <2>1. {j \in DOMAIN runs' : runs'[j].ref = x} = {j \in DOMAIN runs : runs[j].ref = x}
    BY <1>5, <1>6
  <2> QED
    BY <2>1 DEF RunsOf
<1> QED
  BY <1>5, <1>6, <1>7

LEMMA RunsOfType == ASSUME Types, NEW x PROVE RunsOf(x) \in Nat
<1>1. runs \in Seq(WorkflowRuns)
  BY DEF Types
<1>2. PICK e : e \in WorkflowRuns
  <2>1. [ref |-> Others, state |-> "waiting"] \in WorkflowRuns
    BY DEF WorkflowRuns, RunStates
  <2> QED
    BY <2>1
<1>3. Cardinality(RunsIn(runs, x)) \in Nat
  BY <1>1, <1>2, RunAdded
<1> QED
  BY <1>3 DEF RunsOf, RunsIn

LEMMA RunAppended ==
    ASSUME Types, NEW e \in WorkflowRuns, runs' = Append(runs, e)
    PROVE  /\ runs' \in Seq(WorkflowRuns)
           /\ DOMAIN runs \subseteq DOMAIN runs'
           /\ \A j \in DOMAIN runs : runs'[j] = runs[j]
           /\ \A x : RunsOf(x)' = RunsOf(x) + (IF e.ref = x THEN 1 ELSE 0)
<1>1. runs \in Seq(WorkflowRuns)
  BY DEF Types
<1>2. ASSUME NEW x PROVE RunsOf(x)' = RunsOf(x) + (IF e.ref = x THEN 1 ELSE 0)
  <2>1. Cardinality(RunsIn(Append(runs, e), x)) =
            Cardinality(RunsIn(runs, x)) + (IF e.ref = x THEN 1 ELSE 0)
    BY <1>1, RunAdded
  <2>2. RunsOf(x) = Cardinality(RunsIn(runs, x))
    BY DEF RunsOf, RunsIn
  <2>3. RunsOf(x)' = Cardinality(RunsIn(Append(runs, e), x))
    BY DEF RunsOf, RunsIn
  <2> QED
    BY <2>1, <2>2, <2>3
<1> QED
  BY <1>1, <1>2

-----------------------------------------------------------------------------
(* The invariant *)

LEMMA InitInv == Init => IInv
<1> SUFFICES ASSUME Init PROVE IInv
  OBVIOUS
<1> DEFINE r == [ref |-> Others, state |-> "success"]
<1>1. r \in WorkflowRuns /\ r.ref = Others
  BY DEF WorkflowRuns, RunStates
<1>2. runs = <<>> \/ runs = <<r>>
  BY DEF Init
<1> HIDE DEF r
<1>3. runs \in Seq(WorkflowRuns)
  <2>1. CASE runs = <<>>
    BY <2>1
  <2>2. CASE runs = <<r>>
    BY <1>1, <2>2
  <2> QED
    BY <1>2, <2>1, <2>2
<1>4. \A i \in DOMAIN runs : runs[i] = r
  BY <1>2
<1>5. ASSUME NEW b \in Builds PROVE RunsOf(b) = 0
  <2>1. {i \in DOMAIN runs : runs[i].ref = b} = {}
    BY <1>1, <1>4, OthersAssumption
  <2> QED
    BY <2>1, FS_EmptySet DEF RunsOf
<1>6. /\ dispatched = [b \in Builds |-> 0]
      /\ task = [b \in Builds |-> [pc |-> "dispatch", attempt |-> 1, run |-> 0]]
      /\ result = [b \in Builds |-> "none"]
  BY DEF Init
<1>7. [pc |-> "dispatch", attempt |-> 1, run |-> 0] \in Tasks
  BY AttemptsAssumption DEF Tasks
<1>8. task \in [Builds -> Tasks]
  BY <1>6, <1>7
<1>9. Types
  <2>1. /\ dispatched \in [Builds -> Nat]
        /\ result \in [Builds -> {"none", "True", "failed"}]
    BY <1>6
  <2>2. /\ expired \in BOOLEAN /\ notified \in BOOLEAN
        /\ process = "up" /\ signaled = {}
    BY Zenon DEF Init
  <2> QED
    BY <1>3, <1>8, <2>1, <2>2 DEF Types
<1>10. ASSUME NEW b \in Builds PROVE TaskSound(b)
  <2>1. /\ task[b].pc = "dispatch" /\ task[b].attempt = 1
        /\ result[b] = "none" /\ dispatched[b] = 0
    BY <1>6
  <2>2. Started(b) = 0
    BY <2>1 DEF Started
  <2>3. RunsOf(b) + dispatched[b] <= Started(b)
    BY <1>5, <2>1, <2>2
  <2> QED
    BY <2>1, <2>3 DEF TaskSound
<1> QED
  BY <1>9, <1>10 DEF IInv

\* What a goroutine knows stays true when the list of runs grows or a run ends.
LEMMA RunsKeepInv ==
    ASSUME IInv,
           UNCHANGED <<task, result, process, expired, notified, signaled>>,
           \/ \E b \in Builds : RunCreated(b)
           \/ OtherRunCreated
           \/ \E i \in DOMAIN runs, c \in Conclusions : RunEnds(i, c)
    PROVE  IInv'
<1>1. Types /\ \A b \in Builds : TaskSound(b)
  BY DEF IInv
<1>2. CASE \E b \in Builds : RunCreated(b)
  <2>1. PICK b \in Builds : RunCreated(b)
    BY <1>2
  <2> DEFINE e == [ref |-> b, state |-> "waiting"]
  <2>2. e \in WorkflowRuns /\ e.ref = b
    BY DEF WorkflowRuns, RunStates
  <2>3. runs' = Append(runs, e) /\ dispatched[b] > 0
        /\ dispatched' = [dispatched EXCEPT ![b] = @ - 1]
    BY <2>1 DEF RunCreated
  <2> HIDE DEF e
  <2>4. /\ runs' \in Seq(WorkflowRuns)
        /\ DOMAIN runs \subseteq DOMAIN runs'
        /\ \A j \in DOMAIN runs : runs'[j] = runs[j]
        /\ \A x : RunsOf(x)' = RunsOf(x) + (IF b = x THEN 1 ELSE 0)
    BY <1>1, <2>2, <2>3, RunAppended
  <2>5. /\ dispatched' \in [Builds -> Nat]
        /\ \A x \in Builds : dispatched'[x] = dispatched[x] - (IF b = x THEN 1 ELSE 0)
    <3>1. dispatched \in [Builds -> Nat]
      BY <1>1 DEF Types
    <3>2. dispatched[b] \in Nat /\ dispatched[b] - 1 \in Nat
      BY <2>3, <3>1
    <3>3. dispatched' = [dispatched EXCEPT ![b] = dispatched[b] - 1]
      BY <2>3
    <3> QED
      BY <3>1, <3>2, <3>3
  <2>6. Types'
    BY <1>1, <2>4, <2>5 DEF Types
  <2>7. ASSUME NEW x \in Builds PROVE TaskSound(x)'
    <3>1. TaskSound(x) /\ RunsOf(x) \in Nat
      BY <1>1, RunsOfType
    <3>2. RunsOf(x)' + dispatched'[x] = RunsOf(x) + dispatched[x]
      <4>1. dispatched[x] \in Nat
        BY <1>1 DEF Types
      <4> QED
        BY <2>4, <2>5, <3>1, <4>1
    <3>3. Started(x)' = Started(x)
      BY DEF Started
    <3> QED
      BY <2>4, <3>1, <3>2, <3>3 DEF TaskSound
  <2> QED
    BY <2>6, <2>7 DEF IInv
<1>3. CASE OtherRunCreated
  <2> DEFINE e == [ref |-> Others, state |-> "waiting"]
  <2>2. e \in WorkflowRuns /\ e.ref = Others
    BY DEF WorkflowRuns, RunStates
  <2>3. runs' = Append(runs, e) /\ dispatched' = dispatched
    BY <1>3 DEF OtherRunCreated
  <2> HIDE DEF e
  <2>4. /\ runs' \in Seq(WorkflowRuns)
        /\ DOMAIN runs \subseteq DOMAIN runs'
        /\ \A j \in DOMAIN runs : runs'[j] = runs[j]
        /\ \A x : RunsOf(x)' = RunsOf(x) + (IF Others = x THEN 1 ELSE 0)
    BY <1>1, <2>2, <2>3, RunAppended
  <2>6. Types'
    BY <1>1, <2>3, <2>4 DEF Types
  <2>7. ASSUME NEW x \in Builds PROVE TaskSound(x)'
    <3>1. TaskSound(x) /\ RunsOf(x) \in Nat
      BY <1>1, RunsOfType
    <3>2. RunsOf(x)' = RunsOf(x)
      BY <2>4, <3>1, OthersAssumption
    <3>3. Started(x)' = Started(x)
      BY DEF Started
    <3> QED
      BY <2>3, <2>4, <3>1, <3>2, <3>3 DEF TaskSound
  <2> QED
    BY <2>6, <2>7 DEF IInv
<1>4. CASE \E i \in DOMAIN runs, c \in Conclusions : RunEnds(i, c)
  <2>1. PICK i \in DOMAIN runs, c \in Conclusions : RunEnds(i, c)
    BY <1>4
  <2>2. c \in RunStates /\ c # "waiting"
    BY DEF Conclusions, RunStates
  <2>3. runs' = [runs EXCEPT ![i].state = c] /\ dispatched' = dispatched
        /\ runs[i].state \notin Concluded
    BY <2>1 DEF RunEnds, Concluded
  <2>4. /\ runs' \in Seq(WorkflowRuns)
        /\ DOMAIN runs' = DOMAIN runs
        /\ \A j \in DOMAIN runs : runs'[j].state = IF j = i THEN c ELSE runs[j].state
        /\ \A x : RunsOf(x)' = RunsOf(x)
    BY <1>1, <2>2, <2>3, RunEnded
  <2>6. Types'
    BY <1>1, <2>3, <2>4 DEF Types
  <2>7. ASSUME NEW x \in Builds PROVE TaskSound(x)'
    <3>1. TaskSound(x)
      BY <1>1
    <3>3. Started(x)' = Started(x)
      BY DEF Started
    <3> QED
      BY <2>2, <2>3, <2>4, <3>1, <3>3 DEF TaskSound
  <2> QED
    BY <2>6, <2>7 DEF IInv
<1> QED
  BY <1>2, <1>3, <1>4

\* Steps that touch neither runs nor goroutines.
LEMMA ProcessKeepsInv == IInv /\ (Deadline \/ Sigterm \/ Kill) => IInv'
<1> SUFFICES ASSUME IInv, Deadline \/ Sigterm \/ Kill PROVE IInv'
  OBVIOUS
<1>1. UNCHANGED <<dispatched, runs, task, result>>
  BY DEF Deadline, Sigterm, Kill
<1>2. Types'
  BY <1>1 DEF IInv, Types, Deadline, Sigterm, Kill
<1>3. ASSUME NEW b \in Builds PROVE TaskSound(b)'
  BY <1>1 DEF IInv, TaskSound, Started, RunsOf
<1> QED
  BY <1>2, <1>3 DEF IInv

\* A step of the goroutine of b leaves the others alone: it keeps the invariant if
\* it keeps what is known of b.
LEMMA OwnStep ==
    ASSUME IInv, NEW b \in Builds, Types', TaskSound(b)',
           \/ UNCHANGED runs
           \/ \E i \in DOMAIN runs : /\ runs[i].state = "waiting"
                                     /\ runs' = [runs EXCEPT ![i].state = "cancelled"],
           \A x \in Builds \ {b} : /\ task'[x] = task[x]
                                   /\ result'[x] = result[x]
                                   /\ dispatched'[x] = dispatched[x]
    PROVE  IInv'
<1>1. Types /\ \A x \in Builds : TaskSound(x)
  BY DEF IInv
<1>2. /\ DOMAIN runs' = DOMAIN runs
      /\ \A j \in DOMAIN runs : runs[j].state \in Concluded => runs'[j].state \in Concluded
      /\ \A x : RunsOf(x)' = RunsOf(x)
  <2>1. CASE UNCHANGED runs
    BY <2>1 DEF RunsOf
  <2>2. CASE \E i \in DOMAIN runs : /\ runs[i].state = "waiting"
                                    /\ runs' = [runs EXCEPT ![i].state = "cancelled"]
    <3>1. "cancelled" \in RunStates /\ "waiting" \notin Concluded
      BY DEF RunStates, Concluded
    <3>2. PICK i \in DOMAIN runs : /\ runs[i].state = "waiting"
                                   /\ runs' = [runs EXCEPT ![i].state = "cancelled"]
      BY <2>2
    <3>3. /\ DOMAIN runs' = DOMAIN runs
          /\ \A j \in DOMAIN runs :
                runs'[j].state = IF j = i THEN "cancelled" ELSE runs[j].state
          /\ \A x : RunsOf(x)' = RunsOf(x)
      BY <1>1, <3>1, <3>2, RunEnded
    <3> QED
      BY <3>1, <3>2, <3>3
  <2> QED
    BY <2>1, <2>2
<1>3. ASSUME NEW x \in Builds \ {b} PROVE TaskSound(x)'
  <2>1. TaskSound(x) /\ Started(x)' = Started(x)
    BY <1>1 DEF Started
  <2> QED
    BY <1>2, <2>1 DEF TaskSound
<1> QED
  BY <1>3 DEF IInv

\* An attempt that fails has used its run up, whether it dispatched one or not.
LEMMA FailedAttemptKeepsInv ==
    ASSUME IInv, NEW b \in Builds, task[b].pc # "done", AttemptFails(b),
           UNCHANGED <<process, expired, notified>>,
           \/ UNCHANGED runs
           \/ \E i \in DOMAIN runs : /\ runs[i].state = "waiting"
                                     /\ runs' = [runs EXCEPT ![i].state = "cancelled"],
           \/ UNCHANGED dispatched
           \/ /\ task[b].pc = "dispatch"
              /\ dispatched' = [dispatched EXCEPT ![b] = @ + 1]
    PROVE  IInv'
<1>1. Types /\ TaskSound(b)
  BY DEF IInv
<1>0. /\ runs' \in Seq(WorkflowRuns)
      /\ RunsOf(b)' = RunsOf(b)
  <2>1. CASE UNCHANGED runs
    BY <1>1, <2>1 DEF Types, RunsOf
  <2>2. CASE \E i \in DOMAIN runs : runs' = [runs EXCEPT ![i].state = "cancelled"]
    <3>1. "cancelled" \in RunStates
      BY DEF RunStates
    <3> QED
      BY <1>1, <2>2, <3>1, RunEnded
  <2> QED
    BY <2>1, <2>2
<1>2. /\ task \in [Builds -> Tasks] /\ task[b] \in Tasks
      /\ task[b].attempt \in 1..Attempts /\ task[b].run \in Nat
      /\ Attempts \in Nat
      /\ dispatched \in [Builds -> Nat] /\ dispatched[b] \in Nat
      /\ RunsOf(b) \in Nat
  BY <1>1, RunsOfType, AttemptsAssumption DEF Types, Tasks
<1>3. /\ dispatched' \in [Builds -> Nat]
      /\ \A x \in Builds \ {b} : dispatched'[x] = dispatched[x]
      /\ RunsOf(b) + dispatched'[b] <= task[b].attempt
  <2>1. RunsOf(b) + dispatched[b] <= Started(b)
    BY <1>1 DEF TaskSound
  <2>2. CASE UNCHANGED dispatched
    BY <1>2, <2>1, <2>2 DEF Started
  <2>3. CASE /\ task[b].pc = "dispatch"
             /\ dispatched' = [dispatched EXCEPT ![b] = @ + 1]
    BY <1>2, <2>1, <2>3 DEF Started
  <2> QED
    BY <2>2, <2>3
<1>4. CASE task[b].attempt = Attempts
  <2>1. /\ result' = [result EXCEPT ![b] = "failed"]
        /\ task' = [task EXCEPT ![b] = [task[b] EXCEPT !.pc = "done"]]
        /\ signaled' = signaled \ {b}
    BY <1>4 DEF AttemptFails, Report
  <2>2. [task[b] EXCEPT !.pc = "done"] \in Tasks
    BY <1>2 DEF Tasks
  <2>3. Types'
    BY <1>0, <1>1, <1>2, <1>3, <2>1, <2>2 DEF Types
  <2>4. /\ task'[b].pc = "done" /\ task'[b].attempt = Attempts /\ result'[b] = "failed"
    BY <1>1, <1>2, <1>4, <2>1 DEF Types, Tasks
  <2>5. Started(b)' = task[b].attempt
    BY <1>2, <1>4, <2>4 DEF Started
  <2>6. TaskSound(b)'
    BY <1>0, <1>2, <1>3, <2>4, <2>5 DEF TaskSound
  <2> QED
    BY <1>1, <1>2, <1>3, <2>1, <2>3, <2>6, OwnStep DEF Types
<1>5. CASE task[b].attempt # Attempts
  <2> DEFINE new == [pc |-> "dispatch", attempt |-> task[b].attempt + 1, run |-> 0]
  <2>1. /\ result' = result
        /\ task' = [task EXCEPT ![b] = new]
        /\ signaled' = signaled \ {b}
    BY <1>5 DEF AttemptFails
  <2>2. new \in Tasks /\ new.pc = "dispatch" /\ new.attempt = task[b].attempt + 1
    BY <1>2, <1>5 DEF Tasks
  <2> HIDE DEF new
  <2>3. Types'
    BY <1>0, <1>1, <1>2, <1>3, <2>1, <2>2 DEF Types
  <2>4. task'[b] = new /\ result'[b] = "none"
    BY <1>1, <1>2, <2>1 DEF TaskSound
  <2>5. Started(b)' = task[b].attempt
    BY <1>2, <2>2, <2>4 DEF Started
  <2>6. TaskSound(b)'
    BY <1>0, <1>2, <1>3, <2>2, <2>4, <2>5 DEF TaskSound
  <2> QED
    BY <1>1, <1>2, <1>3, <2>1, <2>3, <2>6, OwnStep
<1> QED
  BY <1>4, <1>5

\* A build is reported as uploaded when its run has concluded.
LEMMA SuccessKeepsInv ==
    ASSUME IInv, NEW b \in Builds, task[b].pc = "wait", Report(b, "True"),
           UNCHANGED <<dispatched, runs, process, expired, notified>>,
           runs[task[b].run].state \in Concluded
    PROVE  IInv'
<1>1. Types /\ TaskSound(b)
  BY DEF IInv
<1>2. /\ task \in [Builds -> Tasks] /\ task[b] \in Tasks
      /\ task[b].attempt \in 1..Attempts /\ task[b].run \in Nat
      /\ task[b].run \in DOMAIN runs
      /\ RunsOf(b) \in Nat
  BY <1>1, RunsOfType DEF Types, Tasks, TaskSound
<1>3. RunsOf(b)' = RunsOf(b)
  BY DEF RunsOf
<1>4. /\ result' = [result EXCEPT ![b] = "True"]
      /\ task' = [task EXCEPT ![b] = [task[b] EXCEPT !.pc = "done"]]
      /\ signaled' = signaled \ {b}
  BY DEF Report
<1>5. [task[b] EXCEPT !.pc = "done"] \in Tasks
  BY <1>2 DEF Tasks
<1>6. Types'
  BY <1>1, <1>2, <1>3, <1>4, <1>5 DEF Types
<1>7. /\ task'[b].pc = "done" /\ task'[b].attempt = task[b].attempt
      /\ task'[b].run = task[b].run /\ result'[b] = "True"
  BY <1>1, <1>2, <1>4 DEF Types, Tasks
<1>8. Started(b)' = Started(b)
  BY <1>7 DEF Started
<1>9. TaskSound(b)'
  BY <1>1, <1>2, <1>3, <1>7, <1>8 DEF TaskSound
<1> QED
  BY <1>1, <1>2, <1>4, <1>6, <1>9, OwnStep DEF Types

\* A goroutine that goes on to its next call.
LEMMA NextCallKeepsInv ==
    ASSUME IInv, NEW b \in Builds, Dispatch(b) \/ Adopt(b)
    PROVE  IInv'
<1>1. Types /\ TaskSound(b)
  BY DEF IInv
<1>2. /\ task \in [Builds -> Tasks] /\ task[b] \in Tasks
      /\ task[b].attempt \in 1..Attempts /\ task[b].run \in Nat
      /\ Attempts \in Nat
      /\ dispatched \in [Builds -> Nat] /\ dispatched[b] \in Nat
      /\ RunsOf(b) \in Nat
      /\ runs \in Seq(WorkflowRuns)
      /\ RunsOf(b) + dispatched[b] <= Started(b)
  BY <1>1, RunsOfType, AttemptsAssumption DEF Types, Tasks, TaskSound
<1>3. CASE Dispatch(b)
  <2>1. /\ task[b].pc = "dispatch"
        /\ dispatched' = [dispatched EXCEPT ![b] = @ + 1]
        /\ task' = [task EXCEPT ![b] = [task[b] EXCEPT !.pc = "detect"]]
        /\ UNCHANGED <<runs, result, process, expired, notified, signaled>>
    BY <1>3 DEF Dispatch, Runs
  <2>2. [task[b] EXCEPT !.pc = "detect"] \in Tasks
    BY <1>2 DEF Tasks
  <2>3. /\ dispatched' \in [Builds -> Nat] /\ dispatched'[b] = dispatched[b] + 1
        /\ task'[b].pc = "detect" /\ task'[b].attempt = task[b].attempt
    BY <1>2, <2>1 DEF Tasks
  <2>4. Types'
    BY <1>1, <1>2, <2>1, <2>2, <2>3 DEF Types
  <2>5. RunsOf(b)' + dispatched'[b] <= Started(b)'
    <3>1. RunsOf(b)' = RunsOf(b)
      BY <2>1 DEF RunsOf
    <3> QED
      BY <1>2, <2>1, <2>3, <3>1 DEF Started
  <2>6. TaskSound(b)'
    BY <1>1, <2>1, <2>3, <2>5 DEF TaskSound
  <2> QED
    BY <1>2, <2>1, <2>4, <2>6, OwnStep
<1>4. CASE Adopt(b)
  <2> DEFINE new == [task[b] EXCEPT !.pc = "wait", !.run = Len(runs)]
  <2>1. /\ task[b].pc = "detect" /\ runs # <<>>
        /\ task' = [task EXCEPT ![b] = new]
        /\ notified' = TRUE
        /\ UNCHANGED <<dispatched, runs, result, process, expired, signaled>>
    BY <1>2, <1>4 DEF Adopt, Runs, Tasks
  <2>2. /\ new \in Tasks
        /\ new.pc = "wait" /\ new.attempt = task[b].attempt /\ new.run = Len(runs)
    <3>1. Len(runs) \in Nat
      BY <1>2
    <3> QED
      BY <1>2, <3>1 DEF Tasks
  <2>3. Len(runs) \in DOMAIN runs
    BY <1>2, <2>1
  <2> HIDE DEF new
  <2>4. task'[b] = new /\ task' \in [Builds -> Tasks]
    BY <1>2, <2>1, <2>2
  <2>5. Types'
    <3>1. notified' \in BOOLEAN
      BY <2>1, Zenon
    <3> QED
      BY <1>1, <2>1, <2>4, <3>1 DEF Types
  <2>6. RunsOf(b)' = RunsOf(b) /\ Started(b)' = Started(b)
    BY <2>1, <2>2, <2>4 DEF RunsOf, Started
  <2>7. TaskSound(b)'
    BY <1>1, <2>1, <2>2, <2>3, <2>4, <2>6 DEF TaskSound
  <2> QED
    BY <1>2, <2>1, <2>5, <2>7, OwnStep
<1> QED
  BY <1>3, <1>4

LEMMA BuildKeepsInv ==
    ASSUME IInv, NEW b \in Builds, BuildStep(b) \/ DispatchError(b) \/ PollError(b)
    PROVE  IInv'
<1>1. CASE Dispatch(b) \/ Adopt(b)
  BY <1>1, NextCallKeepsInv
<1>2. CASE DispatchError(b)
  BY <1>2, FailedAttemptKeepsInv DEF DispatchError, Runs
<1>3. CASE DetectTimeout(b)
  BY <1>3, FailedAttemptKeepsInv DEF DetectTimeout, Runs
<1>4. CASE PollError(b)
  BY <1>4, FailedAttemptKeepsInv DEF PollError, Runs
<1>5. CASE Complete(b)
  BY <1>5, SuccessKeepsInv DEF Complete, Runs
<1>6. CASE CancelRun(b)
  <2>1. task[b].run \in DOMAIN runs
    BY <1>6 DEF CancelRun, Runs, IInv, TaskSound
  <2> QED
    BY <1>6, <2>1, FailedAttemptKeepsInv DEF CancelRun, Runs
<1>7. CASE AdoptPanics(b)
  <2>1. UNCHANGED <<dispatched, runs, task, result, expired, notified, signaled>>
        /\ process' = "killed"
    BY <1>7 DEF AdoptPanics
  <2>2. Types'
    BY <2>1 DEF IInv, Types
  <2>3. ASSUME NEW x \in Builds PROVE TaskSound(x)'
    BY <2>1 DEF IInv, TaskSound, Started, RunsOf
  <2> QED
    BY <2>2, <2>3 DEF IInv
<1> QED
  BY <1>1, <1>2, <1>3, <1>4, <1>5, <1>6, <1>7 DEF BuildStep

LEMMA NextKeepsInv == IInv /\ [Next]_vars => IInv'
<1> SUFFICES ASSUME IInv, [Next]_vars PROVE IInv'
  OBVIOUS
<1>1. CASE \/ \E b \in Builds : RunCreated(b)
           \/ OtherRunCreated
           \/ \E i \in DOMAIN runs, c \in Conclusions : RunEnds(i, c)
  <2>1. UNCHANGED <<task, result, process, expired, notified, signaled>>
    BY <1>1 DEF RunCreated, OtherRunCreated, RunEnds
  <2> QED
    BY <1>1, <2>1, RunsKeepInv
<1>2. CASE Deadline \/ Sigterm \/ Kill
  BY <1>2, ProcessKeepsInv
<1>3. CASE \E b \in Builds : BuildStep(b) \/ DispatchError(b) \/ PollError(b)
  BY <1>3, BuildKeepsInv
<1>4. CASE UNCHANGED vars
  <2>1. Types'
    BY <1>4 DEF vars, IInv, Types
  <2>2. ASSUME NEW x \in Builds PROVE TaskSound(x)'
    BY <1>4 DEF vars, IInv, TaskSound, Started, RunsOf
  <2> QED
    BY <2>1, <2>2 DEF IInv
<1> QED
  BY <1>1, <1>2, <1>3, <1>4 DEF Next

\* The invariant holds: each goroutine knows its build, its run and its attempts.
THEOREM Invariance == Spec => []IInv
BY InitInv, NextKeepsInv, PTL DEF Spec

\* The types of GithubDispatch; there are never more open dispatches than attempts.
THEOREM TypeCorrectness == Spec => []TypeOK
<1>1. IInv => TypeOK
  <2> SUFFICES ASSUME IInv PROVE TypeOK
    OBVIOUS
  <2>1. Types
    BY DEF IInv
  <2>2. ASSUME NEW b \in Builds PROVE dispatched[b] \in 0..Attempts
    <3>1. TaskSound(b) /\ RunsOf(b) \in Nat /\ dispatched[b] \in Nat
          /\ task[b] \in Tasks /\ Attempts \in Nat
      BY <2>1, RunsOfType, AttemptsAssumption DEF IInv, Types
    <3>2. Started(b) \in Int /\ Started(b) <= Attempts
      BY <3>1 DEF Started, Tasks
    <3> QED
      BY <3>1, <3>2 DEF TaskSound
  <2>3. dispatched \in [Builds -> 0..Attempts]
    BY <2>1, <2>2 DEF Types
  <2> QED
    BY <2>1, <2>3 DEF TypeOK, Types, Tasks, WorkflowRuns
<1> QED
  BY <1>1, Invariance, PTL

\* One pod starts at most "Attempts" runs of a commit and gives a build up only
\* after its last attempt (upload.go:41-46).
THEOREM AttemptsStayBounded == Spec => []AttemptsBounded
<1>1. IInv => AttemptsBounded
  <2> SUFFICES ASSUME IInv, NEW b \in Builds
               PROVE  /\ RunsOf(b) + dispatched[b] <= task[b].attempt
                      /\ task[b].attempt <= Attempts
                      /\ result[b] = "failed" => task[b].attempt = Attempts
    BY DEF AttemptsBounded
  <2>1. TaskSound(b) /\ RunsOf(b) \in Nat /\ dispatched[b] \in Nat
        /\ task[b] \in Tasks /\ Attempts \in Nat
    BY RunsOfType, AttemptsAssumption DEF IInv, Types
  <2>2. Started(b) \in Int /\ Started(b) <= task[b].attempt
        /\ task[b].attempt \in Int /\ task[b].attempt <= Attempts
    BY <2>1 DEF Started, Tasks
  <2> QED
    BY <2>1, <2>2 DEF TaskSound
<1> QED
  BY <1>1, Invariance, PTL

\* No success is reported unless the run that is waited for has concluded: not while
\* it goes on, nor when a SIGTERM had it cancelled (github.go:245-298).
THEOREM SuccessesHaveEnded == Spec => []TrueMeansEnded
<1>1. IInv => TrueMeansEnded
  <2> SUFFICES ASSUME IInv, NEW b \in Builds, result[b] = "True"
               PROVE  task[b].run # 0 /\ runs[task[b].run].state \in Concluded
    BY DEF TrueMeansEnded
  <2>1. TaskSound(b) /\ runs \in Seq(WorkflowRuns)
    BY DEF IInv, Types
  <2>2. 0 \notin DOMAIN runs
    BY <2>1
  <2> QED
    BY <2>1, <2>2 DEF TaskSound
<1> QED
  BY <1>1, Invariance, PTL

-----------------------------------------------------------------------------
(* The refinement *)

\* What a goroutine that ends shows its caller is one result for its build.
LEMMA ReportIsResult ==
    ASSUME IInv, NEW b \in Builds, NEW status, task[b].pc # "done", process # "killed",
           UNCHANGED <<process, expired>>, Report(b, status)
    PROVE  Output!Result(b, status)
<1>1. result[b] = "none"
  BY DEF IInv, TaskSound
<1>2. result' = [result EXCEPT ![b] = status]
  BY DEF Report
<1> QED
  BY <1>1, <1>2 DEF Output!Result

LEMMA FailedAttemptRefines ==
    ASSUME IInv, NEW b \in Builds, task[b].pc # "done", process # "killed",
           UNCHANGED <<process, expired>>, AttemptFails(b)
    PROVE  [Output!Next]_(Output!vars)
<1>1. CASE Report(b, "failed")
  BY <1>1, ReportIsResult DEF Output!Next, Output!Fails
<1>2. CASE UNCHANGED result
  BY <1>2 DEF Output!vars
<1> QED
  BY <1>1, <1>2 DEF AttemptFails

LEMMA SuccessRefines ==
    ASSUME IInv, NEW b \in Builds, task[b].pc = "wait", process # "killed",
           UNCHANGED <<process, expired>>, ~expired, Report(b, "True")
    PROVE  [Output!Next]_(Output!vars)
BY ReportIsResult DEF Output!Next, Output!Succeeds

LEMMA StepRefines == IInv /\ [Next]_vars => [Output!Next]_(Output!vars)
<1> SUFFICES ASSUME IInv, [Next]_vars PROVE [Output!Next]_(Output!vars)
  OBVIOUS
<1>1. CASE UNCHANGED <<result, expired, process>>
  BY <1>1 DEF Output!vars
<1>2. CASE Deadline
  BY <1>2 DEF Deadline, Output!Next, Output!Expire
<1>3. CASE Sigterm \/ Kill
  <2>1. /\ process # "killed"
        /\ UNCHANGED <<result, expired>>
        /\ process' \in {"terminating", "killed"}
    BY <1>3 DEF Sigterm, Kill
  <2>2. CASE process' = "killed"
    BY <2>1, <2>2 DEF Output!Next, Output!Die
  <2>3. CASE process' = "terminating"
    BY <2>1, <2>3 DEF Output!vars
  <2> QED
    BY <2>1, <2>2, <2>3
<1>4. ASSUME NEW b \in Builds, BuildStep(b) \/ DispatchError(b) \/ PollError(b)
      PROVE  [Output!Next]_(Output!vars)
  <2>1. CASE Dispatch(b) \/ Adopt(b)
    BY <2>1 DEF Dispatch, Adopt, Output!vars
  <2>2. CASE AdoptPanics(b)
    BY <2>2 DEF AdoptPanics, Runs, Output!Next, Output!Die
  <2>3. CASE DispatchError(b) \/ DetectTimeout(b) \/ PollError(b) \/ CancelRun(b)
    BY <2>3, FailedAttemptRefines DEF DispatchError, DetectTimeout, PollError, CancelRun, Runs
  <2>4. CASE Complete(b)
    BY <2>4, SuccessRefines DEF Complete, Runs
  <2> QED
    BY <1>4, <2>1, <2>2, <2>3, <2>4 DEF BuildStep
<1>5. CASE \/ \E b \in Builds : RunCreated(b)
           \/ OtherRunCreated
           \/ \E i \in DOMAIN runs, c \in Conclusions : RunEnds(i, c)
           \/ UNCHANGED vars
  BY <1>1, <1>5 DEF RunCreated, OtherRunCreated, RunEnds, vars
<1> QED
  BY <1>2, <1>3, <1>4, <1>5 DEF Next

\* Seen from the command, each build gets at most one result, which is never taken
\* back, and a success only while its context lives (upload.go:30-60).
THEOREM ImplementsOutput == Spec => Output!Spec
<1>1. Init => Output!Init
  BY DEF Init, Output!Init
<1> QED
  BY <1>1, StepRefines, Invariance, PTL DEF Spec, Output!Spec
=============================================================================
