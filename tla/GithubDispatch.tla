--------------------------- MODULE GithubDispatch ---------------------------
(***************************************************************************)
(* What happens inside one upload pod between its GetInput and its status  *)
(* write (actor/github/pkg/upload/upload.go, actor/github/pkg/github): one *)
(* goroutine per build dispatches a workflow, guesses which run is the one *)
(* it dispatched, polls it, and retries.  GitHub answers a dispatch with   *)
(* 204 and creates the run some time later; it never says which run it is. *)
(***************************************************************************)
EXTENDS Integers, Sequences, FiniteSets

CONSTANTS
    Builds,         \* the commits of Input.Builds
    Attempts,       \* retry.Attempts: 3 in the code
    MaxOthers,      \* runs of the workflow that others start
    RunsFail,       \* may a run conclude with "failure"?
    Sigterms        \* may the pod get a SIGTERM?

ASSUME AttemptsAssumption == Attempts \in Nat \ {0}

Others == "others"
ASSUME OthersAssumption == Others \notin Builds

VARIABLES
    dispatched,     \* for each commit, the dispatches whose run is not there yet
    runs,           \* the workflow's runs, the latest last
    task,           \* the goroutine of each build
    result,         \* what it reported: "none", "True" or "failed"
    process,        \* "up", "terminating" (it got a SIGTERM) or "killed"
    expired,        \* have the 20 minutes of the command passed?
    notified,       \* has anybody called signal.Notify?
    signaled        \* the builds whose signal goroutine got the SIGTERM

vars == <<dispatched, runs, task, result, process, expired, notified, signaled>>

\* A run is "waiting" (queued, in progress or waiting) until it has a conclusion.
RunStates == {"waiting", "success", "failure", "cancelled"}
Concluded   == {"success", "failure"}
Conclusions == {"success", "cancelled"} \cup IF RunsFail THEN {"failure"} ELSE {}

\* A repository whose workflow has run before, or never.
Init ==
    /\ runs \in {<<>>, <<[ref |-> Others, state |-> "success"]>>}
    /\ dispatched = [b \in Builds |-> 0]
    /\ task = [b \in Builds |-> [pc |-> "dispatch", attempt |-> 1, run |-> 0]]
    /\ result = [b \in Builds |-> "none"]
    /\ process = "up" /\ expired = FALSE
    /\ notified = FALSE /\ signaled = {}

-----------------------------------------------------------------------------
(* GitHub and the cluster *)

RunsOf(ref) == Cardinality({i \in DOMAIN runs : runs[i].ref = ref})

RunCreated(b) ==
    /\ dispatched[b] > 0
    /\ dispatched' = [dispatched EXCEPT ![b] = @ - 1]
    /\ runs' = Append(runs, [ref |-> b, state |-> "waiting"])
    /\ UNCHANGED <<task, result, process, expired, notified, signaled>>

OtherRunCreated ==
    /\ RunsOf(Others) < MaxOthers
    /\ runs' = Append(runs, [ref |-> Others, state |-> "waiting"])
    /\ UNCHANGED <<dispatched, task, result, process, expired, notified, signaled>>

RunEnds(i, conclusion) ==
    /\ runs[i].state = "waiting"
    /\ runs' = [runs EXCEPT ![i].state = conclusion]
    /\ UNCHANGED <<dispatched, task, result, process, expired, notified, signaled>>

\* The context of cmd/upload.go, from which all others are derived.
Deadline ==
    /\ ~expired
    /\ expired' = TRUE
    /\ UNCHANGED <<dispatched, runs, task, result, process, notified, signaled>>

\* A SIGTERM goes to every waitForComplete under way; before the first one it
\* still has its default action.
Sigterm ==
    /\ Sigterms
    /\ process = "up"
    /\ process' = IF notified THEN "terminating" ELSE "killed"
    /\ signaled' = IF notified THEN {b \in Builds : task[b].pc = "wait"} ELSE {}
    /\ UNCHANGED <<dispatched, runs, task, result, expired, notified>>

\* The grace period ends.
Kill ==
    /\ process = "terminating"
    /\ process' = "killed"
    /\ UNCHANGED <<dispatched, runs, task, result, expired, notified, signaled>>

-----------------------------------------------------------------------------
(* The goroutine of build b *)

Report(b, status) ==
    /\ result' = [result EXCEPT ![b] = status]
    /\ task' = [task EXCEPT ![b].pc = "done"]
    /\ signaled' = signaled \ {b}

\* One attempt too many.
AttemptFailsLate(b) ==
    IF task[b].attempt > Attempts
    THEN Report(b, "failed")
    ELSE /\ task' = [task EXCEPT ![b] = [pc |-> "dispatch", attempt |-> @.attempt + 1,
                                         run |-> 0]]
         /\ signaled' = signaled \ {b}
         /\ UNCHANGED result

\* No retry.
AttemptFailsAtOnce(b) == Report(b, "failed")

\* retry.Do: an error is tried again until the attempts are used up.
AttemptFails(b) ==
    IF task[b].attempt = Attempts
    THEN Report(b, "failed")
    ELSE /\ task' = [task EXCEPT ![b] = [pc |-> "dispatch", attempt |-> @.attempt + 1,
                                         run |-> 0]]
         /\ signaled' = signaled \ {b}
         /\ UNCHANGED result

Runs(b, pc) == process # "killed" /\ task[b].pc = pc

\* ExecuteRun, up to the 204.
Dispatch(b) ==
    /\ Runs(b, "dispatch")
    /\ ~expired
    /\ dispatched' = [dispatched EXCEPT ![b] = @ + 1]
    /\ task' = [task EXCEPT ![b].pc = "detect"]
    /\ UNCHANGED <<runs, result, process, expired, notified, signaled>>

\* A call fails; the dispatch may have arrived all the same.
DispatchError(b) ==
    /\ Runs(b, "dispatch")
    /\ AttemptFails(b)
    /\ \/ UNCHANGED dispatched
       \/ ~expired /\ dispatched' = [dispatched EXCEPT ![b] = @ + 1]
    /\ UNCHANGED <<runs, process, expired, notified>>

\* "wait for detecting run": the latest run is ours when it is waiting and not
\* older than a minute.  Time is abstracted: any waiting run may be that young.
Adopt(b) ==
    /\ Runs(b, "detect")
    /\ ~expired
    /\ runs # <<>>
    /\ runs[Len(runs)].state = "waiting"
    /\ task' = [task EXCEPT ![b].pc = "wait", ![b].run = Len(runs)]
    /\ notified' = TRUE
    /\ UNCHANGED <<dispatched, runs, result, process, expired, signaled>>

\* WorkflowRuns[0] of an empty list.
AdoptPanics(b) ==
    /\ Runs(b, "detect")
    /\ ~expired
    /\ runs = <<>>
    /\ process' = "killed"
    /\ UNCHANGED <<dispatched, runs, task, result, expired, notified, signaled>>

\* The minute ExecuteRun gives itself is over, or a call fails.
DetectTimeout(b) ==
    /\ Runs(b, "detect")
    /\ AttemptFails(b)
    /\ UNCHANGED <<dispatched, runs, process, expired, notified>>

\* waitForComplete: "success" and "failure" are both no error.
Complete(b) ==
    /\ Runs(b, "wait")
    /\ ~expired
    /\ runs[task[b].run].state \in Concluded
    /\ Report(b, "True")
    /\ UNCHANGED <<dispatched, runs, process, expired, notified>>

\* A poll that fails is not looked at: the loop goes on.
PollErrorIgnored(b) == Runs(b, "wait") /\ UNCHANGED vars

\* A poll fails.
PollError(b) ==
    /\ Runs(b, "wait")
    /\ AttemptFails(b)
    /\ UNCHANGED <<dispatched, runs, process, expired, notified>>

\* The answer to the cancellation is not looked at.
CancelRunUnasked(b) ==
    /\ Runs(b, "wait")
    /\ b \in signaled
    /\ Report(b, "True")
    /\ UNCHANGED <<dispatched, runs, process, expired, notified>>

\* A run that GitHub agrees to cancel is no error.
CancelRunAccepted(b) ==
    /\ Runs(b, "wait")
    /\ b \in signaled
    /\ \/ /\ ~expired
          /\ runs[task[b].run].state = "waiting"
          /\ runs' = [runs EXCEPT ![task[b].run].state = "cancelled"]
          /\ Report(b, "True")
       \/ AttemptFails(b) /\ UNCHANGED runs
    /\ UNCHANGED <<dispatched, process, expired, notified>>

\* cancelRun from the signal goroutine.  GitHub may cancel the run, but go-github
\* returns its 202 as an AcceptedError: the attempt has failed in any case.
CancelRun(b) ==
    /\ Runs(b, "wait")
    /\ b \in signaled
    /\ AttemptFails(b)
    /\ \/ UNCHANGED runs
       \/ /\ ~expired
          /\ runs[task[b].run].state = "waiting"
          /\ runs' = [runs EXCEPT ![task[b].run].state = "cancelled"]
    /\ UNCHANGED <<dispatched, process, expired, notified>>

-----------------------------------------------------------------------------
\* What does not wait for a call to fail by itself: once the 20 minutes are over
\* every call fails, and a minute after a dispatch the search for its run does.
BuildStep(b) ==
    \/ Dispatch(b) \/ Adopt(b) \/ AdoptPanics(b) \/ DetectTimeout(b)
    \/ Complete(b) \/ CancelRun(b)
    \/ expired /\ (DispatchError(b) \/ PollError(b))

Next ==
    \/ \E b \in Builds : RunCreated(b)
    \/ OtherRunCreated
    \/ \E i \in DOMAIN runs, c \in Conclusions : RunEnds(i, c)
    \/ Deadline
    \/ Sigterm \/ Kill
    \/ \E b \in Builds : BuildStep(b) \/ DispatchError(b) \/ PollError(b)

Spec == Init /\ [][Next]_vars

\* Time passes and goroutines run; GitHub owes nothing.
FairSpec == Spec /\ WF_vars(Deadline) /\ \A b \in Builds : WF_vars(BuildStep(b))

-----------------------------------------------------------------------------
(* Properties *)

\* The types of the variables.
TypeOK ==
    /\ dispatched \in [Builds -> 0..Attempts]
    /\ runs \in Seq([ref : Builds \cup {Others}, state : RunStates])
    /\ task \in [Builds -> [pc : {"dispatch", "detect", "wait", "done"},
                           attempt : 1..Attempts, run : Nat]]
    /\ result \in [Builds -> {"none", "True", "failed"}]
    /\ process \in {"up", "terminating", "killed"}
    /\ expired \in BOOLEAN /\ notified \in BOOLEAN
    /\ signaled \subseteq Builds

\* "output if actions is succeeded" (upload.go:36): a build that is reported as
\* uploaded has a run that succeeded.  It takes a run of its own that did not fail
\* (github.go:236, 288).
TrueMeansPushed ==
    \A b \in Builds : result[b] = "True" =>
        \E i \in DOMAIN runs : runs[i].ref = b /\ runs[i].state = "success"

\* The run that is waited for is one that was dispatched for the build: "latest run
\* is not our run" (github.go:240) is noticed otherwise.
AdoptsOwnRun ==
    \A b \in Builds : task[b].run # 0 => runs[task[b].run].ref = b

\* A build is reported as uploaded only when the run it waits for has come to a
\* conclusion of its own: not while it goes on, be it adopted by mistake or polled in
\* vain, and not because a SIGTERM had it cancelled (github.go:245-298).
TrueMeansEnded ==
    \A b \in Builds : result[b] = "True" =>
        task[b].run # 0 /\ runs[task[b].run].state \in Concluded

\* One pod starts at most "Attempts" runs of a commit, and it reports "failed" only
\* after its last attempt (upload.go:41-46).
AttemptsBounded ==
    \A b \in Builds :
        /\ RunsOf(b) + dispatched[b] <= task[b].attempt
        /\ task[b].attempt <= Attempts
        /\ result[b] = "failed" => task[b].attempt = Attempts

\* Output returns: no goroutine waits forever, whatever GitHub answers, be it for a
\* run that was cancelled and never gets a conclusion it knows (github.go:282-294).
OutputReturns == <>(process = "killed" \/ \A b \in Builds : result[b] # "none")
=============================================================================
