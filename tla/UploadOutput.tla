---------------------------- MODULE UploadOutput ----------------------------
(***************************************************************************)
(* What Output (actor/github/pkg/upload/upload.go) promises the command    *)
(* that calls it, whatever happens on GitHub: each build of the input gets *)
(* one result, a success only within the 20 minutes of the command's       *)
(* context, and all have one soon after, unless the process dies.          *)
(*                                                                         *)
(* GithubDispatch is shown to implement this, and UploadJob is built on it.*)
(***************************************************************************)
CONSTANT Builds         \* the commits that may be built

VARIABLES
    input,      \* the builds Output was called with
    result,     \* what it has for each of them: "none", "True" or "failed"
    expired,    \* have the 20 minutes passed?
    killed      \* has the process died?

vars == <<input, result, expired, killed>>

Start(builds) ==
    /\ input' = builds
    /\ result' = [b \in Builds |-> "none"]
    /\ expired' = FALSE
    /\ killed' = FALSE

Init ==
    /\ input \in SUBSET Builds
    /\ result = [b \in Builds |-> "none"]
    /\ expired = FALSE
    /\ killed = FALSE

Result(b, r) ==
    /\ ~killed
    /\ b \in input
    /\ result[b] = "none"
    /\ result' = [result EXCEPT ![b] = r]
    /\ UNCHANGED <<input, expired, killed>>

\* A success needs an answer from GitHub, which the context no longer lets through
\* once it has expired.
Succeeds(b) == ~expired /\ Result(b, "True")

\* A failure needs nothing: three calls that fail at once are enough.
Fails(b) == Result(b, "failed")

Expire ==
    /\ ~expired
    /\ expired' = TRUE
    /\ UNCHANGED <<input, result, killed>>

\* The process may die with any of its results.
Die ==
    /\ ~killed
    /\ killed' = TRUE
    /\ UNCHANGED <<input, result, expired>>

Next ==
    \/ \E b \in Builds : Succeeds(b) \/ Fails(b)
    \/ Expire
    \/ Die

Spec == Init /\ [][Next]_vars

\* The context expires, and then the builds that are left fail.
Fairness ==
    /\ WF_vars(Expire)
    /\ \A b \in Builds : WF_vars(expired /\ Fails(b))

FairSpec == Spec /\ Fairness

\* Output has received one result per build.
Returned == \A b \in input : result[b] # "none"
=============================================================================
