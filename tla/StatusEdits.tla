---------------------------- MODULE StatusEdits ----------------------------
(***************************************************************************)
(* What the actors do to a condition list: one turn of detect's loops over *)
(* branches and tags, of check's loop over revisions, of upload's loop     *)
(* over builds, and what check and upload take as their input.             *)
(***************************************************************************)
EXTENDS Conditions

-----------------------------------------------------------------------------
(* Detect (actor/base/pkg/detect/detect.go) *)

\* The cancellation runs after the update, on the new resolved revision.
EnsureBranchCancelsLate(list, branch, resolved) ==
    UpdateCondition(
        MarkUploadConditionAsCanceled(
            UpdateCondition(list, "checked", "False", "branchHash", branch, resolved),
            "branchHash", branch, resolved),
        "checked", "False", "branchHash", branch, resolved)

\* Any checked condition of the commit counts as checked.
EnsureBranchTrustsAny(list, branch, resolved) ==
    LET checked == IF \E i \in GetCondition(list, "checked") :
                        list[i].resolved = resolved
                   THEN "True" ELSE "False"
    IN  UpdateCondition(
            MarkUploadConditionAsCanceled(list, "branchHash", branch, resolved),
            "checked", checked, "branchHash", branch, resolved)

\* Every branch is checked on every tick.
EnsureBranchAlwaysUnchecked(list, branch, resolved) ==
    UpdateCondition(
        MarkUploadConditionAsCanceled(list, "branchHash", branch, resolved),
        "checked", "False", "branchHash", branch, resolved)

\* One turn of ensureConditions' loop over the branches: a commit that is
\* already checked, for whatever revision, is not checked again.
EnsureBranch(list, branch, resolved) ==
    LET checked == IF \E i \in GetConditionByStatus(list, "checked", "True") :
                        list[i].resolved = resolved
                   THEN "True" ELSE "False"
    IN  UpdateCondition(
            MarkUploadConditionAsCanceled(list, "branchHash", branch, resolved),
            "checked", checked, "branchHash", branch, resolved)

\* One turn of the loop over the tags.
EnsureTag(list, resolved) ==
    UpdateCondition(list, "checked", "False", "tagHash", "latest", resolved)

-----------------------------------------------------------------------------
(* Check (actor/base/pkg/check/check.go) *)

\* The checked conditions that are False.
Unchecked(list) == GetConditionByStatus(list, "checked", "False")

\* What the registry is asked about, each entry with its place in the list.
GetCheckInput(list) ==
    {[at |-> i, revision |-> list[i].revision, resolved |-> list[i].resolved] :
        i \in Unchecked(list)}

\* Only the checked condition is written.
RecordCheckedOnly(list, rev, exist) ==
    UpdateCheckedCondition(list, "True", rev.revision, rev.resolved)

\* One turn of UpdateImage's loop over the revisions of the output.
RecordCheck(list, rev, exist) ==
    UpdateUploadedCondition(
        UpdateCheckedCondition(list, "True", rev.revision, rev.resolved),
        exist, rev.revision, rev.resolved)

-----------------------------------------------------------------------------
(* Upload (actor/base/pkg/upload/upload.go) *)

\* What is neither uploaded nor canceled, the failed ones too.
Pending(list) ==
    {i \in GetCondition(list, "uploaded") : list[i].status \notin {"True", "canceled"}}

\* getInput: the builds to start, each with the place of its condition.
GetUploadInput(list) == {[at |-> i, tag |-> list[i].resolved] : i \in Pending(list)}

\* One turn of UpdateImage's loop over the builds: every uploaded condition of
\* the commit takes the result, whichever revision it belongs to.
RecordBuild(list, tag, status) ==
    LET same == {i \in GetCondition(list, "uploaded") : list[i].resolved = tag}
    IN  IF same = {}
        THEN UpdateUploadedCondition(list, status, None, tag)
        ELSE [i \in DOMAIN list |->
                IF i \in same THEN [list[i] EXCEPT !.status = status] ELSE list[i]]
=============================================================================
