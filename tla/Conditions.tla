----------------------------- MODULE Conditions -----------------------------
(***************************************************************************)
(* The condition list of an Image (api/v1beta1/image_types.go) and the     *)
(* operators of pkg/image/image.go that every actor edits it with.         *)
(*                                                                         *)
(* A list is a sequence of records.  LastTransitionTime is left out: every *)
(* operator that adds a condition stamps it, so "no time" is the same as   *)
(* "the default condition a getter made up", and the one place that        *)
(* compares lists (detect's UpdateImage) ignores it.  Where Go mutates the *)
(* slice in place and returns it, the operator is the resulting list.      *)
(***************************************************************************)
EXTENDS Integers, Sequences, FiniteSetsExt

None == ""                                  \* Go's empty string

Types    == {"detected", "checked", "uploaded"}
Statuses == {"True", "False", "failed", "canceled", "Unknown"}
Policies == {"branchHash", "branchName", "tagHash", "tagName", "unused", None}
NoStatus == "nil"                           \* the nil *ImageConditionStatus

ConditionOf(revisions, commits) ==
    [type : Types, status : Statuses, tagPolicy : Policies,
     revision : revisions, resolved : commits]

Condition(type, status, policy, revision, resolved) ==
    [type |-> type, status |-> status, tagPolicy |-> policy,
     revision |-> revision, resolved |-> resolved]

\* The position of the first of the given positions; 0 when there is none.
FirstOf(positions) == IF positions = {} THEN 0 ELSE Min(positions)

-----------------------------------------------------------------------------
(* Getters *)

\* GetCondition and GetConditionByStatus return the list of matches; the
\* positions say the same thing and keep the order.
GetCondition(conds, type) == {i \in DOMAIN conds : conds[i].type = type}

GetConditionByStatus(conds, type, status) ==
    {i \in GetCondition(conds, type) : conds[i].status = status}

GetConditionByRevision(conds, type, revision) ==
    FirstOf({i \in GetCondition(conds, type) : conds[i].revision = revision})

\* The key of a condition in GetConditionBy and SetCondition.
SamePlace(c, type, policy, revision) ==
    /\ c.type = type
    /\ c.revision = revision
    /\ c.tagPolicy = policy

GetConditionBy(conds, type, policy, revision) ==
    FirstOf({i \in DOMAIN conds : SamePlace(conds[i], type, policy, revision)})

-----------------------------------------------------------------------------
(* Setters *)

\* The mutated forms a definition is compared with are written before it: here
\* the search is forgotten.
SetConditionAppends(conds, cond) == Append(conds, cond)

SetCondition(conds, cond) ==
    LET i == GetConditionBy(conds, cond.type, cond.tagPolicy, cond.revision)
    IN  IF i = 0 THEN Append(conds, cond) ELSE [conds EXCEPT ![i] = cond]

\* With a status the condition takes the status and the resolved revision.
\* Without one its status only records whether the resolved revision moved.
UpdateCondition(conds, type, status, policy, revision, resolved) ==
    LET i     == GetConditionBy(conds, type, policy, revision)
        old   == conds[i]
        moved == IF old.resolved # resolved THEN "True" ELSE "False"
        new   == Condition(type, IF status = NoStatus THEN "Unknown" ELSE status,
                           policy, revision, resolved)
    IN  IF i # 0 /\ status = NoStatus
        THEN SetCondition(conds, [old EXCEPT !.status = moved])
        ELSE SetCondition(conds, new)

\* The check forgets which revision it was asked about.
UpdateCheckedConditionByResolved(conds, status, revision, resolved) ==
    [i \in DOMAIN conds |->
        IF conds[i].type = "checked" /\ conds[i].resolved = resolved
        THEN [conds[i] EXCEPT !.status = status, !.revision = revision]
        ELSE conds[i]]

\* The first checked condition of the commit with another status takes the
\* status AND the revision; it is then stored under the key it has now.
UpdateCheckedCondition(conds, status, revision, resolved) ==
    LET same  == {i \in GetCondition(conds, "checked") : conds[i].resolved = resolved}
        stale == FirstOf({i \in same : conds[i].status # status})
    IN  IF same = {}
        THEN Append(conds, Condition("checked", status, "unused", revision, resolved))
        ELSE IF stale = 0 THEN conds
        ELSE SetCondition(conds, [conds[stale] EXCEPT !.status = status,
                                                      !.revision = revision])

\* The append is forgotten.
UpdateUploadedConditionNeverAdds(conds, status, revision, resolved) ==
    [i \in DOMAIN conds |->
        IF conds[i].type = "uploaded" /\ conds[i].resolved = resolved
        THEN [conds[i] EXCEPT !.status = status] ELSE conds[i]]

UpdateUploadedCondition(conds, status, revision, resolved) ==
    LET same == {i \in GetCondition(conds, "uploaded") :
                    conds[i].revision = revision /\ conds[i].resolved = resolved}
    IN  IF same = {}
        THEN Append(conds, Condition("uploaded", status, "unused", revision, resolved))
        ELSE [i \in DOMAIN conds |->
                IF i \in same THEN [conds[i] EXCEPT !.status = status] ELSE conds[i]]

-----------------------------------------------------------------------------
(* Cancelling the builds of a revision that moved *)

\* The loop of the source, as the list it leaves.  Position i sees the checked
\* condition k as the loop has left it by then: already cancelled when k < i
\* (the cancelled one has the policy), hence not Unknown.
MarkUploadConditionAsCanceled(conds, policy, revision, resolved) ==
    LET k == GetConditionByRevision(conds, "checked", revision)
        Superseded(i) ==
            /\ conds[i].type = "uploaded"
            /\ conds[i].revision = revision
            /\ conds[i].resolved # resolved
            /\ k # 0
            /\ conds[k].tagPolicy = policy
            /\ conds[k].resolved = conds[i].resolved
            /\ k < i \/ conds[k].status # "Unknown"
    IN  [i \in DOMAIN conds |->
            IF Superseded(i) \/ SamePlace(conds[i], "checked", policy, revision)
            THEN [conds[i] EXCEPT !.status = "canceled"] ELSE conds[i]]
=============================================================================
