---------------------------- MODULE StatusLists ----------------------------
(***************************************************************************)
(* What a whole loop of an actor makes of a condition list - a detect      *)
(* tick, a check job, an upload job - and what holds of every list they    *)
(* store.                                                                  *)
(***************************************************************************)
EXTENDS StatusEdits, SequencesExt

CONSTANTS
    Branches,       \* revisions of the branchHash policies of the spec
    Tags,           \* tag keys the detect actor was given
    Commits         \* what branch heads and tags resolve to

Keys      == Branches \cup Tags
Revisions == Branches \cup {"latest", None}
StoredCondition == ConditionOf(Revisions, Commits)

-----------------------------------------------------------------------------
(* Loops, as the fold of their turns *)

DetectTurn(key, resolved) ==
    [loop |-> IF key \in Branches THEN "branch" ELSE "tag",
     revision |-> key, resolved |-> resolved, result |-> None]

CheckTurn(cond, exist) ==
    [loop |-> "check", revision |-> cond.revision, resolved |-> cond.resolved,
     result |-> exist]

BuildTurn(cond, status) ==
    [loop |-> "build", revision |-> cond.revision, resolved |-> cond.resolved,
     result |-> status]

\* A turn reads and writes the list as the turns before it have left it.
Turn(list, turn) ==
    CASE turn.loop = "branch" -> EnsureBranch(list, turn.revision, turn.resolved)
      [] turn.loop = "tag"    -> EnsureTag(list, turn.resolved)
      [] turn.loop = "check"  -> RecordCheck(list, turn, turn.result)
      [] turn.loop = "build"  -> RecordBuild(list, turn.resolved, turn.result)

Turns(list, turns) == FoldLeft(Turn, list, turns)

\* ensureConditions after a tick that saw the heads in file: Go walks the map of
\* branches, then the map of tags, each in any order.
DetectResults(list, file) ==
    LET found == {k \in Keys : file[k] # None}
        BranchesFirst(order) ==
            \A i, j \in DOMAIN order :
                i < j /\ order[j] \in Branches => order[i] \in Branches
    IN  {Turns(list, [i \in DOMAIN order |-> DetectTurn(order[i], file[order[i]])]) :
            order \in {o \in SetToSeqs(found) : BranchesFirst(o)}}

\* A check job's UpdateImage, told by the registry which commits exist: it asked
\* about the open checks of the list in their order.
CheckResults(list, exist) ==
    LET InListOrder(order) == \A i, j \in DOMAIN order : i < j => order[i] < order[j]
    IN  {Turns(list, [i \in DOMAIN order |-> CheckTurn(list[order[i]], exist[order[i]])]) :
            order \in {o \in SetToSeqs(Unchecked(list)) : InListOrder(o)}}

\* An upload job's UpdateImage: its builds end in any order.
UploadResults(list, status) ==
    {Turns(list, [i \in DOMAIN order |-> BuildTurn(list[order[i]], status[order[i]])]) :
        order \in SetToSeqs(Pending(list))}

-----------------------------------------------------------------------------
(* What holds of a list *)

\* The conditions detect asks to check: one per branch, one for the tag.
Asked ==
    {<<"branchHash", b>> : b \in Branches} \cup {<<"tagHash", "latest">>}

\* A list has one checked condition per policy and revision, each of them one
\* detect asks for, and one uploaded condition per revision and commit: the
\* setters, each of which searches with another key, never meet an ambiguity.
Keyed(list) ==
    /\ \A i \in GetCondition(list, "checked") :
          <<list[i].tagPolicy, list[i].revision>> \in Asked
    /\ \A i, j \in GetCondition(list, "checked") :
          /\ list[i].tagPolicy = list[j].tagPolicy
          /\ list[i].revision = list[j].revision
          => i = j
    /\ \A i, j \in GetCondition(list, "uploaded") :
          /\ list[i].revision = list[j].revision
          /\ list[i].resolved = list[j].resolved
          => i = j

\* Every commit that counts as checked has a build condition.  The shortcut of
\* detect, which declares a commit checked because another revision's check saw
\* it, and the check job's two writes must agree on this.
Backed(list) ==
    \A i \in GetConditionByStatus(list, "checked", "True") :
        \E j \in GetCondition(list, "uploaded") : list[j].resolved = list[i].resolved

\* A branch's pending build is of the commit its checked condition names: builds
\* of commits the branch has left are canceled, done or failed.
OnlyHeadPending(list) ==
    \A i \in GetConditionByStatus(list, "uploaded", "False"), b \in Branches :
        list[i].revision = b =>
            \E k \in GetCondition(list, "checked") :
                /\ list[k].tagPolicy = "branchHash"
                /\ list[k].revision = b
                /\ list[k].resolved = list[i].resolved

\* Checked conditions are answered or open, never canceled or unknown: detect
\* overwrites the cancellation in the same turn.
Answered(list) ==
    \A i \in GetCondition(list, "checked") : list[i].status \in {"True", "False"}

\* What holds of every list, stored or private.  The pending builds follow the
\* branches as long as no branch has the name of the tag policy's revision.
Sound(list) ==
    /\ list \in Seq(StoredCondition)
    /\ Answered(list)
    /\ Keyed(list)
    /\ Backed(list)
    /\ "latest" \notin Branches => OnlyHeadPending(list)

\* The conditions are the ones detect and check store: of a branch, or of the latest
\* tag if detect was given one.
Named(list) ==
    \A i \in DOMAIN list :
        LET c        == list[i]
            ofBranch == c.revision \in Branches
            ofTag    == c.revision = "latest" /\ Tags # {}
        IN  \/ c.type = "checked" /\ c.tagPolicy = "branchHash" /\ ofBranch
            \/ c.type = "checked" /\ c.tagPolicy = "tagHash" /\ ofTag
            \/ c.type = "uploaded" /\ c.tagPolicy = "unused" /\ (ofBranch \/ ofTag)

\* A write never loses, moves or renames a condition somebody else stored:
\* conditions only get added, and an uploaded one keeps its commit.
Preserves(old, new) ==
    \A i \in DOMAIN old :
        /\ i \in DOMAIN new
        /\ new[i].type = old[i].type
        /\ new[i].tagPolicy = old[i].tagPolicy
        /\ new[i].revision = old[i].revision
        /\ old[i].type = "uploaded" => new[i].resolved = old[i].resolved
=============================================================================
