----------------------------- MODULE DetectFile -----------------------------
(* Beside the ticks of ImageStatus, the GitHub client they ask: whether the   *)
(* heads a tick has fetched come back from the map the client keeps between   *)
(* ticks (GithubHashes). ImageStatus itself takes the heads as they are; the  *)
(* two properties say that the client gives it no reason to do otherwise.     *)
EXTENDS ImageStatusRefinement

Client == INSTANCE GithubHashes

\* Safe names for the branch: one of them has the word "tag" in it, so that TagHash
\* returns it as well, the other has letters of "branch/" behind the first.
BranchNames == {<<"m", "t", "a", "g">>, <<"m", "h">>}

Maps(keys) == UNION {[ks -> Commits] : ks \in SUBSET keys}

\* The map as earlier ticks may have left it: any of their heads, or nothing yet.
Revs(branch) ==
    Maps({Client!Key(Client!Branch, branch), Client!Key(Client!Tag, Client!LatestHash)})

Fetched(d) == detect[d].pc = "fetch" /\ detect[d].todo = {}

\* A branch of one of these two names comes back with the head this tick has fetched
\* and no other branch comes with it: nothing of an earlier tick, no tag, no second
\* name (github.go:85-158). Names whose first letters TrimLeft eats are not among
\* them: Safe of GithubHashes excludes these, and their branches do come back wrong.
BranchFileFaithful ==
    \A d \in Detectors : Fetched(d) =>
        \A name \in BranchNames : \A revs \in Revs(name) :
            Client!BranchesReturned(<<name>>, <<Client!LatestHash>>,
                                    [n \in {name} |-> detect[d].file["main"]], revs)

\* The latest tag comes back with the hash this tick has fetched, also when the repository has lost its last one
\* (github.go:99-158).
TagFileFaithful ==
    \A d \in Detectors : Fetched(d) =>
        \A name \in BranchNames : \A revs \in Revs(name) :
            Client!LatestReturned(<<name>>, <<Client!LatestHash>>, [t \in {} |-> None],
                                  detect[d].file["latest/hash"], revs)
=============================================================================
