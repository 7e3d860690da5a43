---------------------------- MODULE GithubHashes ----------------------------
(***************************************************************************)
(* How the detect actor's GitHub client names what it has fetched          *)
(* (actor/github/pkg/github/github.go).  Branches and tags share one map,  *)
(* which lives as long as the pod: BranchHash and TagHash add to it under  *)
(* "branch/<name>" and "tag/<name>", and read the map they return back by  *)
(* searching the keys for the word and trimming letters on the left.       *)
(*                                                                         *)
(* A name is a sequence of letters.  A map whose result depends on Go's    *)
(* map order is described by the set of the maps it may be.                *)
(***************************************************************************)
EXTENDS Naturals, Sequences

CONSTANT None           \* no hash, no map: an error

Branch == <<"b", "r", "a", "n", "c", "h">>
Tag    == <<"t", "a", "g">>
Slash  == <<"/">>

\* MapKeyLatestTagHash and MapKeyLatestTagName.
LatestHash == <<"l", "a", "t", "e", "s", "t", "/", "h", "a", "s", "h">>
LatestName == <<"l", "a", "t", "e", "s", "t", "/", "n", "a", "m", "e">>

NoRevs == [k \in {} |-> None]

Letters(s) == {s[i] : i \in DOMAIN s}

\* strings.Contains
Contains(s, word) ==
    \E i \in 0..Len(s) :
        /\ i + Len(word) <= Len(s)
        /\ \A j \in DOMAIN word : s[i + j] = word[j]

\* strings.TrimLeft: all leading letters that are among the given ones.
TrimLeft(s, letters) ==
    LET kept == {i \in DOMAIN s : s[i] \notin letters}
    IN  IF kept = {} THEN <<>>
        ELSE LET first == CHOOSE i \in kept : \A j \in kept : i <= j
             IN  SubSeq(s, first, Len(s))

Key(kind, name) == kind \o Slash \o name

\* getHashes for every key.
getHashesOfAll(kind, revs) ==
    LET Name(k) == TrimLeft(k, Letters(kind \o Slash))
    IN  {ret \in [{Name(k) : k \in DOMAIN revs} -> {revs[k] : k \in DOMAIN revs}] :
            \A n \in DOMAIN ret : \E k \in DOMAIN revs : Name(k) = n /\ ret[n] = revs[k]}

\* Of two keys that are trimmed to the same name the one that is visited last stays.
getHashes(kind, revs) ==
    LET Name(k) == TrimLeft(k, Letters(kind \o Slash))
        keys    == {k \in DOMAIN revs : Contains(k, kind)}
    IN  {ret \in [{Name(k) : k \in keys} -> {revs[k] : k \in keys}] :
            \A n \in DOMAIN ret : \E k \in keys : Name(k) = n /\ ret[n] = revs[k]}

\* setHash, for each name of "hash".
setHashes(revs, kind, hash) ==
    LET new == {Key(kind, n) : n \in DOMAIN hash}
    IN  [k \in DOMAIN revs \cup new |->
            IF k \in new THEN hash[CHOOSE n \in DOMAIN hash : Key(kind, n) = k] ELSE revs[k]]

-----------------------------------------------------------------------------
(* BranchHash and TagHash: the map they leave, and those they may return *)

\* The names a loop over "list" has seen before it comes to one of "stops".
Before(list, stops) ==
    {list[i] : i \in {i \in DOMAIN list : \A j \in 1..i : list[j] \notin stops}}

\* GetBranch for each branch in turn; the first error ends the loop, and what was
\* set by then stays.
BranchHash(branches, heads, revs) ==
    LET missing == {b \in Letters(branches) : heads[b] = None}
        after   == setHashes(revs, Branch, [b \in Before(branches, missing) |-> heads[b]])
    IN  [revs    |-> after,
         returns |-> IF missing # {} THEN {None}
                     ELSE IF branches = <<>> THEN {NoRevs}
                     ELSE getHashes(Branch, after)]

Latest == {LatestHash, LatestName}

\* The tags that are looked at: those up to the first of the latest keys.
Looked(tags) ==
    LET before == Before(tags, Latest)
    IN  before \cup {tags[i] : i \in {i \in DOMAIN tags :
                        tags[i] \in Latest /\ \A j \in 1..(i - 1) : tags[j] \notin Latest}}

\* The early return for a repository without tags is forgotten.
TagHashKeepsOld(tags, listed, newest, revs) ==
    LET found == {t \in Looked(tags) : (t \in Latest /\ newest # None) \/ t \in DOMAIN listed}
        after == setHashes(revs, Tag,
                     [t \in found |-> IF t \in Latest THEN newest ELSE listed[t]])
    IN  [revs |-> after, returns |-> IF tags = <<>> THEN {NoRevs} ELSE getHashes(Tag, after)]

\* ListTags once: "listed" maps names to hashes, "newest" is the first entry's hash
\* or name, None when there is no tag.
TagHash(tags, listed, newest, revs) ==
    LET found == {t \in Looked(tags) : t \in Latest \/ t \in DOMAIN listed}
        after == setHashes(revs, Tag,
                     [t \in found |-> IF t \in Latest THEN newest ELSE listed[t]])
    IN  IF tags = <<>> \/ newest = None
        THEN [revs |-> revs, returns |-> {NoRevs}]
        ELSE [revs |-> after, returns |-> getHashes(Tag, after)]

-----------------------------------------------------------------------------
(* What detect relies on *)

\* The names of branches that come back as they went in: they do not begin with a
\* letter of "branch/".  "main" and "dev" do not; "hotfix", "release" and "beta" do.
Safe(branch) ==
    /\ branch # <<>>
    /\ branch[1] \notin Letters(Branch \o Slash)

\* The map as earlier ticks of the same pod may have left it.
LeftBy(branches, tags, revs) ==
    \A k \in DOMAIN revs :
        \/ \E b \in Letters(branches) : k = Key(Branch, b)
        \/ \E t \in Looked(tags) : k = Key(Tag, t)

\* BranchHash returns the heads GitHub has just given, each under its branch's name
\* and no other, whatever earlier ticks and the tags have left in the map; a branch
\* that is missing is an error, never an old head (github.go:85-158).
BranchesReturned(branches, tags, heads, revs) ==
    /\ \A b \in Letters(branches) : Safe(b)
    /\ \A t \in Letters(tags) : ~Contains(Key(Tag, t), Branch)
    /\ LeftBy(branches, tags, revs)
    => BranchHash(branches, heads, revs).returns =
           IF \E b \in Letters(branches) : heads[b] = None
           THEN {None} ELSE {[b \in Letters(branches) |-> heads[b]]}

\* Of the latest keys detect reads, TagHash returns at most the first that was
\* asked for, with the newest entry GitHub has just listed, whatever the branches
\* are called (github.go:99-158, detect.go:105-113).
LatestReturned(branches, tags, listed, newest, revs) ==
    /\ \A t \in Letters(tags) :
           TrimLeft(Key(Tag, t), Letters(Tag \o Slash)) \in Latest => t \in Latest
    /\ LeftBy(branches, tags, revs)
    => \A ret \in TagHash(tags, listed, newest, revs).returns :
           /\ DOMAIN ret \cap Latest = IF newest = None THEN {} ELSE Looked(tags) \cap Latest
           /\ \A t \in DOMAIN ret \cap Latest : ret[t] = newest
=============================================================================
