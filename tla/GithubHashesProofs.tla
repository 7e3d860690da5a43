------------------------- MODULE GithubHashesProofs -------------------------
(***************************************************************************)
(* The shared map of the GitHub client gives back what was put into it, for *)
(* any lists of branches and tags and whatever earlier ticks have left: a   *)
(* name that does not begin with a letter of its kind survives the trimming,*)
(* two names never share a key, and the keys of the other kind either lack  *)
(* the word or cannot be taken for a name that is read.                     *)
(***************************************************************************)
EXTENDS GithubHashes, SequenceTheorems, TLAPS

\* The letters of names.  (Every letter is a string; the second set is for the provers,
\* which do not see that of a literal.)
Letter ==
    STRING \cup {"a", "b", "c", "e", "g", "h", "l", "m", "n", "r", "s", "t", "/"}

Name == Seq(Letter)

LEMMA Words ==
    /\ Branch \in Name /\ Tag \in Name /\ Slash \in Name
    /\ LatestHash \in Name /\ LatestName \in Name
<1>1. Branch \in Name
  BY DEF Branch, Name, Letter
<1>2. Tag \in Name /\ Slash \in Name
  BY DEF Tag, Slash, Name, Letter
<1>3. LatestHash \in Name
  BY DEF LatestHash, Name, Letter
<1>4. LatestName \in Name
  BY DEF LatestName, Name, Letter
<1> QED
  BY <1>1, <1>2, <1>3, <1>4

LEMMA Prefixes == Branch \o Slash \in Name /\ Tag \o Slash \in Name
BY Words DEF Name

\* Trimming removes the prefix and no more if the name begins with another letter.
LEMMA TrimPrefix ==
    ASSUME NEW word \in Name, NEW name \in Name,
           name # <<>>, name[1] \notin Letters(word)
    PROVE  TrimLeft(word \o name, Letters(word)) = name
<1> DEFINE s == word \o name
           n == Len(word)
           kept == {i \in DOMAIN s : s[i] \notin Letters(word)}
           first == CHOOSE i \in kept : \A j \in kept : i <= j
<1>1. /\ s \in Name /\ n \in Nat /\ Len(name) \in Nat /\ Len(name) > 0
      /\ Len(s) = n + Len(name) /\ DOMAIN s = 1..Len(s)
      /\ \A i \in 1..n : s[i] = word[i]
      /\ \A j \in 1..Len(name) : s[n + j] = name[j]
  BY DEF Name
<1>2. \A i \in 1..n : i \notin kept
  BY <1>1 DEF Letters, Name
<1>3. n + 1 \in kept
  BY <1>1
<1>4. \A j \in kept : n + 1 <= j
  BY <1>1, <1>2
<1>5. first = n + 1
  <2>1. \E i \in kept : \A j \in kept : i <= j
    BY <1>3, <1>4
  <2>2. first \in kept /\ \A j \in kept : first <= j
    BY <2>1
  <2> HIDE DEF first
  <2>3. first \in Int /\ n + 1 <= first /\ first <= n + 1
    BY <1>1, <1>3, <1>4, <2>2
  <2> QED
    BY <1>1, <2>3
<1>6. SubSeq(s, n + 1, Len(s)) = name
  BY <1>1, DOMAIN name = 1..Len(name), name \in Seq(Letter) DEF Name
<1>7. kept # {}
  BY <1>3
<1> QED
  BY <1>5, <1>6, <1>7 DEF TrimLeft

LEMMA KeyTyped ==
    ASSUME NEW kind \in {Branch, Tag}, NEW name \in Name
    PROVE  /\ Key(kind, name) \in Name
           /\ Key(kind, name) = (kind \o Slash) \o name
           /\ kind \o Slash \in Name
BY Words DEF Key, Name

\* Two names have two keys.
LEMMA KeysDiffer ==
    ASSUME NEW kind \in {Branch, Tag}, NEW a \in Name, NEW b \in Name,
           Key(kind, a) = Key(kind, b)
    PROVE  a = b
<1> DEFINE p == kind \o Slash
<1>1. p \in Name /\ p \o a = p \o b
  BY KeyTyped
<1> HIDE DEF p
<1>2. Len(p) \in Nat /\ Len(a) \in Nat /\ Len(b) \in Nat
  BY <1>1 DEF Name
<1>3. Len(p \o a) = Len(p) + Len(a) /\ Len(p \o b) = Len(p) + Len(b)
  BY <1>1 DEF Name
<1>4. Len(a) = Len(b)
  BY <1>1, <1>2, <1>3
<1>5. \A i \in 1..Len(a) : a[i] = b[i]
  <2> TAKE i \in 1..Len(a)
  <2>1. (p \o a)[Len(p) + i] = a[i] /\ (p \o b)[Len(p) + i] = b[i]
    BY <1>1, <1>2, <1>4 DEF Name
  <2> QED
    BY <1>1, <2>1
<1> QED
  BY <1>4, <1>5 DEF Name

\* Every key contains the word of its kind.
LEMMA KeyContainsKind ==
    ASSUME NEW kind \in {Branch, Tag}, NEW name \in Name
    PROVE  Contains(Key(kind, name), kind)
<1>1. kind \in Name /\ kind \o Slash \in Name /\ name \in Name
  BY Words, KeyTyped
<1>2. Key(kind, name) = (kind \o Slash) \o name
  BY KeyTyped
<1>3. /\ Len(kind) \in Nat /\ Len(Key(kind, name)) \in Nat
      /\ Len(kind) <= Len(Key(kind, name))
  BY <1>1, <1>2, Words DEF Name
<1>4. \A j \in DOMAIN kind : Key(kind, name)[0 + j] = kind[j]
  <2> TAKE j \in DOMAIN kind
  <2>1. j \in 1..Len(kind) /\ Len(kind) \in Nat
    BY <1>1 DEF Name
  <2>2. (kind \o Slash)[j] = kind[j] /\ j \in 1..Len(kind \o Slash)
    BY <1>1, <2>1, Words DEF Name
  <2>3. ((kind \o Slash) \o name)[j] = (kind \o Slash)[j]
    BY <1>1, <2>2 DEF Name
  <2> QED
    BY <1>2, <2>1, <2>2, <2>3
<1>5. 0 \in 0..Len(Key(kind, name)) /\ 0 + Len(kind) <= Len(Key(kind, name))
  BY <1>3
<1> QED
  BY <1>4, <1>5, Zenon DEF Contains

-----------------------------------------------------------------------------
(* Branches *)

NameOf(kind, k) == TrimLeft(k, Letters(kind \o Slash))

LEMMA SafeNameKept ==
    ASSUME NEW b \in Name, Safe(b)
    PROVE  NameOf(Branch, Key(Branch, b)) = b
BY KeyTyped, TrimPrefix DEF Safe, NameOf

KeysOf(kind, names) == {Key(kind, n) : n \in names}

\* The map holds what was set under the names' keys, and no other keys are new.
LEMMA HashesSet ==
    ASSUME NEW kind \in {Branch, Tag}, NEW hash, DOMAIN hash \subseteq Name, NEW revs
    PROVE  /\ DOMAIN setHashes(revs, kind, hash) = DOMAIN revs \cup KeysOf(kind, DOMAIN hash)
           /\ \A n \in DOMAIN hash : setHashes(revs, kind, hash)[Key(kind, n)] = hash[n]
<1> DEFINE names == DOMAIN hash
           after == setHashes(revs, kind, hash)
           new == {Key(kind, n) : n \in names}
<1>1. after = [k \in DOMAIN revs \cup new |->
                  IF k \in new THEN hash[CHOOSE n \in names : Key(kind, n) = k]
                  ELSE revs[k]]
  BY DEF setHashes
<1>2. ASSUME NEW n \in names PROVE after[Key(kind, n)] = hash[n]
  <2> DEFINE c == CHOOSE m \in names : Key(kind, m) = Key(kind, n)
  <2>1. c \in names /\ Key(kind, c) = Key(kind, n)
    OBVIOUS
  <2>2. c = n
    BY <2>1, KeysDiffer
  <2>3. Key(kind, n) \in new
    OBVIOUS
  <2> HIDE DEF c, new
  <2>4. after[Key(kind, n)] = hash[CHOOSE m \in names : Key(kind, m) = Key(kind, n)]
    BY <1>1, <2>3
  <2> QED
    BY <2>2, <2>4 DEF c
<1> QED
  BY <1>1, <1>2 DEF KeysOf

\* BranchHash gives back what GitHub has answered in this tick (github.go:85-158).
THEOREM BranchesFaithful ==
    ASSUME NEW branches \in Seq(Name), NEW tags \in Seq(Name), NEW heads, NEW revs
    PROVE  BranchesReturned(branches, tags, heads, revs)
<1> SUFFICES ASSUME \A b \in Letters(branches) : Safe(b),
                    \A t \in Letters(tags) : ~Contains(Key(Tag, t), Branch),
                    LeftBy(branches, tags, revs),
                    \A b \in Letters(branches) : heads[b] # None
             PROVE  BranchHash(branches, heads, revs).returns =
                        {[b \in Letters(branches) |-> heads[b]]}
  BY DEF BranchesReturned, BranchHash
<1> DEFINE names == Letters(branches)
           hash == [b \in names |-> heads[b]]
           after == setHashes(revs, Branch, hash)
           keys == {k \in DOMAIN after : Contains(k, Branch)}
<1>1. names \subseteq Name
  BY DEF Letters
<1>2. Looked(tags) \subseteq Letters(tags)
  BY DEF Looked, Before, Letters
<1>3. /\ DOMAIN after = DOMAIN revs \cup {Key(Branch, b) : b \in names}
      /\ \A b \in names : after[Key(Branch, b)] = heads[b]
  <2>1. DOMAIN hash = names /\ \A b \in names : hash[b] = heads[b]
    OBVIOUS
  <2> HIDE DEF hash, names
  <2>2. /\ DOMAIN setHashes(revs, Branch, hash) = DOMAIN revs \cup KeysOf(Branch, names)
        /\ \A n \in names : setHashes(revs, Branch, hash)[Key(Branch, n)] = hash[n]
    BY <1>1, <2>1, HashesSet
  <2> QED
    BY <2>1, <2>2 DEF KeysOf
<1>4. keys = {Key(Branch, b) : b \in names}
  <2>1. ASSUME NEW k \in keys PROVE \E b \in names : k = Key(Branch, b)
    BY <1>2, <1>3 DEF LeftBy
  <2>2. \A b \in names : Contains(Key(Branch, b), Branch)
    BY <1>1, KeyContainsKind
  <2> HIDE DEF after
  <2> QED
    BY <1>3, <2>1, <2>2
<1>5. \A b \in names : NameOf(Branch, Key(Branch, b)) = b
  BY <1>1, SafeNameKept
<1> HIDE DEF names, after, keys
<1>6. {NameOf(Branch, k) : k \in keys} = names
  BY <1>4, <1>5
<1>7. /\ hash = [b \in names |-> heads[b]]
      /\ hash \in [names -> {after[k] : k \in keys}]
      /\ \A n \in names : \E k \in keys : NameOf(Branch, k) = n /\ hash[n] = after[k]
  BY <1>3, <1>4, <1>5
<1>8. ASSUME NEW ret \in [names -> {after[k] : k \in keys}],
             \A n \in names : \E k \in keys : NameOf(Branch, k) = n /\ ret[n] = after[k]
      PROVE  ret = hash
  <2>1. \A n \in names : ret[n] = heads[n]
    BY <1>3, <1>4, <1>5, <1>8
  <2> QED
    BY <1>7, <2>1
<1>9. getHashes(Branch, after) = {hash}
  <2>1. getHashes(Branch, after) =
          {ret \in [names -> {after[k] : k \in keys}] :
              \A n \in DOMAIN ret : \E k \in keys : NameOf(Branch, k) = n /\ ret[n] = after[k]}
    BY <1>6 DEF getHashes, NameOf, keys
  <2> HIDE DEF hash
  <2> QED
    BY <1>7, <1>8, <2>1
<1>10. CASE branches = <<>>
  <2>1. names = {}
    BY <1>10 DEF names, Letters
  <2>2. hash = NoRevs
    BY <2>1 DEF NoRevs
  <2>3. BranchHash(branches, heads, revs).returns = {NoRevs}
    BY <1>10, <2>1 DEF BranchHash, names
  <2> QED
    BY <2>2, <2>3 DEF names
<1>11. CASE branches # <<>>
  <2>1. {b \in Letters(branches) : heads[b] = None} = {}
    OBVIOUS
  <2>2. Before(branches, {}) = names
    BY DEF Before, names, Letters
  <2>3. BranchHash(branches, heads, revs).returns = getHashes(Branch, after)
    BY <1>11, <2>1, <2>2 DEF BranchHash, after
  <2> QED
    BY <1>9, <2>3 DEF names
<1> QED
  BY <1>10, <1>11

-----------------------------------------------------------------------------
(* The latest tag *)

LEMMA LatestKept ==
    ASSUME NEW t \in Latest
    PROVE  t \in Name /\ NameOf(Tag, Key(Tag, t)) = t
<1>1. t \in Name
  BY Words DEF Latest
<1>2. t # <<>> /\ t[1] = "l"
  <2>1. CASE t = LatestHash
    BY <2>1 DEF LatestHash
  <2>2. CASE t = LatestName
    BY <2>2 DEF LatestName
  <2> QED
    BY <2>1, <2>2 DEF Latest
<1>3. "l" \notin Letters(Tag \o Slash)
  BY DEF Letters, Tag, Slash
<1>4. Key(Tag, t) = (Tag \o Slash) \o t /\ Tag \o Slash \in Name
  BY <1>1, KeyTyped
<1> QED
  BY <1>1, <1>2, <1>3, <1>4, TrimPrefix DEF NameOf

\* What is left of a branch's key begins with its first letter.
LEMMA BranchNotLatest ==
    ASSUME NEW b \in Name
    PROVE  NameOf(Tag, Key(Branch, b)) \notin Latest
<1> DEFINE k == Key(Branch, b)
<1>1. k = (Branch \o Slash) \o b /\ k \in Name
  BY KeyTyped
<1>2. Len(Branch \o Slash) = 7 /\ (Branch \o Slash)[1] = "b" /\ Branch \o Slash \in Name
  BY KeyTyped DEF Branch, Slash
<1>3. Len(k) \in Nat /\ 1 \in 1..Len(k) /\ k[1] = "b" /\ DOMAIN k = 1..Len(k)
  BY <1>1, <1>2 DEF Name
<1>4. "b" \notin Letters(Tag \o Slash)
  BY DEF Letters, Tag, Slash
<1> HIDE DEF k
<1> DEFINE kept == {i \in DOMAIN k : k[i] \notin Letters(Tag \o Slash)}
           first == CHOOSE i \in kept : \A j \in kept : i <= j
<1>5. first = 1
  <2>1. 1 \in kept /\ \A j \in kept : 1 <= j
    BY <1>3, <1>4
  <2>2. first \in kept /\ \A j \in kept : first <= j
    BY <2>1
  <2> HIDE DEF first
  <2>3. first \in Int /\ 1 <= first /\ first <= 1
    BY <1>3, <2>1, <2>2
  <2> QED
    BY <2>3
<1>6. NameOf(Tag, k) = SubSeq(k, 1, Len(k))
  BY <1>3, <1>4, <1>5 DEF NameOf, TrimLeft
<1>7. NameOf(Tag, k)[1] = "b"
  BY <1>1, <1>3, <1>6 DEF Name
<1> QED
  BY <1>7 DEF k, Latest, LatestHash, LatestName

\* TagHash gives back the newest tag of this tick, and no branch under its name
\* (github.go:99-158).
THEOREM LatestFaithful ==
    ASSUME NEW branches \in Seq(Name), NEW tags \in Seq(Name), NEW listed,
           NEW newest, NEW revs
    PROVE  LatestReturned(branches, tags, listed, newest, revs)
<1> SUFFICES
      ASSUME \A t \in Letters(tags) : NameOf(Tag, Key(Tag, t)) \in Latest => t \in Latest,
             LeftBy(branches, tags, revs),
             NEW ret \in TagHash(tags, listed, newest, revs).returns
      PROVE  /\ DOMAIN ret \cap Latest = IF newest = None THEN {} ELSE Looked(tags) \cap Latest
             /\ \A t \in DOMAIN ret \cap Latest : ret[t] = newest
  BY DEF LatestReturned, NameOf
<1>1. Looked(tags) \subseteq Letters(tags) /\ Letters(tags) \subseteq Name
  BY DEF Looked, Before, Letters
<1>2. CASE tags = <<>> \/ newest = None
  <2>1. ret = NoRevs
    BY <1>2 DEF TagHash
  <2>2. DOMAIN ret = {}
    BY <2>1 DEF NoRevs
  <2>3. tags = <<>> => Looked(tags) = {}
    BY DEF Looked, Before
  <2> QED
    BY <1>2, <2>2, <2>3
<1>3. CASE tags # <<>> /\ newest # None
  <2> DEFINE found == {t \in Looked(tags) : t \in Latest \/ t \in DOMAIN listed}
             hash == [t \in found |-> IF t \in Latest THEN newest ELSE listed[t]]
             after == setHashes(revs, Tag, hash)
             keys == {k \in DOMAIN after : Contains(k, Tag)}
  <2>1. ret \in getHashes(Tag, after)
    BY <1>3 DEF TagHash
  <2>2. /\ DOMAIN hash = found
        /\ \A t \in found \cap Latest : hash[t] = newest
        /\ found \subseteq Looked(tags)
        /\ found \cap Latest = Looked(tags) \cap Latest
    OBVIOUS
  <2> HIDE DEF hash, found
  <2>3. /\ DOMAIN after = DOMAIN revs \cup KeysOf(Tag, found)
        /\ \A t \in found : after[Key(Tag, t)] = hash[t]
    <3>1. /\ DOMAIN setHashes(revs, Tag, hash) = DOMAIN revs \cup KeysOf(Tag, found)
          /\ \A t \in found : setHashes(revs, Tag, hash)[Key(Tag, t)] = hash[t]
      BY <1>1, <2>2, HashesSet
    <3> QED
      BY <3>1
  <2> HIDE DEF after
  <2>4. /\ DOMAIN ret = {NameOf(Tag, k) : k \in keys}
        /\ \A n \in DOMAIN ret : \E k \in keys : NameOf(Tag, k) = n /\ ret[n] = after[k]
    BY <2>1 DEF getHashes, NameOf
  <2>5. ASSUME NEW k \in keys, NameOf(Tag, k) \in Latest
        PROVE  \E t \in found \cap Latest : k = Key(Tag, t) /\ NameOf(Tag, k) = t
    <3>1. \/ \E b \in Letters(branches) : k = Key(Branch, b)
          \/ \E t \in Looked(tags) : k = Key(Tag, t)
      BY <2>2, <2>3 DEF LeftBy, KeysOf
    <3>2. \A b \in Letters(branches) : k # Key(Branch, b)
      BY <2>5, BranchNotLatest DEF Letters
    <3>3. PICK t \in Looked(tags) : k = Key(Tag, t)
      BY <3>1, <3>2
    <3>4. t \in Latest
      BY <1>1, <2>5, <3>3
    <3> QED
      BY <2>2, <3>3, <3>4, LatestKept
  <2>6. ASSUME NEW t \in found \cap Latest
        PROVE  Key(Tag, t) \in keys /\ NameOf(Tag, Key(Tag, t)) = t
    <3>1. Key(Tag, t) \in DOMAIN after
      BY <2>3 DEF KeysOf
    <3>2. Contains(Key(Tag, t), Tag)
      BY LatestKept, KeyContainsKind
    <3> QED
      BY <3>1, <3>2, LatestKept
  <2> HIDE DEF keys
  <2>7. DOMAIN ret \cap Latest = found \cap Latest
    BY <2>4, <2>5, <2>6
  <2>8. ASSUME NEW t \in DOMAIN ret \cap Latest PROVE ret[t] = newest
    <3>1. PICK k \in keys : NameOf(Tag, k) = t /\ ret[t] = after[k]
      BY <2>4
    <3>2. k = Key(Tag, t) /\ t \in found \cap Latest
      BY <2>5, <3>1
    <3> QED
      BY <2>2, <2>3, <3>1, <3>2
  <2> QED
    BY <1>3, <2>2, <2>7, <2>8
<1> QED
  BY <1>2, <1>3
=============================================================================
