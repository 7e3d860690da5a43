------------------------- MODULE SerializableProofs -------------------------
(***************************************************************************)
(* The status writes are serializable, for every number of branches,       *)
(* commits, detectors and pods: ImageStatus implements AtomicStatus.  The  *)
(* argument: as long as the copy of an actor carries the stored            *)
(* resourceVersion nobody has changed the list it was read from, so the    *)
(* copy is what some turns of the actor's loop make of the list as it is   *)
(* stored now; a write that is accepted carries such a copy, and comes     *)
(* when no turn is left.                                                   *)
(*                                                                         *)
(* At the end, what the GitHub client hands a tick for the latest tag: a   *)
(* theorem of GithubHashesProofs, for the client of DetectFile.            *)
(***************************************************************************)
EXTENDS ImageStatusProofs, DetectFile

-----------------------------------------------------------------------------
(* The turns an actor has taken *)

\* order has met each element of S once and nothing else.
MeetsOnce(order, S) ==
    /\ order \in Seq(S)
    /\ \A i, j \in DOMAIN order : i # j => order[i] # order[j]
    /\ \A s \in S : \E i \in DOMAIN order : order[i] = s

DetectTurns(order, file) ==
    [i \in DOMAIN order |-> DetectTurn(order[i], file[order[i]])]

CheckTurns(order, list, exist) ==
    [i \in DOMAIN order |-> CheckTurn(list[order[i]], exist[order[i]])]

BuildTurns(order, list, status) ==
    [i \in DOMAIN order |-> BuildTurn(list[order[i]], status[order[i]])]

BranchesFirst(order) ==
    \A i, j \in DOMAIN order : i < j /\ order[j] \in Branches => order[i] \in Branches

InListOrder(order) == \A i, j \in DOMAIN order : i < j => order[i] < order[j]

\* What a tick loops over.
Found(d) == {k \in Keys : detect[d].file[k] # None}

\* The copy is the stored list after the turns over all keys but those in todo.
DetectSerial(d) ==
    d \in current /\ detect[d].pc = "ensure" =>
        /\ detect[d].todo \subseteq Found(d)
        /\ \E order :
              /\ MeetsOnce(order, Found(d) \ detect[d].todo)
              /\ BranchesFirst(order)
              /\ detect[d].todo \cap Branches # {} =>
                    \A i \in DOMAIN order : order[i] \in Branches
              /\ detect[d].conds = Turns(conds, DetectTurns(order, detect[d].file))

\* The input of a check or upload job that is left to do: the entries of these positions.
CheckEntries(list, rest) ==
    {[at |-> i, revision |-> list[i].revision, resolved |-> list[i].resolved] : i \in rest}

BuildEntries(list, rest) == {[at |-> i, tag |-> list[i].resolved] : i \in rest}

\* The copy is the list after the turns over all open checks but the last ones, those
\* in rest.
AfterChecks(list, todo, copy, rest, exist, order) ==
    /\ todo = CheckEntries(list, rest)
    /\ MeetsOnce(order, Unchecked(list) \ rest)
    /\ InListOrder(order)
    /\ \A i \in DOMAIN order, j \in rest : order[i] < j
    /\ copy = Turns(list, CheckTurns(order, list, exist))

CheckSerial(p) ==
    p \in current /\ check[p].pc = "run" =>
        \E rest \in SUBSET Unchecked(conds),
           exist \in [Unchecked(conds) -> {"True", "False"}] : \E order :
              AfterChecks(conds, check[p].todo, check[p].conds, rest, exist, order)

\* The copy is the list after the turns over the builds that have ended.
AfterBuilds(list, todo, copy, rest, status, order) ==
    /\ todo = BuildEntries(list, rest)
    /\ MeetsOnce(order, Pending(list) \ rest)
    /\ copy = Turns(list, BuildTurns(order, list, status))

UploadSerial(p) ==
    p \in current /\ upload[p].pc = "run" =>
        \E rest \in SUBSET Pending(conds),
           status \in [Pending(conds) -> {"True", "failed"}] : \E order :
              AfterBuilds(conds, upload[p].todo, upload[p].conds, rest, status, order)

SerialInv ==
    /\ IInv
    /\ \A d \in Detectors : DetectSerial(d)
    /\ \A p \in CheckPods : CheckSerial(p)
    /\ \A p \in UploadPods : UploadSerial(p)

\* Nothing has been met at first.
LEMMA NothingMet ==
    ASSUME NEW S
    PROVE  /\ MeetsOnce(<<>>, S \ S)
           /\ BranchesFirst(<<>>) /\ InListOrder(<<>>)
           /\ DOMAIN <<>> = {}
           /\ \A list, data : /\ DetectTurns(<<>>, data) = <<>>
                               /\ CheckTurns(<<>>, list, data) = <<>>
                               /\ BuildTurns(<<>>, list, data) = <<>>
<1>1. <<>> \in Seq({}) /\ DOMAIN <<>> = {} /\ S \ S = {}
  OBVIOUS
<1>2. \A f : f = [i \in {} |-> f[i]] => f = <<>>
  OBVIOUS
<1> QED
  BY <1>1, <1>2 DEF MeetsOnce, BranchesFirst, InListOrder, DetectTurns, CheckTurns, BuildTurns

\* Another element is met.
LEMMA MetOneMore ==
    ASSUME NEW met, NEW x, x \notin met, NEW all, all = met \cup {x},
           NEW order, MeetsOnce(order, met)
    PROVE  MeetsOnce(Append(order, x), all)
<1> DEFINE longer == Append(order, x)
<1>1. order \in Seq(met) /\ \A i \in DOMAIN order : order[i] # x /\ order[i] \in met
  BY DEF MeetsOnce
<1>2. order \in Seq(all) /\ x \in all
  BY <1>1
<1>3. /\ Len(order) \in Nat /\ DOMAIN order = 1..Len(order)
      /\ DOMAIN longer = 1..(Len(order) + 1)
      /\ longer[Len(order) + 1] = x
      /\ \A i \in 1..Len(order) : longer[i] = order[i]
      /\ longer \in Seq(all)
  BY <1>2
<1> HIDE DEF longer
<1>4. \A i \in DOMAIN longer : i \in 1..Len(order) \/ i = Len(order) + 1
  BY <1>3
<1>5. \A i, j \in DOMAIN longer : i # j => longer[i] # longer[j]
  BY <1>1, <1>3, <1>4 DEF MeetsOnce
<1>6. ASSUME NEW s \in all PROVE \E i \in DOMAIN longer : longer[i] = s
  <2>1. CASE s = x
    BY <1>3, <2>1
  <2>2. CASE s # x
    <3>1. PICK i \in DOMAIN order : order[i] = s
      BY <2>2 DEF MeetsOnce
    <3>2. i \in DOMAIN longer /\ longer[i] = s
      BY <1>3, <3>1
    <3> QED
      BY <3>2
  <2> QED
    BY <2>1, <2>2
<1> QED
  BY <1>3, <1>5, <1>6 DEF MeetsOnce, longer

\* A sequence of turns that goes one turn further makes of a list what that turn makes
\* of what the others have left.
LEMMA OneMoreTurn ==
    ASSUME NEW R, NEW turns \in Seq(R), NEW next \in Seq(R),
           Len(next) = Len(turns) + 1,
           \A i \in 1..Len(turns) : next[i] = turns[i],
           NEW list
    PROVE  Turns(list, next) = Turn(Turns(list, turns), next[Len(turns) + 1])
<1>1. Len(turns) \in Nat /\ next[Len(turns) + 1] \in R
  OBVIOUS
<1>2. next = Append(turns, next[Len(turns) + 1])
  BY <1>1
<1>3. Turns(list, Append(turns, next[Len(turns) + 1]))
         = Turn(Turns(list, turns), next[Len(turns) + 1])
  BY <1>1, TurnsAppend
<1> QED
  BY <1>2, <1>3

-----------------------------------------------------------------------------
(* The invariant of the turns *)

\* Steps that leave the stored list and an actor alone, or make its copy stale.
LEMMA SerialFrame ==
    ASSUME SerialInv,
           current' = {} \/ UNCHANGED conds
    PROVE  /\ \A d \in Detectors :
                 (d \in current' => d \in current) /\ detect'[d] = detect[d] => DetectSerial(d)'
           /\ \A p \in CheckPods :
                 (p \in current' => p \in current) /\ check'[p] = check[p] => CheckSerial(p)'
           /\ \A p \in UploadPods :
                 (p \in current' => p \in current) /\ upload'[p] = upload[p] => UploadSerial(p)'
<1>1. ASSUME NEW d \in Detectors, d \in current' => d \in current, detect'[d] = detect[d]
      PROVE  DetectSerial(d)'
  BY <1>1 DEF SerialInv, DetectSerial, Found
<1>2. ASSUME NEW p \in CheckPods, p \in current' => p \in current, check'[p] = check[p]
      PROVE  CheckSerial(p)'
  <2> SUFFICES ASSUME p \in current', check'[p].pc = "run" PROVE CheckSerial(p)'
    BY DEF CheckSerial
  <2>1. conds' = conds /\ p \in current /\ check[p].pc = "run" /\ CheckSerial(p)
    BY <1>2 DEF SerialInv
  <2> QED
    BY <1>2, <2>1 DEF CheckSerial
<1>3. ASSUME NEW p \in UploadPods, p \in current' => p \in current, upload'[p] = upload[p]
      PROVE  UploadSerial(p)'
  BY <1>3 DEF SerialInv, UploadSerial
<1> QED
  BY <1>1, <1>2, <1>3

LEMMA SerialInit == Init => SerialInv
<1> SUFFICES ASSUME Init PROVE SerialInv
  OBVIOUS
<1>1. IInv
  BY InitInv
<1>2. current = {}
  BY DEF Init
<1> QED
  BY <1>1, <1>2 DEF SerialInv, DetectSerial, CheckSerial, UploadSerial

-----------------------------------------------------------------------------
(* Detect *)

\* A turn over key k.
LEMMA DetectGoesOn ==
    ASSUME SerialInv, NEW d \in Detectors, NEW k \in Keys,
           \/ k \in Branches /\ DetectBranch(d, k)
           \/ k \in Tags /\ DetectTag(d, k)
    PROVE  DetectSerial(d)'
<1>1. detect \in [Detectors -> DetectState] /\ detect[d] \in DetectState
  BY DEF SerialInv, IInv, TypeOK
<1> DEFINE todo == detect[d].todo
           file == detect[d].file
<1>2. /\ k \in todo /\ detect[d].pc = "ensure" /\ UNCHANGED <<conds, current>>
      /\ k \notin Branches => todo \cap Branches = {}
      /\ detect'[d].todo = todo \ {k} /\ detect'[d].file = file
      /\ detect'[d].conds = Turn(detect[d].conds, DetectTurn(k, file[k]))
  <2>1. CASE k \in Branches /\ DetectBranch(d, k)
    <3>1. /\ k \in todo /\ detect[d].pc = "ensure" /\ UNCHANGED <<conds, current>>
          /\ detect'[d].todo = todo \ {k} /\ detect'[d].file = file
          /\ detect'[d].conds = EnsureBranch(detect[d].conds, k, file[k])
      BY <1>1, <2>1 DEF DetectBranch, DetectState
    <3> QED
      BY <2>1, <3>1, TurnOfDetect
  <2>2. CASE k \in Tags /\ DetectTag(d, k)
    <3>1. /\ k \in todo /\ detect[d].pc = "ensure" /\ UNCHANGED <<conds, current>>
          /\ todo \cap Branches = {}
          /\ detect'[d].todo = todo \ {k} /\ detect'[d].file = file
          /\ detect'[d].conds = EnsureTag(detect[d].conds, file[k])
      BY <1>1, <2>2 DEF DetectTag, DetectState
    <3>2. k \notin Branches
      BY <3>1
    <3> QED
      BY <3>1, <3>2, TurnOfDetect
  <2> QED
    BY <2>1, <2>2
<1> SUFFICES ASSUME d \in current
             PROVE  /\ detect'[d].todo \subseteq Found(d)'
                    /\ \E order :
                          /\ MeetsOnce(order, Found(d)' \ detect'[d].todo)
                          /\ BranchesFirst(order)
                          /\ detect'[d].todo \cap Branches # {} =>
                                \A i \in DOMAIN order : order[i] \in Branches
                          /\ detect'[d].conds
                                = Turns(conds', DetectTurns(order, detect'[d].file))
  BY <1>2 DEF DetectSerial
<1>3. Found(d)' = Found(d)
  BY <1>2 DEF Found
<1>4. /\ todo \subseteq Found(d)
      /\ \E order :
            /\ MeetsOnce(order, Found(d) \ todo)
            /\ BranchesFirst(order)
            /\ todo \cap Branches # {} => \A i \in DOMAIN order : order[i] \in Branches
            /\ detect[d].conds = Turns(conds, DetectTurns(order, file))
  BY <1>2 DEF SerialInv, DetectSerial
<1>5. PICK order :
         /\ MeetsOnce(order, Found(d) \ todo)
         /\ BranchesFirst(order)
         /\ todo \cap Branches # {} => \A i \in DOMAIN order : order[i] \in Branches
         /\ detect[d].conds = Turns(conds, DetectTurns(order, file))
  BY <1>4
<1> DEFINE longer == Append(order, k)
           l == Len(order)
<1> HIDE DEF todo, file
<1>6. /\ MeetsOnce(longer, Found(d) \ (todo \ {k}))
      /\ l \in Nat /\ DOMAIN order = 1..l /\ DOMAIN longer = 1..(l + 1)
      /\ longer[l + 1] = k
      /\ \A i \in 1..l : longer[i] = order[i]
  <2>1. k \in todo /\ todo \subseteq Found(d) /\ MeetsOnce(order, Found(d) \ todo)
    BY <1>2, <1>4, <1>5 DEF todo
  <2> DEFINE met == Found(d) \ todo
             all == Found(d) \ (todo \ {k})
  <2>2. k \notin met /\ all = met \cup {k} /\ MeetsOnce(order, met)
    BY <2>1
  <2>3. order \in Seq(met)
    BY <2>2 DEF MeetsOnce
  <2>4. /\ l \in Nat /\ DOMAIN order = 1..l /\ DOMAIN longer = 1..(l + 1)
        /\ longer[l + 1] = k
        /\ \A i \in 1..l : longer[i] = order[i]
    BY <2>2, <2>3
  <2> HIDE DEF met, all
  <2>5. MeetsOnce(Append(order, k), all)
    BY <2>2, MetOneMore
  <2> QED
    BY <2>4, <2>5 DEF all
<1> HIDE DEF longer, l
<1>7. \A i \in DOMAIN longer : i \in 1..l \/ i = l + 1
  BY <1>6
<1>8. BranchesFirst(longer)
  <2> SUFFICES ASSUME NEW i \in DOMAIN longer, NEW j \in DOMAIN longer,
                      i < j, longer[j] \in Branches
               PROVE  longer[i] \in Branches
    BY DEF BranchesFirst
  <2>1. i \in 1..l
    BY <1>6, <1>7
  <2>2. CASE j \in 1..l
    BY <1>5, <1>6, <2>1, <2>2 DEF BranchesFirst
  <2>3. CASE j = l + 1
    BY <1>2, <1>5, <1>6, <2>1, <2>3
  <2> QED
    BY <1>7, <2>2, <2>3
<1>9. (todo \ {k}) \cap Branches # {} => \A i \in DOMAIN longer : longer[i] \in Branches
  <2> SUFFICES ASSUME (todo \ {k}) \cap Branches # {}, NEW i \in DOMAIN longer
               PROVE  longer[i] \in Branches
    OBVIOUS
  <2>1. todo \cap Branches # {} /\ k \in Branches
    BY <1>2
  <2> QED
    BY <1>5, <1>6, <1>7, <2>1
<1>10. detect'[d].conds = Turns(conds, DetectTurns(longer, file))
  <2> DEFINE turns == DetectTurns(order, file)
             next == DetectTurns(longer, file)
             R == {next[i] : i \in 1..(l + 1)}
  <2>1. /\ turns = [i \in 1..l |-> DetectTurn(order[i], file[order[i]])]
        /\ next = [i \in 1..(l + 1) |-> DetectTurn(longer[i], file[longer[i]])]
    BY <1>6 DEF DetectTurns
  <2> HIDE DEF turns, next
  <2>2. \A i \in 1..l : next[i] = turns[i] /\ i \in 1..(l + 1)
    BY <1>6, <2>1
  <2>3. next \in Seq(R) /\ Len(next) = l + 1 /\ turns \in Seq(R) /\ Len(turns) = l
    BY <1>6, <2>1, <2>2
  <2> HIDE DEF R
  <2>4. Turns(conds, next) = Turn(Turns(conds, turns), next[l + 1])
    BY <2>2, <2>3, OneMoreTurn
  <2>5. next[l + 1] = DetectTurn(k, file[k])
    BY <1>6, <2>1
  <2> QED
    BY <1>2, <1>5, <2>4, <2>5 DEF turns, next
<1> QED
  <2>1. detect'[d].todo = todo \ {k} /\ detect'[d].file = file /\ conds' = conds
    BY <1>2 DEF todo, file
  <2> QED
    BY <1>3, <1>4, <1>6, <1>8, <1>9, <1>10, <2>1

\* The read: no turn taken yet.
LEMMA DetectStarts ==
    ASSUME SerialInv, NEW d \in Detectors, DetectGet(d)
    PROVE  DetectSerial(d)'
<1>1. detect \in [Detectors -> DetectState] /\ detect[d] \in DetectState
  BY DEF SerialInv, IInv, TypeOK
<1>2. /\ detect'[d].todo = Found(d) /\ detect'[d].file = detect[d].file
      /\ detect'[d].conds = conds /\ conds' = conds
  BY <1>1 DEF DetectGet, DetectState, Found
<1>3. Found(d)' = Found(d)
  BY <1>2 DEF Found
<1> DEFINE S == Found(d)
<1> HIDE DEF S
<1>4. /\ MeetsOnce(<<>>, S \ S) /\ BranchesFirst(<<>>) /\ DOMAIN <<>> = {}
      /\ DetectTurns(<<>>, detect'[d].file) = <<>>
  BY NothingMet
<1>5. detect'[d].conds = Turns(conds', DetectTurns(<<>>, detect'[d].file))
  BY <1>2, <1>4, TurnsEmpty
<1>6. /\ MeetsOnce(<<>>, Found(d)' \ detect'[d].todo) /\ BranchesFirst(<<>>)
      /\ \A i \in DOMAIN <<>> : <<>>[i] \in Branches
      /\ detect'[d].todo \subseteq Found(d)'
  BY <1>2, <1>3, <1>4 DEF S
<1> QED
  BY <1>5, <1>6 DEF DetectSerial

LEMMA DetectKeepsSerial ==
    ASSUME SerialInv, IInv', NEW d \in Detectors, DetectStep(d) \/ DetectFail(d)
    PROVE  SerialInv'
<1>1. detect \in [Detectors -> DetectState] /\ detect[d] \in DetectState
  BY DEF SerialInv, IInv, TypeOK
<1>2. /\ current' \subseteq current \cup {d}
      /\ current' = {} \/ UNCHANGED conds
      /\ UNCHANGED <<check, upload>>
      /\ \A e \in Detectors \ {d} : detect'[e] = detect[e]
  <2>1. CASE DetectTick(d)
    BY <1>1, <2>1 DEF DetectTick
  <2>2. ASSUME NEW k \in Keys, DetectFetch(d, k) PROVE <1>2
    BY <1>1, <2>2 DEF DetectFetch
  <2>3. CASE DetectGet(d)
    BY <1>1, <2>3 DEF DetectGet
  <2>4. ASSUME NEW b \in Branches, DetectBranch(d, b) PROVE <1>2
    BY <1>1, <2>4 DEF DetectBranch
  <2>5. ASSUME NEW t \in Tags, DetectTag(d, t) PROVE <1>2
    BY <1>1, <2>5 DEF DetectTag
  <2>6. CASE DetectWrite(d)
    BY <1>1, <2>6 DEF DetectWrite, Update
  <2>7. CASE DetectFail(d)
    BY <1>1, <2>7 DEF DetectFail
  <2> QED
    BY <2>1, <2>2, <2>3, <2>4, <2>5, <2>6, <2>7 DEF DetectStep
<1>3. /\ \A e \in Detectors \ {d} : DetectSerial(e)'
      /\ \A p \in CheckPods : CheckSerial(p)'
      /\ \A p \in UploadPods : UploadSerial(p)'
  <2>1. /\ \A e \in Detectors \ {d} : (e \in current' => e \in current) /\ detect'[e] = detect[e]
        /\ \A p \in CheckPods : (p \in current' => p \in current) /\ check'[p] = check[p]
        /\ \A p \in UploadPods : (p \in current' => p \in current) /\ upload'[p] = upload[p]
    BY <1>2, ActorsAssumption
  <2> QED
    BY <1>2, <2>1, SerialFrame
<1>4. DetectSerial(d)'
  <2>1. CASE \E b \in Branches : DetectBranch(d, b)
    BY <2>1, DetectGoesOn DEF Keys
  <2>2. CASE \E t \in Tags : DetectTag(d, t)
    BY <2>2, DetectGoesOn DEF Keys
  <2>3. CASE DetectGet(d)
    BY <2>3, DetectStarts
  <2>4. CASE \/ DetectTick(d) \/ \E k \in Keys : DetectFetch(d, k)
             \/ DetectWrite(d) \/ DetectFail(d)
    <3>1. CASE DetectTick(d)
      BY <1>1, <3>1 DEF DetectSerial, DetectTick, DetectState
    <3>2. ASSUME NEW k \in Keys, DetectFetch(d, k) PROVE DetectSerial(d)'
      <4>1. detect'[d].pc = "fetch"
        BY <1>1, <3>2 DEF DetectFetch, DetectState
      <4> QED
        BY <4>1 DEF DetectSerial
    <3>3. CASE DetectWrite(d) \/ DetectFail(d)
      <4>1. detect'[d].pc = "sleep"
        BY <1>1, <3>3 DEF DetectWrite, DetectFail, Sleeping
      <4> QED
        BY <4>1 DEF DetectSerial
    <3> QED
      BY <2>4, <3>1, <3>2, <3>3
  <2> QED
    BY <2>1, <2>2, <2>3, <2>4 DEF DetectStep
<1> QED
  BY <1>3, <1>4 DEF SerialInv

-----------------------------------------------------------------------------
(* Check jobs *)

\* A turn over the first condition that is left to do.
LEMMA CheckGoesOn ==
    ASSUME SerialInv, NEW p \in CheckPods, NEW rev \in check[p].todo,
           NEW answer \in {"True", "False"}, CheckRevision(p, rev, answer)
    PROVE  CheckSerial(p)'
<1>1. check \in [CheckPods -> CheckState] /\ check[p] \in CheckState
  BY DEF SerialInv, IInv, TypeOK
<1>2. /\ check[p].pc = "run" /\ UNCHANGED <<conds, current>>
      /\ \A other \in check[p].todo : rev.at <= other.at
      /\ check'[p].todo = check[p].todo \ {rev}
      /\ check'[p].conds = RecordCheck(check[p].conds, rev, answer)
  BY <1>1 DEF CheckRevision, CheckState
<1> SUFFICES ASSUME p \in current
             PROVE  \E rest \in SUBSET Unchecked(conds),
                       exist \in [Unchecked(conds) -> {"True", "False"}] : \E order :
                          AfterChecks(conds, check'[p].todo, check'[p].conds,
                                      rest, exist, order)
  BY <1>2 DEF CheckSerial
<1>3. PICK rest \in SUBSET Unchecked(conds),
           exist \in [Unchecked(conds) -> {"True", "False"}] : \E order :
              AfterChecks(conds, check[p].todo, check[p].conds, rest, exist, order)
  BY <1>2 DEF SerialInv, CheckSerial
<1>4. PICK order : AfterChecks(conds, check[p].todo, check[p].conds, rest, exist, order)
  BY <1>3
<1>5. /\ check[p].todo = CheckEntries(conds, rest)
      /\ MeetsOnce(order, Unchecked(conds) \ rest)
      /\ InListOrder(order)
      /\ \A i \in DOMAIN order, j \in rest : order[i] < j
      /\ check[p].conds = Turns(conds, CheckTurns(order, conds, exist))
  BY <1>4 DEF AfterChecks
<1>6. PICK k \in rest : rev = [at |-> k, revision |-> conds[k].revision,
                               resolved |-> conds[k].resolved]
  BY <1>5 DEF CheckEntries
<1> DEFINE left == rest \ {k}
           longer == Append(order, k)
           l == Len(order)
           given == [exist EXCEPT ![k] = answer]
<1>7. Unchecked(conds) \subseteq Nat
  <2>1. conds \in Seq(StoredCondition)
    BY DEF SerialInv, IInv, TypeOK
  <2> QED
    BY <2>1 DEF Unchecked, GetConditionByStatus, GetCondition
<1>8. /\ left \in SUBSET Unchecked(conds)
      /\ given \in [Unchecked(conds) -> {"True", "False"}]
      /\ given[k] = answer
      /\ \A i \in Unchecked(conds) : i # k => given[i] = exist[i]
  OBVIOUS
<1>9. check'[p].todo = CheckEntries(conds, left)
  BY <1>2, <1>5, <1>6 DEF CheckEntries
<1>10. \A j \in left : k < j
  <2> SUFFICES ASSUME NEW j \in left PROVE k < j
    OBVIOUS
  <2>1. [at |-> j, revision |-> conds[j].revision, resolved |-> conds[j].resolved]
           \in check[p].todo
    BY <1>5 DEF CheckEntries
  <2>2. k <= j
    BY <1>2, <1>6, <2>1
  <2> QED
    BY <1>7, <2>2
<1>11. /\ MeetsOnce(longer, Unchecked(conds) \ left)
      /\ l \in Nat /\ DOMAIN order = 1..l /\ DOMAIN longer = 1..(l + 1)
      /\ longer[l + 1] = k
      /\ \A i \in 1..l : longer[i] = order[i] /\ order[i] \in Unchecked(conds) /\ order[i] # k
  <2> DEFINE met == Unchecked(conds) \ rest
             all == Unchecked(conds) \ left
  <2>1. k \notin met /\ all = met \cup {k} /\ MeetsOnce(order, met)
    BY <1>5
  <2>2. order \in Seq(met)
    BY <2>1 DEF MeetsOnce
  <2>3. /\ l \in Nat /\ DOMAIN order = 1..l /\ DOMAIN longer = 1..(l + 1)
        /\ longer[l + 1] = k
        /\ \A i \in 1..l : longer[i] = order[i] /\ order[i] \in met
    BY <2>2
  <2>4. \A i \in met : i \in Unchecked(conds) /\ i # k
    OBVIOUS
  <2> HIDE DEF met, all
  <2>5. MeetsOnce(Append(order, k), all)
    BY <2>1, MetOneMore
  <2> QED
    BY <2>3, <2>4, <2>5 DEF all
<1> HIDE DEF left, longer, l, given
<1>12. \A i \in DOMAIN longer : i \in 1..l \/ i = l + 1
  BY <1>11
<1>13. InListOrder(longer) /\ \A i \in DOMAIN longer, j \in left : longer[i] < j
  <2>1. \A i \in 1..l : order[i] < k
    BY <1>5, <1>11
  <2>2. \A i \in 1..l, j \in left : order[i] < j
    BY <1>5, <1>11 DEF left
  <2>3. ASSUME NEW i \in DOMAIN longer, NEW j \in DOMAIN longer, i < j
        PROVE  longer[i] < longer[j]
    <3>1. i \in 1..l
      BY <1>11, <1>12, <2>3
    <3>2. CASE j \in 1..l
      BY <1>5, <1>11, <2>3, <3>1, <3>2 DEF InListOrder
    <3>3. CASE j = l + 1
      BY <1>11, <2>1, <3>1, <3>3
    <3> QED
      BY <1>12, <3>2, <3>3
  <2> QED
    BY <1>10, <1>11, <1>12, <2>2, <2>3 DEF InListOrder
<1>14. check'[p].conds = Turns(conds, CheckTurns(longer, conds, given))
  <2> DEFINE turns == CheckTurns(order, conds, exist)
             next == CheckTurns(longer, conds, given)
             R == {next[i] : i \in 1..(l + 1)}
  <2>1. /\ turns = [i \in 1..l |-> CheckTurn(conds[order[i]], exist[order[i]])]
        /\ next = [i \in 1..(l + 1) |-> CheckTurn(conds[longer[i]], given[longer[i]])]
    BY <1>11 DEF CheckTurns
  <2> HIDE DEF turns, next
  <2>2. \A i \in 1..l : next[i] = turns[i] /\ i \in 1..(l + 1)
    BY <1>8, <1>11, <2>1
  <2>3. next \in Seq(R) /\ Len(next) = l + 1 /\ turns \in Seq(R) /\ Len(turns) = l
    <3>1. l \in Nat
      BY <1>11
    <3>2. next \in [1..(l + 1) -> R]
      BY <2>1
    <3>3. turns \in [1..l -> R]
      BY <2>1, <2>2
    <3> HIDE DEF R
    <3> QED
      BY <3>1, <3>2, <3>3
  <2> HIDE DEF R
  <2>4. Turns(conds, next) = Turn(Turns(conds, turns), next[l + 1])
    BY <2>2, <2>3, OneMoreTurn
  <2>5. next[l + 1] = CheckTurn(conds[k], answer)
    BY <1>8, <1>11, <2>1
  <2>6. RecordCheck(check[p].conds, rev, answer)
           = RecordCheck(check[p].conds,
                [revision |-> conds[k].revision, resolved |-> conds[k].resolved], answer)
    BY <1>6 DEF RecordCheck
  <2>7. Turn(check[p].conds, CheckTurn(conds[k], answer)) = check'[p].conds
    BY <1>2, <2>6, TurnOfCheck
  <2> QED
    BY <1>5, <2>4, <2>5, <2>7 DEF turns, next
<1>15. AfterChecks(conds, check'[p].todo, check'[p].conds, left, given, longer)
  BY <1>9, <1>11, <1>13, <1>14 DEF AfterChecks
<1> QED
  BY <1>8, <1>15

\* The read: all that is open is left to do.
LEMMA CheckStarts ==
    ASSUME SerialInv, NEW p \in CheckPods, CheckGet(p)
    PROVE  CheckSerial(p)'
<1>1. check \in [CheckPods -> CheckState]
  BY DEF SerialInv, IInv, TypeOK
<1>2. /\ check'[p].todo = GetCheckInput(conds) /\ check'[p].conds = conds
      /\ conds' = conds
  BY <1>1 DEF CheckGet
<1> DEFINE S == Unchecked(conds)
           exist == [i \in S |-> "False"]
<1>3. check'[p].todo = CheckEntries(conds, S)
  BY <1>2 DEF GetCheckInput, CheckEntries
<1>4. exist \in [S -> {"True", "False"}]
  OBVIOUS
<1> HIDE DEF S, exist
<1>5. /\ MeetsOnce(<<>>, S \ S) /\ InListOrder(<<>>) /\ DOMAIN <<>> = {}
      /\ CheckTurns(<<>>, conds, exist) = <<>>
  BY NothingMet
<1>6. check'[p].conds = Turns(conds, CheckTurns(<<>>, conds, exist))
  BY <1>2, <1>5, TurnsEmpty
<1>7. \A i \in DOMAIN <<>>, j \in S : <<>>[i] < j
  BY <1>5
<1>8. AfterChecks(conds, check'[p].todo, check'[p].conds, S, exist, <<>>)
  BY <1>3, <1>5, <1>6, <1>7 DEF AfterChecks, S
<1>9. \E rest \in SUBSET S, e \in [S -> {"True", "False"}] : \E order :
         AfterChecks(conds, check'[p].todo, check'[p].conds, rest, e, order)
  BY <1>4, <1>8
<1> QED
  BY <1>2, <1>9 DEF S, CheckSerial

LEMMA CheckKeepsSerial ==
    ASSUME SerialInv, IInv', NEW p \in CheckPods, CheckStep(p) \/ CheckFail(p)
    PROVE  SerialInv'
<1>1. check \in [CheckPods -> CheckState] /\ check[p] \in CheckState
  BY DEF SerialInv, IInv, TypeOK
<1>2. /\ current' \subseteq current \cup {p}
      /\ current' = {} \/ UNCHANGED conds
      /\ UNCHANGED <<detect, upload>>
      /\ \A q \in CheckPods \ {p} : check'[q] = check[q]
  <2>1. CASE CheckGet(p)
    BY <1>1, <2>1 DEF CheckGet
  <2>2. ASSUME NEW rev \in check[p].todo, NEW exist \in {"True", "False"},
               CheckRevision(p, rev, exist)
        PROVE  <1>2
    BY <1>1, <2>2 DEF CheckRevision
  <2>3. CASE CheckWrite(p)
    BY <1>1, <2>3 DEF CheckWrite, Update
  <2>4. CASE CheckFail(p)
    BY <1>1, <2>4 DEF CheckFail
  <2> QED
    BY <2>1, <2>2, <2>3, <2>4 DEF CheckStep
<1>3. /\ \A d \in Detectors : DetectSerial(d)'
      /\ \A q \in CheckPods \ {p} : CheckSerial(q)'
      /\ \A q \in UploadPods : UploadSerial(q)'
  <2>1. /\ \A d \in Detectors : (d \in current' => d \in current) /\ detect'[d] = detect[d]
        /\ \A q \in CheckPods \ {p} : (q \in current' => q \in current) /\ check'[q] = check[q]
        /\ \A q \in UploadPods : (q \in current' => q \in current) /\ upload'[q] = upload[q]
    BY <1>2, ActorsAssumption
  <2> QED
    BY <1>2, <2>1, SerialFrame
<1>4. CheckSerial(p)'
  <2>1. CASE \E rev \in check[p].todo, exist \in {"True", "False"} :
                CheckRevision(p, rev, exist)
    BY <2>1, CheckGoesOn
  <2>2. CASE CheckGet(p)
    BY <2>2, CheckStarts
  <2>3. CASE CheckWrite(p) \/ CheckFail(p)
    <3>1. check'[p].pc = "idle"
      BY <1>1, <2>3 DEF CheckWrite, CheckFail, Idle
    <3> QED
      BY <3>1 DEF CheckSerial
  <2> QED
    BY <2>1, <2>2, <2>3 DEF CheckStep
<1> QED
  BY <1>3, <1>4 DEF SerialInv

-----------------------------------------------------------------------------
(* Upload jobs *)

\* A turn over a build that has ended.
LEMMA UploadGoesOn ==
    ASSUME SerialInv, NEW p \in UploadPods, NEW build \in upload[p].todo,
           NEW outcome \in BuildOutcomes, UploadBuild(p, build, outcome)
    PROVE  UploadSerial(p)'
<1>1. upload \in [UploadPods -> UploadState] /\ upload[p] \in UploadState
  BY DEF SerialInv, IInv, TypeOK
<1> DEFINE answer == outcome.status
<1>2. /\ upload[p].pc = "run" /\ UNCHANGED <<conds, current>>
      /\ answer \in {"True", "failed"}
      /\ upload'[p].todo = upload[p].todo \ {build}
      /\ upload'[p].conds = RecordBuild(upload[p].conds, build.tag, answer)
  BY <1>1 DEF UploadBuild, UploadState, BuildOutcomes
<1> HIDE DEF answer
<1> SUFFICES ASSUME p \in current
             PROVE  \E rest \in SUBSET Pending(conds),
                       status \in [Pending(conds) -> {"True", "failed"}] : \E order :
                          AfterBuilds(conds, upload'[p].todo, upload'[p].conds,
                                      rest, status, order)
  BY <1>2 DEF UploadSerial
<1>3. PICK rest \in SUBSET Pending(conds),
           status \in [Pending(conds) -> {"True", "failed"}] : \E order :
              AfterBuilds(conds, upload[p].todo, upload[p].conds, rest, status, order)
  BY <1>2 DEF SerialInv, UploadSerial
<1>4. PICK order : AfterBuilds(conds, upload[p].todo, upload[p].conds, rest, status, order)
  BY <1>3
<1>5. /\ upload[p].todo = BuildEntries(conds, rest)
      /\ MeetsOnce(order, Pending(conds) \ rest)
      /\ upload[p].conds = Turns(conds, BuildTurns(order, conds, status))
  BY <1>4 DEF AfterBuilds
<1>6. PICK k \in rest : build = [at |-> k, tag |-> conds[k].resolved]
  BY <1>5 DEF BuildEntries
<1> DEFINE left == rest \ {k}
           longer == Append(order, k)
           l == Len(order)
           given == [status EXCEPT ![k] = answer]
<1>7. /\ left \in SUBSET Pending(conds)
      /\ given \in [Pending(conds) -> {"True", "failed"}]
      /\ given[k] = answer
      /\ \A i \in Pending(conds) : i # k => given[i] = status[i]
  BY <1>2
<1>8. upload'[p].todo = BuildEntries(conds, left)
  BY <1>2, <1>5, <1>6 DEF BuildEntries
<1>9. /\ MeetsOnce(longer, Pending(conds) \ left)
      /\ l \in Nat /\ DOMAIN order = 1..l /\ DOMAIN longer = 1..(l + 1)
      /\ longer[l + 1] = k
      /\ \A i \in 1..l : longer[i] = order[i] /\ order[i] \in Pending(conds) /\ order[i] # k
  <2> DEFINE met == Pending(conds) \ rest
             all == Pending(conds) \ left
  <2>1. k \notin met /\ all = met \cup {k} /\ MeetsOnce(order, met)
    BY <1>5
  <2>2. order \in Seq(met)
    BY <2>1 DEF MeetsOnce
  <2>3. /\ l \in Nat /\ DOMAIN order = 1..l /\ DOMAIN longer = 1..(l + 1)
        /\ longer[l + 1] = k
        /\ \A i \in 1..l : longer[i] = order[i] /\ order[i] \in met
    BY <2>2
  <2>4. \A i \in met : i \in Pending(conds) /\ i # k
    OBVIOUS
  <2> HIDE DEF met, all
  <2>5. MeetsOnce(Append(order, k), all)
    BY <2>1, MetOneMore
  <2> QED
    BY <2>3, <2>4, <2>5 DEF all
<1> HIDE DEF left, longer, l, given
<1>10. upload'[p].conds = Turns(conds, BuildTurns(longer, conds, given))
  <2> DEFINE turns == BuildTurns(order, conds, status)
             next == BuildTurns(longer, conds, given)
             R == {next[i] : i \in 1..(l + 1)}
  <2>1. /\ turns = [i \in 1..l |-> BuildTurn(conds[order[i]], status[order[i]])]
        /\ next = [i \in 1..(l + 1) |-> BuildTurn(conds[longer[i]], given[longer[i]])]
    BY <1>9 DEF BuildTurns
  <2> HIDE DEF turns, next
  <2>2. \A i \in 1..l : next[i] = turns[i] /\ i \in 1..(l + 1)
    BY <1>7, <1>9, <2>1
  <2>3. next \in Seq(R) /\ Len(next) = l + 1 /\ turns \in Seq(R) /\ Len(turns) = l
    <3>1. l \in Nat
      BY <1>9
    <3>2. next \in [1..(l + 1) -> R]
      BY <2>1
    <3>3. turns \in [1..l -> R]
      BY <2>1, <2>2
    <3> HIDE DEF R
    <3> QED
      BY <3>1, <3>2, <3>3
  <2> HIDE DEF R
  <2>4. Turns(conds, next) = Turn(Turns(conds, turns), next[l + 1])
    BY <2>2, <2>3, OneMoreTurn
  <2>5. next[l + 1] = BuildTurn(conds[k], answer)
    BY <1>7, <1>9, <2>1
  <2>6. Turn(upload[p].conds, BuildTurn(conds[k], answer)) = upload'[p].conds
    BY <1>2, <1>6, TurnOfBuild
  <2> QED
    BY <1>5, <2>4, <2>5, <2>6 DEF turns, next
<1>11. AfterBuilds(conds, upload'[p].todo, upload'[p].conds, left, given, longer)
  BY <1>8, <1>9, <1>10 DEF AfterBuilds
<1> QED
  BY <1>7, <1>11

\* The read: every pending build is left to do.
LEMMA UploadStarts ==
    ASSUME SerialInv, NEW p \in UploadPods, UploadGet(p)
    PROVE  UploadSerial(p)'
<1>1. upload \in [UploadPods -> UploadState]
  BY DEF SerialInv, IInv, TypeOK
<1>2. /\ upload'[p].todo = GetUploadInput(conds) /\ upload'[p].conds = conds
      /\ conds' = conds
  BY <1>1 DEF UploadGet
<1> DEFINE S == Pending(conds)
           status == [i \in S |-> "failed"]
<1>3. upload'[p].todo = BuildEntries(conds, S)
  BY <1>2 DEF GetUploadInput, BuildEntries
<1>4. status \in [S -> {"True", "failed"}]
  OBVIOUS
<1> HIDE DEF S, status
<1>5. MeetsOnce(<<>>, S \ S) /\ BuildTurns(<<>>, conds, status) = <<>>
  BY NothingMet
<1>6. upload'[p].conds = Turns(conds, BuildTurns(<<>>, conds, status))
  BY <1>2, <1>5, TurnsEmpty
<1>7. AfterBuilds(conds, upload'[p].todo, upload'[p].conds, S, status, <<>>)
  BY <1>3, <1>5, <1>6 DEF AfterBuilds, S
<1>8. \E rest \in SUBSET S, s \in [S -> {"True", "failed"}] : \E order :
         AfterBuilds(conds, upload'[p].todo, upload'[p].conds, rest, s, order)
  BY <1>4, <1>7
<1> QED
  BY <1>2, <1>8 DEF S, UploadSerial

LEMMA UploadKeepsSerial ==
    ASSUME SerialInv, IInv', NEW p \in UploadPods, UploadStep(p) \/ UploadFail(p)
    PROVE  SerialInv'
<1>1. upload \in [UploadPods -> UploadState] /\ upload[p] \in UploadState
  BY DEF SerialInv, IInv, TypeOK
<1>2. /\ current' \subseteq current \cup {p}
      /\ current' = {} \/ UNCHANGED conds
      /\ UNCHANGED <<detect, check>>
      /\ \A q \in UploadPods \ {p} : upload'[q] = upload[q]
  <2>1. CASE UploadGet(p)
    BY <1>1, <2>1 DEF UploadGet
  <2>2. ASSUME NEW build \in upload[p].todo, NEW outcome \in BuildOutcomes,
               UploadBuild(p, build, outcome)
        PROVE  <1>2
    BY <1>1, <2>2 DEF UploadBuild
  <2>3. CASE UploadWrite(p)
    BY <1>1, <2>3 DEF UploadWrite, Update
  <2>4. CASE UploadFail(p)
    BY <1>1, <2>4 DEF UploadFail
  <2> QED
    BY <2>1, <2>2, <2>3, <2>4 DEF UploadStep
<1>3. /\ \A d \in Detectors : DetectSerial(d)'
      /\ \A q \in CheckPods : CheckSerial(q)'
      /\ \A q \in UploadPods \ {p} : UploadSerial(q)'
  <2>1. /\ \A d \in Detectors : (d \in current' => d \in current) /\ detect'[d] = detect[d]
        /\ \A q \in CheckPods : (q \in current' => q \in current) /\ check'[q] = check[q]
        /\ \A q \in UploadPods \ {p} :
              (q \in current' => q \in current) /\ upload'[q] = upload[q]
    BY <1>2, ActorsAssumption
  <2> QED
    BY <1>2, <2>1, SerialFrame
<1>4. UploadSerial(p)'
  <2>1. CASE \E build \in upload[p].todo, outcome \in BuildOutcomes :
                UploadBuild(p, build, outcome)
    BY <2>1, UploadGoesOn
  <2>2. CASE UploadGet(p)
    BY <2>2, UploadStarts
  <2>3. CASE UploadWrite(p) \/ UploadFail(p)
    <3>1. upload'[p].pc = "idle"
      BY <1>1, <2>3 DEF UploadWrite, UploadFail, Idle
    <3> QED
      BY <3>1 DEF UploadSerial
  <2> QED
    BY <2>1, <2>2, <2>3 DEF UploadStep
<1> QED
  BY <1>3, <1>4 DEF SerialInv

LEMMA NextKeepsSerial == SerialInv /\ [Next]_vars => SerialInv'
<1> SUFFICES ASSUME SerialInv, [Next]_vars PROVE SerialInv'
  OBVIOUS
<1>1. IInv'
  BY NextKeepsInv DEF SerialInv
<1>2. CASE \E d \in Detectors : DetectStep(d) \/ DetectFail(d)
  BY <1>1, <1>2, DetectKeepsSerial
<1>3. CASE \E p \in CheckPods : CheckStep(p) \/ CheckFail(p)
  BY <1>1, <1>3, CheckKeepsSerial
<1>4. CASE \E p \in UploadPods : UploadStep(p) \/ UploadFail(p)
  BY <1>1, <1>4, UploadKeepsSerial
<1>5. CASE UNCHANGED vars \/ \E k \in Keys, c \in Commits : Push(k, c)
  <2>1. UNCHANGED <<conds, current, detect, check, upload>>
    BY <1>5 DEF vars, Push
  <2>2. /\ \A d \in Detectors : DetectSerial(d)'
        /\ \A p \in CheckPods : CheckSerial(p)'
        /\ \A p \in UploadPods : UploadSerial(p)'
    BY <2>1, SerialFrame
  <2> QED
    BY <1>1, <2>2 DEF SerialInv
<1> QED
  BY <1>2, <1>3, <1>4, <1>5 DEF Next

-----------------------------------------------------------------------------
(* Every step maps to a step of AtomicStatus or a stutter *)

\* AtomicStatus and ImageStatus edit lists with the same operators.
LEMMA SameEdits ==
    ASSUME NEW list, NEW a, NEW b
    PROVE  /\ Atomic!EnsureBranch(list, a, b) = EnsureBranch(list, a, b)
           /\ Atomic!EnsureTag(list, a) = EnsureTag(list, a)
           /\ Atomic!RecordCheck(list, a, b) = RecordCheck(list, a, b)
           /\ Atomic!RecordBuild(list, a, b) = RecordBuild(list, a, b)
           /\ Atomic!Unchecked(list) = Unchecked(list)
           /\ Atomic!Pending(list) = Pending(list)
<1>1. \A l, t : Atomic!GetCondition(l, t) = GetCondition(l, t)
  BY DEF GetCondition, Atomic!GetCondition
<1>2. \A l, t, s : Atomic!GetConditionByStatus(l, t, s) = GetConditionByStatus(l, t, s)
  BY <1>1 DEF GetConditionByStatus, Atomic!GetConditionByStatus
<1>3. \A S : Atomic!FirstOf(S) = FirstOf(S)
  BY DEF FirstOf, Min, Atomic!FirstOf, Atomic!Min
<1>4. \A l, t, r : Atomic!GetConditionByRevision(l, t, r) = GetConditionByRevision(l, t, r)
  BY <1>1, <1>3 DEF GetConditionByRevision, Atomic!GetConditionByRevision
<1>5. \A c, t, p, r : Atomic!SamePlace(c, t, p, r) <=> SamePlace(c, t, p, r)
  BY DEF SamePlace, Atomic!SamePlace
<1>6. \A l, t, p, r : Atomic!GetConditionBy(l, t, p, r) = GetConditionBy(l, t, p, r)
  BY <1>3 DEF GetConditionBy, Atomic!GetConditionBy, SamePlace, Atomic!SamePlace
<1>7. \A l, c : Atomic!SetCondition(l, c) = SetCondition(l, c)
  BY <1>6 DEF SetCondition, Atomic!SetCondition
<1>8. /\ \A t, s, p, r, c : Atomic!Condition(t, s, p, r, c) = Condition(t, s, p, r, c)
      /\ Atomic!None = None /\ Atomic!NoStatus = NoStatus
  BY DEF Condition, None, NoStatus, Atomic!Condition, Atomic!None, Atomic!NoStatus
<1>9. \A l, t, s, p, r, c :
         Atomic!UpdateCondition(l, t, s, p, r, c) = UpdateCondition(l, t, s, p, r, c)
  <2> SUFFICES ASSUME NEW l, NEW t, NEW s, NEW p, NEW r, NEW c
               PROVE  Atomic!UpdateCondition(l, t, s, p, r, c) = UpdateCondition(l, t, s, p, r, c)
    OBVIOUS
  <2> DEFINE i   == GetConditionBy(l, t, p, r)
             ai  == Atomic!GetConditionBy(l, t, p, r)
             old(k) == [l[k] EXCEPT !.status = IF l[k].resolved # c THEN "True" ELSE "False"]
             new(open)  == Condition(t, IF s = open THEN "Unknown" ELSE s, p, r, c)
             anew(open) == Atomic!Condition(t, IF s = open THEN "Unknown" ELSE s, p, r, c)
  <2>1. UpdateCondition(l, t, s, p, r, c) =
           IF i # 0 /\ s = NoStatus THEN SetCondition(l, old(i)) ELSE SetCondition(l, new(NoStatus))
    BY DEF UpdateCondition
  <2>2. Atomic!UpdateCondition(l, t, s, p, r, c) =
           IF ai # 0 /\ s = Atomic!NoStatus THEN Atomic!SetCondition(l, old(ai))
           ELSE Atomic!SetCondition(l, anew(Atomic!NoStatus))
    BY DEF Atomic!UpdateCondition
  <2>3. ai = i /\ \A open : anew(open) = new(open)
    BY <1>6, <1>8
  <2> HIDE DEF i, ai, old, new, anew
  <2> QED
    BY <1>7, <1>8, <2>1, <2>2, <2>3
<1>10. \A l, s, r, c :
          Atomic!UpdateCheckedCondition(l, s, r, c) = UpdateCheckedCondition(l, s, r, c)
  <2> SUFFICES ASSUME NEW l, NEW s, NEW r, NEW c
               PROVE  Atomic!UpdateCheckedCondition(l, s, r, c)
                         = UpdateCheckedCondition(l, s, r, c)
    OBVIOUS
  <2> DEFINE same   == {i \in GetCondition(l, "checked") : l[i].resolved = c}
             asame  == {i \in Atomic!GetCondition(l, "checked") : l[i].resolved = c}
             stale  == FirstOf({i \in same : l[i].status # s})
             astale == Atomic!FirstOf({i \in asame : l[i].status # s})
             moved(i) == [l[i] EXCEPT !.status = s, !.revision = r]
             new    == Condition("checked", s, "unused", r, c)
             anew   == Atomic!Condition("checked", s, "unused", r, c)
  <2>1. UpdateCheckedCondition(l, s, r, c) =
           IF same = {} THEN Append(l, new)
           ELSE IF stale = 0 THEN l ELSE SetCondition(l, moved(stale))
    BY DEF UpdateCheckedCondition
  <2>2. Atomic!UpdateCheckedCondition(l, s, r, c) =
           IF asame = {} THEN Append(l, anew)
           ELSE IF astale = 0 THEN l ELSE Atomic!SetCondition(l, moved(astale))
    BY DEF Atomic!UpdateCheckedCondition
  <2>3. asame = same /\ anew = new
    BY <1>1, <1>8
  <2>4. astale = stale
    <3> HIDE DEF same, asame
    <3> QED
      BY <1>3, <2>3
  <2> HIDE DEF same, asame, stale, astale, moved, new, anew
  <2> QED
    BY <1>7, <2>1, <2>2, <2>3, <2>4
<1>11. \A l, s, r, c :
          Atomic!UpdateUploadedCondition(l, s, r, c) = UpdateUploadedCondition(l, s, r, c)
  BY <1>1, <1>8 DEF UpdateUploadedCondition, Atomic!UpdateUploadedCondition
<1>12. \A l, p, r, c : Atomic!MarkUploadConditionAsCanceled(l, p, r, c)
                         = MarkUploadConditionAsCanceled(l, p, r, c)
  BY <1>4 DEF MarkUploadConditionAsCanceled, Atomic!MarkUploadConditionAsCanceled,
     SamePlace, Atomic!SamePlace
<1>13. Atomic!EnsureBranch(list, a, b) = EnsureBranch(list, a, b)
  <2> DEFINE checked  == IF \E i \in GetConditionByStatus(list, "checked", "True") :
                               list[i].resolved = b
                         THEN "True" ELSE "False"
             achecked == IF \E i \in Atomic!GetConditionByStatus(list, "checked", "True") :
                               list[i].resolved = b
                         THEN "True" ELSE "False"
  <2>1. EnsureBranch(list, a, b) =
           UpdateCondition(MarkUploadConditionAsCanceled(list, "branchHash", a, b),
                           "checked", checked, "branchHash", a, b)
    BY DEF EnsureBranch
  <2>2. Atomic!EnsureBranch(list, a, b) =
           Atomic!UpdateCondition(Atomic!MarkUploadConditionAsCanceled(list, "branchHash", a, b),
                                  "checked", achecked, "branchHash", a, b)
    BY DEF Atomic!EnsureBranch
  <2>3. achecked = checked
    BY <1>2
  <2> HIDE DEF checked, achecked
  <2> QED
    BY <1>9, <1>12, <2>1, <2>2, <2>3
<1>14. Atomic!EnsureTag(list, a) = EnsureTag(list, a)
  BY <1>9 DEF EnsureTag, Atomic!EnsureTag
<1>15. Atomic!RecordCheck(list, a, b) = RecordCheck(list, a, b)
  BY <1>10, <1>11 DEF RecordCheck, Atomic!RecordCheck
<1>16. Atomic!RecordBuild(list, a, b) = RecordBuild(list, a, b)
  BY <1>1, <1>8, <1>11 DEF RecordBuild, Atomic!RecordBuild
<1>17. Atomic!Unchecked(list) = Unchecked(list)
  BY <1>2 DEF Unchecked, Atomic!Unchecked
<1>18. Atomic!Pending(list) = Pending(list)
  BY <1>1 DEF Pending, Atomic!Pending
<1> QED
  BY <1>13, <1>14, <1>15, <1>16, <1>17, <1>18

LEMMA SameTurn ==
    ASSUME NEW list, NEW turn
    PROVE  Atomic!Turn(list, turn) = Turn(list, turn)
BY SameEdits
DEF Turn, Atomic!Turn

LEMMA SameTurns ==
    ASSUME NEW list, NEW turns
    PROVE  Atomic!Turns(list, turns) = Turns(list, turns)
BY SameTurn
DEF Turns, FoldLeft, MapThenFoldSet, Max, Atomic!Turns, Atomic!FoldLeft,
   Atomic!MapThenFoldSet, Atomic!Max

LEMMA SameResults ==
    ASSUME NEW list, NEW data
    PROVE  /\ Atomic!DetectResults(list, data) = DetectResults(list, data)
           /\ Atomic!CheckResults(list, data) = CheckResults(list, data)
           /\ Atomic!UploadResults(list, data) = UploadResults(list, data)
<1>1. \A S : Atomic!Cardinality(S) = Cardinality(S)
  BY DEF Cardinality, Atomic!Cardinality
<1>2. \A S : Atomic!SetToSeqs(S) = SetToSeqs(S)
  BY <1>1 DEF SetToSeqs, Atomic!SetToSeqs
<1>3. /\ Atomic!Keys = Keys /\ Atomic!None = None
      /\ \A k, c : Atomic!DetectTurn(k, c) = DetectTurn(k, c)
      /\ \A c, e : Atomic!CheckTurn(c, e) = CheckTurn(c, e)
      /\ \A c, s : Atomic!BuildTurn(c, s) = BuildTurn(c, s)
  BY DEF Keys, None, DetectTurn, CheckTurn, BuildTurn, Atomic!Keys, Atomic!None,
     Atomic!DetectTurn, Atomic!CheckTurn, Atomic!BuildTurn
<1>4. \A turns : Atomic!Turns(list, turns) = Turns(list, turns)
  BY SameTurns
<1>5. Atomic!Unchecked(list) = Unchecked(list) /\ Atomic!Pending(list) = Pending(list)
  BY SameEdits
<1>6. Atomic!DetectResults(list, data) = DetectResults(list, data)
  BY <1>2, <1>3, <1>4 DEF DetectResults, Atomic!DetectResults
<1>7. Atomic!CheckResults(list, data) = CheckResults(list, data)
  BY <1>2, <1>3, <1>4, <1>5 DEF CheckResults, Atomic!CheckResults
<1>8. Atomic!UploadResults(list, data) = UploadResults(list, data)
  BY <1>2, <1>3, <1>4, <1>5 DEF UploadResults, Atomic!UploadResults
<1> QED
  BY <1>6, <1>7, <1>8

\* A tick's write that changes the list.
LEMMA DetectWriteRefines ==
    ASSUME SerialInv, NEW d \in Detectors, DetectWrite(d), conds' # conds
    PROVE  Atomic!Next
<1>1. /\ detect[d] \in DetectState /\ d \in current /\ conds' = detect[d].conds
      /\ detect[d].pc = "ensure" /\ detect[d].todo = {}
  BY DEF SerialInv, IInv, TypeOK, DetectWrite, Update
<1> DEFINE file == detect[d].file
           found == {k \in Keys : file[k] # None}
<1>2. PICK order : /\ MeetsOnce(order, Found(d) \ {})
                   /\ BranchesFirst(order)
                   /\ conds' = Turns(conds, DetectTurns(order, file))
  <2>1. DetectSerial(d)
    BY DEF SerialInv
  <2>2. \E order : /\ MeetsOnce(order, Found(d) \ detect[d].todo)
                   /\ BranchesFirst(order)
                   /\ detect[d].conds = Turns(conds, DetectTurns(order, detect[d].file))
    BY <1>1, <2>1 DEF DetectSerial
  <2> QED
    BY <1>1, <2>2
<1>3. order \in SetToSeqs(found)
  <2>1. MeetsOnce(order, found)
    <3>1. Found(d) \ {} = found
      BY DEF Found
    <3> QED
      BY <1>2, <3>1
  <2> HIDE DEF found
  <2> QED
    BY <2>1, OrderOfSet DEF MeetsOnce
<1>4. conds' \in DetectResults(conds, file)
  BY <1>2, <1>3 DEF DetectResults, DetectTurns, BranchesFirst
<1>5. file \in [Keys -> Commits \cup {None}]
  BY <1>1 DEF DetectState
<1> HIDE DEF file
<1>6. conds' \in Atomic!DetectResults(conds, file)
  BY <1>4, SameResults
<1> QED
  BY <1>5, <1>6 DEF Atomic!Next, Atomic!DetectTick, Atomic!Keys, Atomic!None, Keys, None

\* A check job's write that changes the list.
LEMMA CheckWriteRefines ==
    ASSUME SerialInv, NEW p \in CheckPods, CheckWrite(p), conds' # conds
    PROVE  Atomic!Next
<1>1. /\ p \in current /\ conds' = check[p].conds
      /\ check[p].pc = "run" /\ check[p].todo = {}
  BY DEF CheckWrite, Update
<1>2. PICK rest \in SUBSET Unchecked(conds),
           exist \in [Unchecked(conds) -> {"True", "False"}] : \E order :
              AfterChecks(conds, check[p].todo, check[p].conds, rest, exist, order)
  BY <1>1 DEF SerialInv, CheckSerial
<1>3. PICK order : AfterChecks(conds, check[p].todo, check[p].conds, rest, exist, order)
  BY <1>2
<1>4. rest = {}
  <2>1. CheckEntries(conds, rest) = {}
    BY <1>1, <1>3 DEF AfterChecks
  <2>2. ASSUME NEW i \in rest
        PROVE  [at |-> i, revision |-> conds[i].revision, resolved |-> conds[i].resolved]
                  \in CheckEntries(conds, rest)
    BY DEF CheckEntries
  <2> QED
    BY <2>1, <2>2
<1>5. /\ MeetsOnce(order, Unchecked(conds)) /\ InListOrder(order)
      /\ conds' = Turns(conds, CheckTurns(order, conds, exist))
  <2>1. Unchecked(conds) \ rest = Unchecked(conds)
    BY <1>4
  <2> QED
    BY <1>1, <1>3, <2>1 DEF AfterChecks
<1>6. order \in SetToSeqs(Unchecked(conds))
  BY <1>5, OrderOfSet DEF MeetsOnce
<1>7. conds' \in CheckResults(conds, exist)
  BY <1>5, <1>6 DEF CheckResults, CheckTurns, InListOrder
<1>8. conds' \in Atomic!CheckResults(conds, exist)
  BY <1>7, SameResults
<1>9. Atomic!Unchecked(conds) = Unchecked(conds)
  BY SameEdits
<1> QED
  BY <1>8, <1>9 DEF Atomic!Next, Atomic!CheckJob

\* An upload job's write that changes the list.
LEMMA UploadWriteRefines ==
    ASSUME SerialInv, NEW p \in UploadPods, UploadWrite(p), conds' # conds
    PROVE  Atomic!Next
<1>1. /\ p \in current /\ conds' = upload[p].conds
      /\ upload[p].pc = "run" /\ upload[p].todo = {}
  BY DEF UploadWrite, Update
<1>2. PICK rest \in SUBSET Pending(conds),
           status \in [Pending(conds) -> {"True", "failed"}] : \E order :
              AfterBuilds(conds, upload[p].todo, upload[p].conds, rest, status, order)
  BY <1>1 DEF SerialInv, UploadSerial
<1>3. PICK order : AfterBuilds(conds, upload[p].todo, upload[p].conds, rest, status, order)
  BY <1>2
<1>4. rest = {}
  BY <1>1, <1>3 DEF AfterBuilds, BuildEntries
<1>5. /\ MeetsOnce(order, Pending(conds))
      /\ conds' = Turns(conds, BuildTurns(order, conds, status))
  <2>1. Pending(conds) \ rest = Pending(conds)
    BY <1>4
  <2> QED
    BY <1>1, <1>3, <2>1 DEF AfterBuilds
<1>6. order \in SetToSeqs(Pending(conds))
  BY <1>5, OrderOfSet DEF MeetsOnce
<1>7. conds' \in UploadResults(conds, status)
  BY <1>5, <1>6 DEF UploadResults, BuildTurns
<1>8. conds' \in Atomic!UploadResults(conds, status)
  BY <1>7, SameResults
<1>9. Atomic!Pending(conds) = Pending(conds)
  BY SameEdits
<1> QED
  BY <1>8, <1>9 DEF Atomic!Next, Atomic!UploadJob

LEMMA StepRefines == SerialInv /\ [Next]_vars => [Atomic!Next]_conds
<1> SUFFICES ASSUME SerialInv, [Next]_vars, conds' # conds PROVE Atomic!Next
  OBVIOUS
<1>1. ASSUME NEW d \in Detectors, DetectStep(d) \/ DetectFail(d) PROVE Atomic!Next
  <2>1. DetectWrite(d)
    BY <1>1
    DEF DetectStep, DetectTick, DetectFetch, DetectGet, DetectBranch, DetectTag, DetectFail
  <2> QED
    BY <2>1, DetectWriteRefines
<1>2. ASSUME NEW p \in CheckPods, CheckStep(p) \/ CheckFail(p) PROVE Atomic!Next
  <2>1. CheckWrite(p)
    BY <1>2 DEF CheckStep, CheckGet, CheckRevision, CheckFail
  <2> QED
    BY <2>1, CheckWriteRefines
<1>3. ASSUME NEW p \in UploadPods, UploadStep(p) \/ UploadFail(p) PROVE Atomic!Next
  <2>1. UploadWrite(p)
    BY <1>3 DEF UploadStep, UploadGet, UploadBuild, UploadFail
  <2> QED
    BY <2>1, UploadWriteRefines
<1> QED
  BY <1>1, <1>2, <1>3 DEF Next, vars, Push

\* The status writes are serializable, whatever the branches, tags and commits and
\* however many pods read, edit, write and crash in whatever order: the stored list
\* goes through the states a sequence of atomic loops would give it
\* (detect.go:59-83, check.go:107-125, upload.go:196-222 and the conflict check).
THEOREM WritesAreSerializable == Spec => Serializable
<1>1. Init => Atomic!Init
  BY DEF Init, Atomic!Init
<1>2. Spec => []SerialInv
  BY SerialInit, NextKeepsSerial, PTL DEF Spec
<1> QED
  BY <1>1, <1>2, StepRefines, PTL DEF Spec, Serializable, Atomic!Spec

-----------------------------------------------------------------------------
(* The file a tick starts from *)

Hashes == INSTANCE GithubHashesProofs

\* DetectFile's client is the one the theorems of GithubHashesProofs are about: their
\* definitions agree, one by one.
LEMMA SameClient ==
    /\ \A branches, tags, listed, newest, revs :
          Hashes!LatestReturned(branches, tags, listed, newest, revs)
             = Client!LatestReturned(branches, tags, listed, newest, revs)
    /\ Hashes!LatestHash = Client!LatestHash
<1>1. \A s : Hashes!Letters(s) = Client!Letters(s)
  BY DEF Hashes!Letters, Client!Letters
<1>3. \A s, letters : Hashes!TrimLeft(s, letters) = Client!TrimLeft(s, letters)
  BY DEF Hashes!TrimLeft, Client!TrimLeft
<1>4. \A kind, name : Hashes!Key(kind, name) = Client!Key(kind, name)
  BY DEF Hashes!Key, Client!Key, Hashes!Slash, Client!Slash
<1>5. \A kind, revs : Hashes!getHashes(kind, revs) = Client!getHashes(kind, revs)
  BY DEF Hashes!getHashes, Client!getHashes, Hashes!TrimLeft, Client!TrimLeft,
     Hashes!Letters, Client!Letters, Hashes!Slash, Client!Slash,
     Hashes!Contains, Client!Contains
<1>6. \A revs, kind, hash : Hashes!setHashes(revs, kind, hash) = Client!setHashes(revs, kind, hash)
  BY DEF Hashes!setHashes, Client!setHashes, Hashes!Key, Client!Key, Hashes!Slash, Client!Slash
<1>7. /\ Hashes!Branch = Client!Branch /\ Hashes!Tag = Client!Tag
      /\ Hashes!Slash = Client!Slash /\ Hashes!NoRevs = Client!NoRevs
      /\ Hashes!LatestHash = Client!LatestHash /\ Hashes!Latest = Client!Latest
  BY DEF Hashes!Branch, Client!Branch, Hashes!Tag, Client!Tag, Hashes!Slash, Client!Slash,
     Hashes!NoRevs, Client!NoRevs, Hashes!LatestHash, Client!LatestHash,
     Hashes!LatestName, Client!LatestName, Hashes!Latest, Client!Latest
<1>8. \A tags : Hashes!Looked(tags) = Client!Looked(tags)
  BY DEF Hashes!Looked, Client!Looked, Hashes!Before, Client!Before,
     Hashes!LatestHash, Client!LatestHash,
     Hashes!LatestName, Client!LatestName, Hashes!Latest, Client!Latest
<1>9. \A tags, listed, newest, revs :
          Hashes!TagHash(tags, listed, newest, revs) = Client!TagHash(tags, listed, newest, revs)
  <2> SUFFICES ASSUME NEW tags, NEW listed, NEW newest, NEW revs
               PROVE  Hashes!TagHash(tags, listed, newest, revs)
                         = Client!TagHash(tags, listed, newest, revs)
    OBVIOUS
  <2> DEFINE looked == Client!Looked(tags)
             latest == Client!Latest
             found  == {t \in looked : t \in latest \/ t \in DOMAIN listed}
             hash   == [t \in found |-> IF t \in latest THEN newest ELSE listed[t]]
  <2>1. Client!TagHash(tags, listed, newest, revs) =
           LET after == Client!setHashes(revs, Client!Tag, hash)
           IN  IF tags = <<>> \/ newest = None
               THEN [revs |-> revs, returns |-> {Client!NoRevs}]
               ELSE [revs |-> after, returns |-> Client!getHashes(Client!Tag, after)]
    BY DEF Client!TagHash
  <2>2. Hashes!TagHash(tags, listed, newest, revs) =
           LET after == Hashes!setHashes(revs, Hashes!Tag, hash)
           IN  IF tags = <<>> \/ newest = None
               THEN [revs |-> revs, returns |-> {Hashes!NoRevs}]
               ELSE [revs |-> after, returns |-> Hashes!getHashes(Hashes!Tag, after)]
    <3>1. Hashes!Looked(tags) = looked /\ Hashes!Latest = latest
      BY <1>7, <1>8
    <3> HIDE DEF looked, latest
    <3> QED
      BY <3>1 DEF Hashes!TagHash
  <2> HIDE DEF hash
  <2> QED
    BY <1>5, <1>6, <1>7, <2>1, <2>2
<1>10. \A branches, tags, revs :
          Hashes!LeftBy(branches, tags, revs) = Client!LeftBy(branches, tags, revs)
  BY <1>1, <1>4, <1>7, <1>8 DEF Hashes!LeftBy, Client!LeftBy
<1>11. \A branches, tags, listed, newest, revs :
          Hashes!LatestReturned(branches, tags, listed, newest, revs)
             = Client!LatestReturned(branches, tags, listed, newest, revs)
  BY <1>1, <1>3, <1>4, <1>7, <1>8, <1>9, <1>10
  DEF Hashes!LatestReturned, Client!LatestReturned
<1> QED
  BY <1>7, <1>11

\* The names of the run are names of letters.
LEMMA NamesTyped ==
    /\ \A name \in BranchNames : <<name>> \in Seq(Hashes!Name)
    /\ <<Client!LatestHash>> \in Seq(Hashes!Name)
<1>1. \A name \in BranchNames : name \in Seq(Hashes!Letter)
  <2>1. <<"m", "t", "a", "g">> \in Seq(Hashes!Letter)
    BY DEF Hashes!Letter
  <2>2. <<"m", "h">> \in Seq(Hashes!Letter)
    BY DEF Hashes!Letter
  <2> QED
    BY <2>1, <2>2 DEF BranchNames
<1>2. Hashes!LatestHash \in Hashes!Name
  BY Hashes!Words
<1> QED
  BY <1>1, <1>2, SameClient DEF Hashes!Name

\* The latest tag of a tick has the head this tick has fetched, whatever earlier ticks
\* of the pod have left in the client's map (github.go:99-158).
THEOREM TagFilesAreFaithful == Spec => []TagFileFaithful
<1>1. TagFileFaithful
  <2> SUFFICES ASSUME NEW d \in Detectors, NEW name \in BranchNames, NEW revs \in Revs(name)
               PROVE  Client!LatestReturned(<<name>>, <<Client!LatestHash>>,
                          [t \in {} |-> None], detect[d].file["latest/hash"], revs)
    BY DEF TagFileFaithful
  <2> DEFINE newest == detect[d].file["latest/hash"]
             listed == [t \in {} |-> None]
  <2> HIDE DEF newest, listed
  <2>1. Hashes!LatestReturned(<<name>>, <<Client!LatestHash>>, listed, newest, revs)
    BY NamesTyped, Hashes!LatestFaithful
  <2> QED
    BY <2>1, SameClient DEF newest, listed
<1> QED
  BY <1>1, PTL
=============================================================================
