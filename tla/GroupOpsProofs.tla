---------------------------- MODULE GroupOpsProofs -----------------------------
(* GroupOps is type correct, and a delete-group is all or nothing: proofs for *)
(* every cluster, placement and plan.                                         *)
(*                                                                            *)
(* Three invariants build on each other, where no puts run beside the         *)
(* delete-groups and group operations run one at a time.  CompleteInv: a node *)
(* the operation is done with holds nothing that matches.  ExactInv: while no *)
(* daemon restarted, snapshots are exact until their node is deleted from,    *)
(* and a rollback has put back all that undo does not name.  CountInv: the    *)
(* total grows by the same number of records at every node.                   *)
EXTENDS GroupOps, FiniteSetTheorems, SequenceTheorems, TLAPS

\* The plan of a behaviour is well formed.
LEMMA PlanFacts ==
    ASSUME plan \in DOMAIN Plans
    PROVE  /\ Cluster \in Seq(Nodes) /\ Len(Cluster) \in Nat /\ Len(Cluster) > 0
           /\ \A i \in 1..Len(Cluster) : Cluster[i] \in Nodes
           /\ \A i, j \in 1..Len(Cluster) : Cluster[i] = Cluster[j] => i = j
           /\ Home \in [Keys -> Seq(Nodes)]
           /\ \A k \in Keys : Len(Home[k]) \in Nat /\ Len(Home[k]) > 0
           /\ Initial \in [Keys -> Records]
           /\ Menu \in [Groups -> SUBSET Kinds] /\ IsFiniteSet(Groups)
           /\ PutOf \in [Writers -> [key : Keys, value : Values]]
           /\ MaxRefused \in Nat /\ MaxLost \in Nat /\ MaxRestarts \in Nat
<1>1. WellFormed(Plans[plan])
  BY PlansAssumption
<1>2. Cluster \in Seq(Nat) /\ Len(Cluster) > 0 /\ Len(Cluster) \in Nat
  BY <1>1 DEF WellFormed, Cluster
<1>3. \A i \in 1..Len(Cluster) : Cluster[i] \in Nodes
  BY DEF Nodes
<1>4. Cluster \in Seq(Nodes)
  BY <1>2, <1>3
<1>5. Home \in [Keys -> Seq(Nodes)] /\ \A k \in Keys : Len(Home[k]) > 0
  BY <1>1 DEF WellFormed, Home, Nodes, Cluster
<1>6. \A k \in Keys : Len(Home[k]) \in Nat
  BY <1>5
<1>7. \A i, j \in 1..Len(Cluster) : Cluster[i] = Cluster[j] => i = j
  BY <1>1 DEF WellFormed, Cluster
<1>8. /\ Initial \in [Keys -> Records]
      /\ Menu \in [Groups -> SUBSET Kinds] /\ IsFiniteSet(Groups)
      /\ PutOf \in [Writers -> [key : Keys, value : Values]]
      /\ MaxRefused \in Nat /\ MaxLost \in Nat /\ MaxRestarts \in Nat
  BY <1>1 DEF WellFormed, Initial, Menu, Groups, PutOf, Writers, MaxRefused, MaxLost,
              MaxRestarts
<1>. QED
  BY <1>2, <1>3, <1>4, <1>5, <1>6, <1>7, <1>8

\* The replicas of a key are nodes of the cluster; a put has a key, a value and a primary.
LEMMA KeyFacts ==
    ASSUME plan \in DOMAIN Plans
    PROVE  /\ \A k \in Keys, i \in Nat : i \in 1..Len(Home[k]) => Home[k][i] \in Nodes
           /\ \A k \in Keys : HomeOf(k) \subseteq Nodes
           /\ \A w \in Writers :
                KeyOf(w) \in Keys /\ PutOf[w].value \in Values /\ PrimaryOf(w) \in Nodes
<1>1. /\ Home \in [Keys -> Seq(Nodes)]
      /\ \A k \in Keys : Len(Home[k]) \in Nat /\ Len(Home[k]) > 0
      /\ PutOf \in [Writers -> [key : Keys, value : Values]]
  BY PlanFacts
<1>2. \A k \in Keys, i \in Nat : i \in 1..Len(Home[k]) => Home[k][i] \in Nodes
  BY <1>1
<1>3. \A k \in Keys : HomeOf(k) \subseteq Nodes
  BY <1>2, <1>1 DEF HomeOf
<1>4. \A w \in Writers :
         KeyOf(w) \in Keys /\ PutOf[w].value \in Values /\ PrimaryOf(w) \in Nodes
  BY <1>1, <1>2 DEF KeyOf, PrimaryOf
<1>. QED
  BY <1>2, <1>3, <1>4

\* No step changes the plan, nor what is read from it.
LEMMA PlanStays ==
    ASSUME plan' = plan
    PROVE  /\ Cluster' = Cluster /\ Nodes' = Nodes /\ Home' = Home /\ Initial' = Initial
           /\ \A k : HomeOf(k)' = HomeOf(k)
           /\ Menu' = Menu /\ Groups' = Groups /\ PutOf' = PutOf /\ Writers' = Writers
           /\ \A w : KeyOf(w)' = KeyOf(w) /\ PrimaryOf(w)' = PrimaryOf(w)
           /\ MaxRefused' = MaxRefused /\ MaxLost' = MaxLost /\ MaxRestarts' = MaxRestarts
           /\ GroupType' = GroupType /\ PutType' = PutType
  BY DEF Cluster, Nodes, Home, HomeOf, Initial, Menu, Groups, PutOf, Writers, KeyOf,
         PrimaryOf, MaxRefused, MaxLost, MaxRestarts, GroupType, PutType
-------------------------------------------------------------------------------
(* Type correctness                                                           *)

\* What holds of a group operation wherever it is: positions are positions of the
\* list they are used for, and snapshots hold only records that match.
Sound(g) ==
    /\ grp[g].next >= 1
    /\ grp[g].pc # "done" => grp[g].result = "none"
    /\ grp[g].pc = "new" =>
          /\ grp[g].next = 1 /\ grp[g].snaps = <<>> /\ grp[g].total = 0
          /\ grp[g].undo = {} /\ grp[g].skipped = {}
    /\ grp[g].pc # "new" => grp[g].kind \in Menu[g]
    /\ grp[g].pc \in {"delete", "rollback"} => grp[g].kind = "delete_group"
    /\ grp[g].pc = "delete" => grp[g].next <= Len(grp[g].snaps) + 1
    /\ grp[g].undo \subseteq (1..Len(grp[g].snaps)) \X Keys
    /\ \A i \in 1..Len(grp[g].snaps), k \in Keys :
          grp[g].snaps[i].recs[k] \in Matching \cup {NoRec}

\* Likewise of a put.
SoundPut(w) ==
    /\ put[w].next >= 1
    /\ put[w].pc = "replicate" => put[w].next >= 2
    /\ put[w].result = "ok" => put[w].pc = "done"

TypeInv ==
    /\ TypeOK
    /\ \A g \in Groups : Sound(g)
    /\ \A w \in Writers : SoundPut(w)

\* The initial state is typed, in either plan: all nodes know the space and hold
\* the same records.
LEMMA InitType == Init => TypeInv
<1>. SUFFICES ASSUME Init PROVE TypeInv
  OBVIOUS
<1>. USE DEF Init
<1>1. plan \in DOMAIN Plans
  OBVIOUS
<1>2. Cluster[1] \in Nodes /\ Initial \in [Keys -> Records]
      /\ MaxRefused \in Nat /\ MaxLost \in Nat
  BY <1>1, PlanFacts
<1>3. Nothing \in Snapshot
  BY DEF Nothing, Snapshot, Records
<1>4. table \in [Nodes -> [Keys -> Records]]
  BY <1>2 DEF Records
<1>5. grp \in [Groups -> GroupType]
  BY <1>2, <1>3 DEF GroupType, Kinds
<1>6. put \in [Writers -> PutType]
  BY DEF PutType, Records
<1>7. TypeOK
  <2>1. schema \in [Nodes -> BOOLEAN] /\ restarted \subseteq Nodes
    OBVIOUS
  <2>2. refused \in 0..MaxRefused /\ lost \in 0..MaxLost
    BY <1>2
  <2>. QED
    BY <1>1, <1>4, <1>5, <1>6, <2>1, <2>2 DEF TypeOK
<1>8. \A g \in Groups : Sound(g)
  BY DEF Sound
<1>9. \A w \in Writers : SoundPut(w)
  BY DEF SoundPut
<1>. QED
  BY <1>7, <1>8, <1>9 DEF TypeInv

\* A step of g leaves the other group operations alone.
Others(g) == \A h \in Groups : h # g => grp'[h] = grp[h]

\* What a step of a running operation keeps.
Keeps(g) ==
    /\ grp'[g].kind = grp[g].kind /\ grp'[g].at = grp[g].at
    /\ grp'[g].acked = grp[g].acked

\* The changes of grp the actions are made of, field by field.
Ended(g, result) ==
    /\ Keeps(g)
    /\ grp'[g].pc = "done" /\ grp'[g].result = result
    /\ grp'[g].next = grp[g].next /\ grp'[g].skipped = grp[g].skipped
    /\ grp'[g].found = grp[g].found /\ grp'[g].snaps = grp[g].snaps
    /\ grp'[g].total = grp[g].total /\ grp'[g].undo = grp[g].undo
Visited(g) ==
    /\ Keeps(g)
    /\ grp'[g].pc = grp[g].pc /\ grp'[g].result = grp[g].result
    /\ grp'[g].next = grp[g].next + 1 /\ grp'[g].undo = grp[g].undo
RolledBack(g, applied) ==
    /\ Keeps(g)
    /\ grp'[g].pc = "rollback" /\ grp'[g].result = grp[g].result
    /\ grp'[g].next = grp[g].next /\ grp'[g].skipped = grp[g].skipped
    /\ grp'[g].found = grp[g].found /\ grp'[g].snaps = grp[g].snaps
    /\ grp'[g].total = grp[g].total /\ grp'[g].undo = UndoOf(g, applied)

\* An operation is replaced by one of the right type.
LEMMA Replaced ==
    ASSUME TypeInv, NEW g \in Groups, NEW r \in GroupType, grp' = [grp EXCEPT ![g] = r]
    PROVE  grp' \in [Groups -> GroupType] /\ Others(g) /\ grp'[g] = r
  BY DEF TypeInv, TypeOK, Others

\* An operation that ends answers once and keeps nothing but its answer.
LEMMA EndsEffect ==
    ASSUME TypeInv, NEW g \in Groups, NEW count \in Nat,
           NEW result \in {"ok", "err", "rollback_failed", "crashed"},
           GroupEnds(g, result, count)
    PROVE  /\ grp' \in [Groups -> GroupType] /\ Others(g)
           /\ Ended(g, result) /\ grp'[g].count = count
<1>1. grp \in [Groups -> GroupType] /\ grp[g] \in GroupType
  BY DEF TypeInv, TypeOK
<1>. DEFINE r == [grp[g] EXCEPT !.pc = "done", !.result = result, !.count = count]
<1>2. grp' = [grp EXCEPT ![g] = r]
  BY <1>1 DEF GroupEnds
<1>4. r \in GroupType
  BY <1>1 DEF GroupType
<1>5. /\ r.pc = "done" /\ r.kind = grp[g].kind /\ r.at = grp[g].at
      /\ r.next = grp[g].next /\ r.skipped = grp[g].skipped
      /\ r.found = grp[g].found /\ r.snaps = grp[g].snaps /\ r.total = grp[g].total
      /\ r.undo = grp[g].undo /\ r.result = result /\ r.count = count
      /\ r.acked = grp[g].acked
  BY <1>1 DEF GroupType
<1>. HIDE DEF r
<1>6. grp' \in [Groups -> GroupType] /\ Others(g) /\ grp'[g] = r
  BY <1>2, <1>4, Replaced
<1>. QED
  BY <1>5, <1>6 DEF Ended, Keeps

\* An operation that begins remembers the puts acknowledged before it and starts
\* with no node visited.
LEMMA BeginEffect ==
    ASSUME TypeInv, NEW g \in Groups, NEW n \in Nodes, NEW kind \in Menu[g],
           GroupBegin(g, n, kind)
    PROVE  /\ grp' \in [Groups -> GroupType] /\ Others(g)
           /\ grp'[g].pc = "visit" /\ grp'[g].kind = kind /\ grp'[g].at = n
           /\ grp'[g].acked = {w \in Writers : put[w].result = "ok"}
           /\ grp'[g].next = grp[g].next /\ grp'[g].skipped = grp[g].skipped
           /\ grp'[g].found = grp[g].found /\ grp'[g].snaps = grp[g].snaps
           /\ grp'[g].total = grp[g].total /\ grp'[g].undo = grp[g].undo
           /\ grp'[g].result = grp[g].result
<1>1. grp \in [Groups -> GroupType] /\ grp[g] \in GroupType
  BY DEF TypeInv, TypeOK
<1>. DEFINE acked == {w \in Writers : put[w].result = "ok"}
            r == [grp[g] EXCEPT !.pc = "visit", !.kind = kind, !.at = n, !.acked = acked]
<1>2. grp' = [grp EXCEPT ![g] = r]
  BY <1>1 DEF GroupBegin
<1>3. acked \in SUBSET Writers /\ kind \in Kinds
  BY PlanFacts DEF TypeInv, TypeOK
<1>. HIDE DEF acked
<1>4. r \in GroupType
  BY <1>1, <1>3 DEF GroupType
<1>5. /\ r.pc = "visit" /\ r.kind = kind /\ r.at = n /\ r.next = grp[g].next
      /\ r.skipped = grp[g].skipped /\ r.found = grp[g].found
      /\ r.snaps = grp[g].snaps /\ r.total = grp[g].total /\ r.undo = grp[g].undo
      /\ r.result = grp[g].result /\ r.count = grp[g].count /\ r.acked = acked
  BY <1>1 DEF GroupType
<1>. HIDE DEF r
<1>6. grp' \in [Groups -> GroupType] /\ Others(g) /\ grp'[g] = r
  BY <1>2, <1>4, Replaced
<1>. QED
  BY <1>5, <1>6 DEF acked

\* A node that is left out of a search or a count is remembered; nothing is found there.
LEMMA SkipEffect ==
    ASSUME TypeInv, NEW g \in Groups, NEW n \in Nodes, Skip(g, n)
    PROVE  /\ grp' \in [Groups -> GroupType] /\ Others(g) /\ Visited(g)
           /\ grp'[g].skipped = grp[g].skipped \cup {n} /\ grp'[g].found = grp[g].found
           /\ grp'[g].snaps = grp[g].snaps /\ grp'[g].total = grp[g].total
<1>1. grp \in [Groups -> GroupType] /\ grp[g] \in GroupType
  BY DEF TypeInv, TypeOK
<1>. DEFINE next == grp[g].next + 1
            skipped == grp[g].skipped \cup {n}
            r == [grp[g] EXCEPT !.next = next, !.skipped = skipped]
<1>2. grp' = [grp EXCEPT ![g] = r]
  BY <1>1 DEF Skip
<1>3. next \in Nat /\ skipped \in SUBSET Nodes
  BY <1>1 DEF GroupType
<1>. HIDE DEF next, skipped
<1>4. r \in GroupType
  BY <1>1, <1>3 DEF GroupType
<1>5. /\ r.pc = grp[g].pc /\ r.kind = grp[g].kind /\ r.at = grp[g].at
      /\ r.next = next /\ r.skipped = skipped /\ r.found = grp[g].found
      /\ r.snaps = grp[g].snaps /\ r.total = grp[g].total /\ r.undo = grp[g].undo
      /\ r.result = grp[g].result /\ r.count = grp[g].count
      /\ r.acked = grp[g].acked
  BY <1>1 DEF GroupType
<1>. HIDE DEF r
<1>6. grp' \in [Groups -> GroupType] /\ Others(g) /\ grp'[g] = r
  BY <1>2, <1>4, Replaced
<1>. QED
  BY <1>5, <1>6 DEF Visited, Keeps, next, skipped

\* A search merges the records of a node.
LEMMA FoundEffect ==
    ASSUME TypeInv, NEW g \in Groups, NEW found \in Snapshot,
           grp' = [grp EXCEPT ![g].next = @ + 1, ![g].found = found]
    PROVE  /\ grp' \in [Groups -> GroupType] /\ Others(g) /\ Visited(g)
           /\ grp'[g].skipped = grp[g].skipped /\ grp'[g].found = found
           /\ grp'[g].snaps = grp[g].snaps /\ grp'[g].total = grp[g].total
<1>1. grp \in [Groups -> GroupType] /\ grp[g] \in GroupType
  BY DEF TypeInv, TypeOK
<1>. DEFINE next == grp[g].next + 1
            r == [grp[g] EXCEPT !.next = next, !.found = found]
<1>2. grp' = [grp EXCEPT ![g] = r]
  BY <1>1
<1>3. next \in Nat
  BY <1>1 DEF GroupType
<1>. HIDE DEF next
<1>4. r \in GroupType
  BY <1>1, <1>3 DEF GroupType
<1>5. /\ r.pc = grp[g].pc /\ r.kind = grp[g].kind /\ r.at = grp[g].at
      /\ r.next = next /\ r.skipped = grp[g].skipped /\ r.found = found
      /\ r.snaps = grp[g].snaps /\ r.total = grp[g].total /\ r.undo = grp[g].undo
      /\ r.result = grp[g].result /\ r.count = grp[g].count
      /\ r.acked = grp[g].acked
  BY <1>1 DEF GroupType
<1>. HIDE DEF r
<1>6. grp' \in [Groups -> GroupType] /\ Others(g) /\ grp'[g] = r
  BY <1>2, <1>4, Replaced
<1>. QED
  BY <1>5, <1>6 DEF Visited, Keeps, next

\* A delete-group takes a snapshot.
LEMMA SnapEffect ==
    ASSUME TypeInv, NEW g \in Groups, NEW snap \in [node : Nodes, recs : Snapshot],
           grp' = [grp EXCEPT ![g].next = @ + 1, ![g].snaps = Append(@, snap)]
    PROVE  /\ grp' \in [Groups -> GroupType] /\ Others(g) /\ Visited(g)
           /\ grp'[g].skipped = grp[g].skipped /\ grp'[g].found = grp[g].found
           /\ grp'[g].snaps = Append(grp[g].snaps, snap) /\ grp'[g].total = grp[g].total
<1>1. grp \in [Groups -> GroupType] /\ grp[g] \in GroupType
  BY DEF TypeInv, TypeOK
<1>. DEFINE next == grp[g].next + 1
            snaps == Append(grp[g].snaps, snap)
            r == [grp[g] EXCEPT !.next = next, !.snaps = snaps]
<1>2. grp' = [grp EXCEPT ![g] = r]
  BY <1>1
<1>3. next \in Nat /\ snaps \in Seq([node : Nodes, recs : Snapshot])
  BY <1>1 DEF GroupType
<1>. HIDE DEF next, snaps
<1>4. r \in GroupType
  BY <1>1, <1>3 DEF GroupType
<1>5. /\ r.pc = grp[g].pc /\ r.kind = grp[g].kind /\ r.at = grp[g].at
      /\ r.next = next /\ r.skipped = grp[g].skipped /\ r.found = grp[g].found
      /\ r.snaps = snaps /\ r.total = grp[g].total /\ r.undo = grp[g].undo
      /\ r.result = grp[g].result /\ r.count = grp[g].count
      /\ r.acked = grp[g].acked
  BY <1>1 DEF GroupType
<1>. HIDE DEF r
<1>6. grp' \in [Groups -> GroupType] /\ Others(g) /\ grp'[g] = r
  BY <1>2, <1>4, Replaced
<1>. QED
  BY <1>5, <1>6 DEF Visited, Keeps, next, snaps

\* A delete-group leaves a node out.
LEMMA PassEffect ==
    ASSUME TypeInv, NEW g \in Groups, grp' = [grp EXCEPT ![g].next = @ + 1]
    PROVE  /\ grp' \in [Groups -> GroupType] /\ Others(g) /\ Visited(g)
           /\ grp'[g].skipped = grp[g].skipped /\ grp'[g].found = grp[g].found
           /\ grp'[g].snaps = grp[g].snaps /\ grp'[g].total = grp[g].total
<1>1. grp \in [Groups -> GroupType] /\ grp[g] \in GroupType
  BY DEF TypeInv, TypeOK
<1>. DEFINE next == grp[g].next + 1
            r == [grp[g] EXCEPT !.next = next]
<1>2. grp' = [grp EXCEPT ![g] = r]
  BY <1>1
<1>3. next \in Nat
  BY <1>1 DEF GroupType
<1>. HIDE DEF next
<1>4. r \in GroupType
  BY <1>1, <1>3 DEF GroupType
<1>5. /\ r.pc = grp[g].pc /\ r.kind = grp[g].kind /\ r.at = grp[g].at
      /\ r.next = next /\ r.skipped = grp[g].skipped /\ r.found = grp[g].found
      /\ r.snaps = grp[g].snaps /\ r.total = grp[g].total /\ r.undo = grp[g].undo
      /\ r.result = grp[g].result /\ r.count = grp[g].count
      /\ r.acked = grp[g].acked
  BY <1>1 DEF GroupType
<1>. HIDE DEF r
<1>6. grp' \in [Groups -> GroupType] /\ Others(g) /\ grp'[g] = r
  BY <1>2, <1>4, Replaced
<1>. QED
  BY <1>5, <1>6 DEF Visited, Keeps, next

\* A delete-group begins to delete.
LEMMA ToDeleteEffect ==
    ASSUME TypeInv, NEW g \in Groups,
           grp' = [grp EXCEPT ![g].pc = "delete", ![g].next = 1]
    PROVE  /\ grp' \in [Groups -> GroupType] /\ Others(g) /\ Keeps(g)
           /\ grp'[g].pc = "delete" /\ grp'[g].next = 1 /\ grp'[g].result = grp[g].result
           /\ grp'[g].skipped = grp[g].skipped /\ grp'[g].found = grp[g].found
           /\ grp'[g].snaps = grp[g].snaps /\ grp'[g].total = grp[g].total
           /\ grp'[g].undo = grp[g].undo
<1>1. grp \in [Groups -> GroupType] /\ grp[g] \in GroupType
  BY DEF TypeInv, TypeOK
<1>. DEFINE r == [grp[g] EXCEPT !.pc = "delete", !.next = 1]
<1>2. grp' = [grp EXCEPT ![g] = r]
  BY <1>1
<1>4. r \in GroupType
  BY <1>1 DEF GroupType
<1>5. /\ r.pc = "delete" /\ r.kind = grp[g].kind /\ r.at = grp[g].at /\ r.next = 1
      /\ r.skipped = grp[g].skipped /\ r.found = grp[g].found
      /\ r.snaps = grp[g].snaps /\ r.total = grp[g].total /\ r.undo = grp[g].undo
      /\ r.result = grp[g].result /\ r.count = grp[g].count
      /\ r.acked = grp[g].acked
  BY <1>1 DEF GroupType
<1>. HIDE DEF r
<1>6. grp' \in [Groups -> GroupType] /\ Others(g) /\ grp'[g] = r
  BY <1>2, <1>4, Replaced
<1>. QED
  BY <1>5, <1>6 DEF Keeps

\* A delete-group counts what a node deleted.
LEMMA DeletedEffect ==
    ASSUME TypeInv, NEW g \in Groups, NEW c \in Nat,
           grp' = [grp EXCEPT ![g].next = @ + 1, ![g].total = @ + c]
    PROVE  /\ grp' \in [Groups -> GroupType] /\ Others(g) /\ Visited(g)
           /\ grp'[g].skipped = grp[g].skipped /\ grp'[g].found = grp[g].found
           /\ grp'[g].snaps = grp[g].snaps /\ grp'[g].total = grp[g].total + c
<1>1. grp \in [Groups -> GroupType] /\ grp[g] \in GroupType
  BY DEF TypeInv, TypeOK
<1>. DEFINE next == grp[g].next + 1
            total == grp[g].total + c
            r == [grp[g] EXCEPT !.next = next, !.total = total]
<1>2. grp' = [grp EXCEPT ![g] = r]
  BY <1>1
<1>3. next \in Nat /\ total \in Nat
  BY <1>1 DEF GroupType
<1>. HIDE DEF next, total
<1>4. r \in GroupType
  BY <1>1, <1>3 DEF GroupType
<1>5. /\ r.pc = grp[g].pc /\ r.kind = grp[g].kind /\ r.at = grp[g].at
      /\ r.next = next /\ r.skipped = grp[g].skipped /\ r.found = grp[g].found
      /\ r.snaps = grp[g].snaps /\ r.total = total /\ r.undo = grp[g].undo
      /\ r.result = grp[g].result /\ r.count = grp[g].count
      /\ r.acked = grp[g].acked
  BY <1>1 DEF GroupType
<1>. HIDE DEF r
<1>6. grp' \in [Groups -> GroupType] /\ Others(g) /\ grp'[g] = r
  BY <1>2, <1>4, Replaced
<1>. QED
  BY <1>5, <1>6 DEF Visited, Keeps, next, total

\* A rollback owes every record of the snapshots whose deletion was acknowledged.
LEMMA RollbackEffect ==
    ASSUME TypeInv, NEW g \in Groups, NEW applied \in Nat, StartRollback(g, applied)
    PROVE  /\ grp' \in [Groups -> GroupType] /\ Others(g) /\ RolledBack(g, applied)
<1>1. grp \in [Groups -> GroupType] /\ grp[g] \in GroupType
  BY DEF TypeInv, TypeOK
<1>. DEFINE undo == UndoOf(g, applied)
            r == [grp[g] EXCEPT !.pc = "rollback", !.undo = undo]
<1>2. grp' = [grp EXCEPT ![g] = r]
  BY <1>1 DEF StartRollback
<1>3. undo \in SUBSET (Nat \X Keys)
  BY DEF UndoOf
<1>. HIDE DEF undo
<1>4. r \in GroupType
  BY <1>1, <1>3 DEF GroupType
<1>5. /\ r.pc = "rollback" /\ r.kind = grp[g].kind /\ r.at = grp[g].at
      /\ r.next = grp[g].next /\ r.skipped = grp[g].skipped
      /\ r.found = grp[g].found /\ r.snaps = grp[g].snaps /\ r.total = grp[g].total
      /\ r.undo = undo /\ r.result = grp[g].result /\ r.count = grp[g].count
      /\ r.acked = grp[g].acked
  BY <1>1 DEF GroupType
<1>. HIDE DEF r
<1>6. grp' \in [Groups -> GroupType] /\ Others(g) /\ grp'[g] = r
  BY <1>2, <1>4, Replaced
<1>. QED
  BY <1>5, <1>6 DEF RolledBack, Keeps, undo

\* A record is put back.
LEMMA UndoEffect ==
    ASSUME TypeInv, NEW g \in Groups, NEW u, grp' = [grp EXCEPT ![g].undo = @ \ {u}]
    PROVE  /\ grp' \in [Groups -> GroupType] /\ Others(g) /\ Keeps(g)
           /\ grp'[g].pc = grp[g].pc /\ grp'[g].next = grp[g].next
           /\ grp'[g].result = grp[g].result
           /\ grp'[g].skipped = grp[g].skipped /\ grp'[g].found = grp[g].found
           /\ grp'[g].snaps = grp[g].snaps /\ grp'[g].total = grp[g].total
           /\ grp'[g].undo = grp[g].undo \ {u}
<1>1. grp \in [Groups -> GroupType] /\ grp[g] \in GroupType
  BY DEF TypeInv, TypeOK
<1>. DEFINE undo == grp[g].undo \ {u}
            r == [grp[g] EXCEPT !.undo = undo]
<1>2. grp' = [grp EXCEPT ![g] = r]
  BY <1>1
<1>3. undo \in SUBSET (Nat \X Keys)
  BY <1>1 DEF GroupType
<1>. HIDE DEF undo
<1>4. r \in GroupType
  BY <1>1, <1>3 DEF GroupType
<1>5. /\ r.pc = grp[g].pc /\ r.kind = grp[g].kind /\ r.at = grp[g].at
      /\ r.next = grp[g].next /\ r.skipped = grp[g].skipped
      /\ r.found = grp[g].found /\ r.snaps = grp[g].snaps /\ r.total = grp[g].total
      /\ r.undo = undo /\ r.result = grp[g].result /\ r.count = grp[g].count
      /\ r.acked = grp[g].acked
  BY <1>1 DEF GroupType
<1>. HIDE DEF r
<1>6. grp' \in [Groups -> GroupType] /\ Others(g) /\ grp'[g] = r
  BY <1>2, <1>4, Replaced
<1>. QED
  BY <1>5, <1>6 DEF Keeps, undo

\* The records that match are records; they can be counted.
LEMMA MatchedType ==
    ASSUME TypeInv, NEW n \in Nodes
    PROVE  /\ Matched(n) \in Snapshot
           /\ \A k \in Keys : Matched(n)[k] \in Matching \cup {NoRec}
  BY ValuesAssumption DEF TypeInv, TypeOK, Matched, Snapshot, Records

\* The records of one answer can be counted.
LEMMA KeysCount ==
    ASSUME NEW recs
    PROVE  IsFiniteSet(KeysOf(recs)) /\ Cardinality(KeysOf(recs)) \in Nat
<1>1. KeysOf(recs) \subseteq Keys
  BY DEF KeysOf
<1>2. IsFiniteSet(KeysOf(recs))
  BY <1>1, KeysAssumption, FS_Subset
<1>. QED
  BY <1>2, FS_CardinalityType

\* The elements of a delete-group's snapshots.
LEMMA SnapFacts ==
    ASSUME TypeInv, NEW g \in Groups
    PROVE  /\ grp[g].snaps \in Seq([node : Nodes, recs : Snapshot])
           /\ Len(grp[g].snaps) \in Nat /\ grp[g].next \in Nat /\ grp[g].total \in Nat
           /\ \A i \in 1..Len(grp[g].snaps) :
                /\ grp[g].snaps[i] \in [node : Nodes, recs : Snapshot]
                /\ grp[g].snaps[i].node \in Nodes
                /\ \A k \in Keys : grp[g].snaps[i].recs[k] \in Records
<1>1. /\ grp[g].snaps \in Seq([node : Nodes, recs : Snapshot])
      /\ grp[g].next \in Nat /\ grp[g].total \in Nat
  BY DEF TypeInv, TypeOK, GroupType
<1>2. \A i \in 1..Len(grp[g].snaps) : grp[g].snaps[i] \in [node : Nodes, recs : Snapshot]
  BY <1>1, ElementOfSeq
<1>. QED
  BY <1>1, <1>2 DEF Snapshot

\* delete_matching removes the records of a node that match and keeps the others.
Emptied(n) ==
    table' = [table EXCEPT ![n] =
                [k \in Keys |-> IF k \in KeysOf(Matched(n)) THEN NoRec ELSE @[k]]]

\* A deletion takes the matching records of its node and nothing else.
LEMMA EmptiedEffect ==
    ASSUME TypeInv, NEW n \in Nodes, Emptied(n)
    PROVE  /\ table' \in [Nodes -> [Keys -> Records]]
           /\ \A m \in Nodes : m # n => table'[m] = table[m]
           /\ \A k \in Keys :
                table'[n][k] = IF table[n][k] \in Matching THEN NoRec ELSE table[n][k]
<1>1. table \in [Nodes -> [Keys -> Records]]
  BY DEF TypeInv, TypeOK
<1>. DEFINE row == [k \in Keys |-> IF k \in KeysOf(Matched(n)) THEN NoRec ELSE table[n][k]]
<1>2. table' = [table EXCEPT ![n] = row]
  BY <1>1 DEF Emptied
<1>3. \A k \in Keys : row[k] = IF table[n][k] \in Matching THEN NoRec ELSE table[n][k]
  BY ValuesAssumption DEF KeysOf, Matched
<1>4. row \in [Keys -> Records]
  BY <1>1 DEF Records
<1>. HIDE DEF row
<1>. QED
  BY <1>1, <1>2, <1>3, <1>4

\* restore_record_on_node and the writes of a put change one record of one node.
LEMMA RecordEffect ==
    ASSUME TypeInv, NEW n \in Nodes, NEW k \in Keys, NEW rec \in Records,
           table' = [table EXCEPT ![n][k] = rec]
    PROVE  /\ table' \in [Nodes -> [Keys -> Records]]
           /\ \A m \in Nodes : m # n => table'[m] = table[m]
           /\ \A l \in Keys : l # k => table'[n][l] = table[n][l]
           /\ table'[n][k] = rec
  BY DEF TypeInv, TypeOK

\* The bounds on faults hold.
LEMMA FaultsType ==
    ASSUME TypeInv, plan' = plan, NoFault \/ Refuse \/ Lose
    PROVE  refused' \in 0..MaxRefused' /\ lost' \in 0..MaxLost'
<1>1. MaxRefused \in Nat /\ MaxLost \in Nat
      /\ refused \in 0..MaxRefused /\ lost \in 0..MaxLost
  BY PlanFacts DEF TypeInv, TypeOK
<1>2. MaxRefused' = MaxRefused /\ MaxLost' = MaxLost
  BY PlanStays
<1>. QED
  BY <1>1, <1>2 DEF NoFault, Refuse, Lose

\* A step of the group operation g and of nothing else keeps the invariant when it
\* keeps the types and what is known of g.
LEMMA GroupFrame ==
    ASSUME TypeInv, UNCHANGED <<plan, schema, put, restarted>>, NEW g \in Groups,
           NoFault \/ Refuse \/ Lose, table' \in [Nodes -> [Keys -> Records]],
           grp' \in [Groups -> GroupType], Others(g), Sound(g)'
    PROVE  TypeInv'
<1>1. refused' \in 0..MaxRefused' /\ lost' \in 0..MaxLost'
  BY FaultsType
<1>2. /\ Nodes' = Nodes /\ Groups' = Groups /\ Writers' = Writers /\ Menu' = Menu
      /\ GroupType' = GroupType /\ PutType' = PutType
  BY PlanStays
<1>3. TypeOK'
  BY <1>1, <1>2 DEF TypeInv, TypeOK
<1>4. \A h \in Groups' : Sound(h)'
  <2>. SUFFICES ASSUME NEW h \in Groups, h # g PROVE Sound(h)'
    BY <1>2
  <2>1. grp'[h] = grp[h] /\ Sound(h)
    BY DEF Others, TypeInv
  <2>. QED
    BY <2>1, <1>2 DEF Sound
<1>5. \A w \in Writers' : SoundPut(w)'
  BY <1>2 DEF TypeInv, SoundPut
<1>. QED
  BY <1>3, <1>4, <1>5 DEF TypeInv

\* An operation that ends stays sound.
LEMMA EndedSound ==
    ASSUME TypeInv, NEW g \in Groups, plan' = plan, grp[g].pc # "new", NEW result,
           Ended(g, result)
    PROVE  Sound(g)'
<1>1. Menu' = Menu /\ Sound(g)
  BY PlanStays DEF TypeInv
<1>. QED
  BY <1>1 DEF Sound, Ended, Keeps

\* An operation that begins keeps the types.
LEMMA BeginType ==
    ASSUME TypeInv, plan' = plan, NEW g \in Groups, NEW n \in Nodes, NEW kind \in Menu[g],
           GroupBegin(g, n, kind)
    PROVE  TypeInv'
<1>1. /\ grp' \in [Groups -> GroupType] /\ Others(g)
      /\ grp'[g].pc = "visit" /\ grp'[g].kind = kind
      /\ grp'[g].next = grp[g].next /\ grp'[g].snaps = grp[g].snaps
      /\ grp'[g].undo = grp[g].undo /\ grp'[g].result = grp[g].result
  BY BeginEffect
<1>2. Menu' = Menu /\ Sound(g) /\ grp[g].pc = "new"
  BY PlanStays DEF TypeInv, GroupBegin
<1>3. Sound(g)'
  BY <1>1, <1>2 DEF Sound
<1>4. UNCHANGED <<schema, put, restarted>> /\ NoFault /\ table' \in [Nodes -> [Keys -> Records]]
  BY DEF GroupBegin, NoFault, TypeInv, TypeOK
<1>. QED
  BY <1>1, <1>3, <1>4, GroupFrame

\* A search or a count keeps the types.
LEMMA SearchType ==
    ASSUME TypeInv, plan' = plan, NEW g \in Groups, SearchVisit(g) \/ SearchDone(g)
    PROVE  TypeInv'
<1>1. /\ UNCHANGED <<schema, put, restarted>> /\ table' \in [Nodes -> [Keys -> Records]]
      /\ NoFault \/ Refuse \/ Lose
  BY DEF SearchVisit, SearchDone, NoFault, TypeInv, TypeOK
<1>2. /\ Menu' = Menu /\ Sound(g) /\ grp[g].pc = "visit" /\ grp[g] \in GroupType
      /\ grp[g].next \in Nat
  BY PlanStays DEF TypeInv, TypeOK, SearchVisit, SearchDone, GroupType
<1>3. CASE \E result \in {"ok", "err"}, count \in Nat : GroupEnds(g, result, count)
  BY <1>1, <1>2, <1>3, EndsEffect, EndedSound, GroupFrame
<1>4. CASE SearchVisit(g)
  <2>1. Cluster[grp[g].next] \in Nodes
    BY <1>4, <1>2, PlanFacts DEF SearchVisit, Sound, TypeInv, TypeOK
  <2>. DEFINE n == Cluster[grp[g].next]
              found == Merge(grp[g].found, Matched(n))
  <2>2. found \in Snapshot
    BY <2>1, <1>2, MatchedType DEF Merge, Snapshot, GroupType
  <2>3. \/ GroupEnds(g, "err", 0)
        \/ grp' = [grp EXCEPT ![g].next = @ + 1, ![g].found = found]
        \/ Skip(g, n)
    BY <1>4 DEF SearchVisit
  <2>. HIDE DEF n, found
  <2>4. CASE grp' = [grp EXCEPT ![g].next = @ + 1, ![g].found = found]
    <3>1. /\ grp' \in [Groups -> GroupType] /\ Others(g) /\ Visited(g)
          /\ grp'[g].snaps = grp[g].snaps
      BY <2>2, <2>4, FoundEffect
    <3>2. Sound(g)'
      BY <3>1, <1>2 DEF Sound, Visited, Keeps
    <3>. QED
      BY <3>1, <3>2, <1>1, GroupFrame
  <2>5. CASE Skip(g, n)
    <3>1. /\ grp' \in [Groups -> GroupType] /\ Others(g) /\ Visited(g)
          /\ grp'[g].snaps = grp[g].snaps
      BY <2>1, <2>5, SkipEffect DEF n
    <3>2. Sound(g)'
      BY <3>1, <1>2 DEF Sound, Visited, Keeps
    <3>. QED
      BY <3>1, <3>2, <1>1, GroupFrame
  <2>. QED
    BY <2>3, <2>4, <2>5, <1>3
<1>5. CASE SearchDone(g)
  BY <1>5, <1>3, KeysCount DEF SearchDone
<1>. QED
  BY <1>4, <1>5

\* The snapshots of a delete-group keep the types; what comes after them starts
\* from the first snapshot.
LEMMA SnapshotType ==
    ASSUME TypeInv, plan' = plan, NEW g \in Groups, SnapshotVisit(g) \/ SnapshotDone(g)
    PROVE  TypeInv'
<1>1. /\ UNCHANGED <<schema, put, restarted>> /\ table' \in [Nodes -> [Keys -> Records]]
      /\ NoFault \/ Refuse \/ Lose
  BY DEF SnapshotVisit, SnapshotDone, NoFault, TypeInv, TypeOK
<1>2. /\ Menu' = Menu /\ Sound(g) /\ grp[g].pc = "visit" /\ grp[g] \in GroupType
      /\ grp[g].next \in Nat /\ grp[g].kind = "delete_group"
      /\ grp[g].snaps \in Seq([node : Nodes, recs : Snapshot])
  BY PlanStays DEF TypeInv, TypeOK, SnapshotVisit, SnapshotDone, GroupType
<1>3. CASE GroupEnds(g, "err", 0)
  BY <1>1, <1>2, <1>3, EndsEffect, EndedSound, GroupFrame
<1>4. CASE SnapshotVisit(g)
  <2>1. Cluster[grp[g].next] \in Nodes
    BY <1>4, <1>2, PlanFacts DEF SnapshotVisit, Sound, TypeInv, TypeOK
  <2>. DEFINE n == Cluster[grp[g].next]
              snap == [node |-> n, recs |-> Matched(n)]
  <2>2. /\ snap \in [node : Nodes, recs : Snapshot]
        /\ \A k \in Keys : snap.recs[k] \in Matching \cup {NoRec}
    BY <2>1, MatchedType
  <2>3. \/ grp' = [grp EXCEPT ![g].next = @ + 1, ![g].snaps = Append(@, snap)]
        \/ grp' = [grp EXCEPT ![g].next = @ + 1]
        \/ GroupEnds(g, "err", 0)
    BY <1>4 DEF SnapshotVisit
  <2>. HIDE DEF n, snap
  <2>4. CASE grp' = [grp EXCEPT ![g].next = @ + 1, ![g].snaps = Append(@, snap)]
    <3>1. /\ grp' \in [Groups -> GroupType] /\ Others(g) /\ Visited(g)
          /\ grp'[g].snaps = Append(grp[g].snaps, snap)
      BY <2>2, <2>4, SnapEffect
    <3>2. /\ Len(grp'[g].snaps) = Len(grp[g].snaps) + 1 /\ Len(grp[g].snaps) \in Nat
          /\ \A i \in 1..Len(grp[g].snaps) : grp'[g].snaps[i] = grp[g].snaps[i]
          /\ grp'[g].snaps[Len(grp[g].snaps) + 1] = snap
      BY <3>1, <1>2, <2>2
    <3>3. \A i \in 1..Len(grp'[g].snaps), k \in Keys :
             grp'[g].snaps[i].recs[k] \in Matching \cup {NoRec}
      <4>. SUFFICES ASSUME NEW i \in 1..Len(grp'[g].snaps), NEW k \in Keys
                    PROVE  grp'[g].snaps[i].recs[k] \in Matching \cup {NoRec}
        OBVIOUS
      <4>1. i \in 1..Len(grp[g].snaps) \/ i = Len(grp[g].snaps) + 1
        BY <3>2
      <4>. QED
        BY <4>1, <3>2, <2>2, <1>2 DEF Sound
    <3>4. grp'[g].undo \subseteq (1..Len(grp'[g].snaps)) \X Keys
      BY <3>1, <3>2, <1>2 DEF Sound, Visited
    <3>5. Sound(g)'
      BY <3>1, <3>3, <3>4, <1>2 DEF Sound, Visited, Keeps
    <3>. QED
      BY <3>1, <3>5, <1>1, GroupFrame
  <2>5. CASE grp' = [grp EXCEPT ![g].next = @ + 1]
    <3>1. /\ grp' \in [Groups -> GroupType] /\ Others(g) /\ Visited(g)
          /\ grp'[g].snaps = grp[g].snaps
      BY <2>5, PassEffect
    <3>2. Sound(g)'
      BY <3>1, <1>2 DEF Sound, Visited, Keeps
    <3>. QED
      BY <3>1, <3>2, <1>1, GroupFrame
  <2>. QED
    BY <2>3, <2>4, <2>5, <1>3
<1>5. CASE SnapshotDone(g)
  <2>1. CASE grp' = [grp EXCEPT ![g].pc = "delete", ![g].next = 1]
    <3>1. /\ grp' \in [Groups -> GroupType] /\ Others(g) /\ Keeps(g)
          /\ grp'[g].pc = "delete" /\ grp'[g].next = 1 /\ grp'[g].result = grp[g].result
          /\ grp'[g].snaps = grp[g].snaps /\ grp'[g].undo = grp[g].undo
      BY <2>1, ToDeleteEffect
    <3>2. Len(grp[g].snaps) \in Nat
      BY <1>2
    <3>3. Sound(g)'
      BY <3>1, <3>2, <1>2 DEF Sound, Keeps
    <3>. QED
      BY <3>1, <3>3, <1>1, GroupFrame
  <2>. QED
    BY <1>5, <1>3, <2>1 DEF SnapshotDone
<1>. QED
  BY <1>4, <1>5

\* What StartRollback leaves to put back is in the snapshots.
LEMMA RolledBackSound ==
    ASSUME TypeInv, NEW g \in Groups, plan' = plan, grp[g].pc = "delete",
           NEW applied \in 0..Len(grp[g].snaps), RolledBack(g, applied)
    PROVE  Sound(g)'
<1>1. Menu' = Menu /\ Sound(g) /\ grp[g].snaps \in Seq([node : Nodes, recs : Snapshot])
  BY PlanStays DEF TypeInv, TypeOK, GroupType
<1>2. Len(grp[g].snaps) \in Nat
  BY <1>1
<1>3. UndoOf(g, applied) \subseteq (1..Len(grp[g].snaps)) \X Keys
  BY <1>2 DEF UndoOf
<1>. QED
  BY <1>1, <1>3 DEF Sound, RolledBack, Keeps

\* The deletions of a delete-group, and the rollback they may turn into, keep the types.
LEMMA DeleteType ==
    ASSUME TypeInv, plan' = plan, NEW g \in Groups, DeleteVisit(g) \/ DeleteDone(g)
    PROVE  TypeInv'
<1>1. UNCHANGED <<schema, put, restarted>> /\ (NoFault \/ Refuse \/ Lose)
  BY DEF DeleteVisit, DeleteDone, NoFault
<1>2. /\ Menu' = Menu /\ Sound(g) /\ grp[g].pc = "delete" /\ grp[g] \in GroupType
      /\ grp[g].next \in Nat /\ grp[g].total \in Nat
      /\ grp[g].snaps \in Seq([node : Nodes, recs : Snapshot])
  BY PlanStays DEF TypeInv, TypeOK, DeleteVisit, DeleteDone, GroupType
<1>3. ASSUME NEW applied \in 0..Len(grp[g].snaps), StartRollback(g, applied),
             table' \in [Nodes -> [Keys -> Records]]
      PROVE  TypeInv'
  <2>1. applied \in Nat
    BY <1>3
  <2>2. grp' \in [Groups -> GroupType] /\ Others(g) /\ RolledBack(g, applied)
    BY <2>1, <1>3, RollbackEffect
  <2>3. Sound(g)'
    BY <2>2, <1>2, <1>3, RolledBackSound
  <2>. QED
    BY <2>2, <2>3, <1>1, <1>3, GroupFrame
<1>4. CASE DeleteVisit(g)
  <2>. DEFINE i == grp[g].next
              n == grp[g].snaps[i].node
              c == Cardinality(KeysOf(Matched(n)))
  <2>1. i \in 1..Len(grp[g].snaps) /\ Len(grp[g].snaps) \in Nat
    <3>1. grp[g].next <= Len(grp[g].snaps) /\ grp[g].next >= 1
      BY <1>2, <1>4 DEF DeleteVisit, Sound
    <3>. QED
      BY <3>1, SnapFacts
  <2>2. n \in Nodes /\ c \in Nat /\ i - 1 \in 0..Len(grp[g].snaps)
    <3>1. n \in Nodes
      BY <2>1, SnapFacts
    <3>. QED
      BY <3>1, <2>1, KeysCount
  <2>3. table' \in [Nodes -> [Keys -> Records]]
    <3>1. Emptied(n) \/ table' = table
      BY <1>4 DEF DeleteVisit, Emptied
    <3>. QED
      BY <3>1, <2>2, EmptiedEffect DEF TypeInv, TypeOK
  <2>4. \/ grp' = [grp EXCEPT ![g].next = @ + 1, ![g].total = @ + c]
        \/ StartRollback(g, i - 1)
    BY <1>4 DEF DeleteVisit
  <2>. HIDE DEF c
  <2>5. CASE grp' = [grp EXCEPT ![g].next = @ + 1, ![g].total = @ + c]
    <3>1. /\ grp' \in [Groups -> GroupType] /\ Others(g) /\ Visited(g)
          /\ grp'[g].snaps = grp[g].snaps
      BY <2>2, <2>5, DeletedEffect
    <3>2. Sound(g)'
      BY <3>1, <2>1, <1>2 DEF Sound, Visited, Keeps
    <3>. QED
      BY <3>1, <3>2, <2>3, <1>1, GroupFrame
  <2>. QED
    BY <2>2, <2>3, <2>4, <2>5, <1>3
<1>5. CASE DeleteDone(g)
  <2>1. table' \in [Nodes -> [Keys -> Records]]
    BY <1>5 DEF DeleteDone, TypeInv, TypeOK
  <2>2. CASE StartRollback(g, Len(grp[g].snaps))
    <3>1. Len(grp[g].snaps) \in 0..Len(grp[g].snaps)
      BY <1>2
    <3>. QED
      BY <3>1, <2>1, <2>2, <1>3
  <2>3. CASE GroupEnds(g, "ok", LogicalCount(grp[g].total))
    <3>1. LogicalCount(grp[g].total) \in Nat
      BY <1>2, CountAssumption DEF LogicalCount
    <3>2. grp' \in [Groups -> GroupType] /\ Others(g) /\ Ended(g, "ok")
      BY <3>1, <2>3, EndsEffect
    <3>3. Sound(g)'
      BY <3>2, <1>2, EndedSound
    <3>. QED
      BY <3>2, <3>3, <2>1, <1>1, GroupFrame
  <2>. QED
    BY <1>5, <2>2, <2>3 DEF DeleteDone
<1>. QED
  BY <1>4, <1>5

\* Putting a record back keeps the types.
LEMMA RestoreType ==
    ASSUME TypeInv, plan' = plan, NEW g \in Groups, RestoreRecord(g) \/ RollbackDone(g)
    PROVE  TypeInv'
<1>1. UNCHANGED <<schema, put, restarted>> /\ (NoFault \/ Refuse \/ Lose)
  BY DEF RestoreRecord, RollbackDone, NoFault
<1>2. /\ Menu' = Menu /\ Sound(g) /\ grp[g].pc = "rollback"
      /\ grp[g].snaps \in Seq([node : Nodes, recs : Snapshot])
  BY PlanStays DEF TypeInv, TypeOK, RestoreRecord, RollbackDone, GroupType
<1>3. ASSUME NEW result \in {"err", "rollback_failed"}, GroupEnds(g, result, 0),
             table' \in [Nodes -> [Keys -> Records]]
      PROVE  TypeInv'
  <2>1. grp' \in [Groups -> GroupType] /\ Others(g) /\ Ended(g, result)
    BY <1>3, EndsEffect
  <2>2. Sound(g)'
    BY <2>1, <1>2, EndedSound
  <2>. QED
    BY <2>1, <2>2, <1>1, <1>3, GroupFrame
<1>4. CASE RestoreRecord(g)
  <2>1. PICK u \in NextUndo(grp[g].undo) :
           LET s == grp[g].snaps[u[1]]
               Applied == table' = [table EXCEPT ![s.node][u[2]] = s.recs[u[2]]]
           IN  /\ Applied \/ UNCHANGED table
               /\ \/ grp' = [grp EXCEPT ![g].undo = @ \ {u}]
                  \/ GroupEnds(g, "rollback_failed", 0)
    BY <1>4 DEF RestoreRecord
  <2>2. u[1] \in 1..Len(grp[g].snaps) /\ u[2] \in Keys
    BY <1>2 DEF NextUndo, Sound
  <2>3. grp[g].snaps[u[1]].node \in Nodes /\ grp[g].snaps[u[1]].recs[u[2]] \in Records
    BY <2>2, SnapFacts
  <2>4. table' \in [Nodes -> [Keys -> Records]]
    <3>1. CASE UNCHANGED table
      BY <3>1 DEF TypeInv, TypeOK
    <3>. QED
      BY <3>1, <2>1, <2>2, <2>3, RecordEffect
  <2>5. CASE grp' = [grp EXCEPT ![g].undo = @ \ {u}]
    <3>1. /\ grp' \in [Groups -> GroupType] /\ Others(g) /\ Keeps(g)
          /\ grp'[g].pc = grp[g].pc /\ grp'[g].next = grp[g].next
          /\ grp'[g].result = grp[g].result
          /\ grp'[g].snaps = grp[g].snaps /\ grp'[g].undo = grp[g].undo \ {u}
      BY <2>5, UndoEffect
    <3>2. Sound(g)'
      BY <3>1, <1>2 DEF Sound, Keeps
    <3>. QED
      BY <3>1, <3>2, <2>4, <1>1, GroupFrame
  <2>. QED
    BY <2>1, <2>4, <2>5, <1>3
<1>5. CASE RollbackDone(g)
  BY <1>5, <1>3 DEF RollbackDone, TypeInv, TypeOK
<1>. QED
  BY <1>4, <1>5

\* Likewise for a step of the put w.
LEMMA PutFrame ==
    ASSUME TypeInv, UNCHANGED <<plan, schema, grp, restarted>>, NEW w \in Writers,
           NoFault \/ Refuse \/ Lose, table' \in [Nodes -> [Keys -> Records]],
           NEW r \in PutType, put' = [put EXCEPT ![w] = r], SoundPut(w)'
    PROVE  TypeInv'
<1>1. refused' \in 0..MaxRefused' /\ lost' \in 0..MaxLost'
  BY FaultsType
<1>2. /\ Nodes' = Nodes /\ Groups' = Groups /\ Writers' = Writers /\ Menu' = Menu
      /\ GroupType' = GroupType /\ PutType' = PutType
  BY PlanStays
<1>3. put' \in [Writers -> PutType] /\ \A v \in Writers : v # w => put'[v] = put[v]
  BY DEF TypeInv, TypeOK
<1>4. TypeOK'
  BY <1>1, <1>2, <1>3 DEF TypeInv, TypeOK
<1>5. \A h \in Groups' : Sound(h)'
  BY <1>2 DEF TypeInv, Sound
<1>6. \A v \in Writers' : SoundPut(v)'
  BY <1>2, <1>3 DEF TypeInv, SoundPut
<1>. QED
  BY <1>4, <1>5, <1>6 DEF TypeInv

\* A put, acknowledged or not, keeps the types.
LEMMA PutTypes ==
    ASSUME TypeInv, plan' = plan, NEW w \in Writers, PutStep(w)
    PROVE  TypeInv'
<1>. DEFINE p == put[w]
            n == PrimaryOf(w)
            k == KeyOf(w)
<1>1. p \in PutType /\ SoundPut(w) /\ put \in [Writers -> PutType]
  BY DEF TypeInv, TypeOK
<1>2. UNCHANGED <<schema, grp, restarted>> /\ (NoFault \/ Refuse \/ Lose)
  BY DEF PutStep, PutRead, PutWrite, PutReplicate, PutDone, PutRollback, PutRestore, NoFault
<1>3. n \in Nodes /\ k \in Keys /\ PutOf[w].value \in Records /\ NoRec \in Records
  BY KeyFacts DEF TypeInv, TypeOK, Records
<1>4. p.next \in Nat /\ p.next >= 1 /\ p.previous \in Records
      /\ (p.pc = "replicate" => p.next >= 2) /\ (p.result = "ok" => p.pc = "done")
  BY <1>1 DEF PutType, SoundPut
<1>5. table[n][k] \in Records
  BY <1>3 DEF TypeInv, TypeOK
<1>6. table' \in [Nodes -> [Keys -> Records]]
  <2>1. CASE table' = table
    BY <2>1 DEF TypeInv, TypeOK
  <2>2. CASE \E rec \in Records : table' = [table EXCEPT ![n][k] = rec]
    BY <2>2, <1>3, RecordEffect
  <2>3. CASE PutReplicate(w)
    <3>1. p.next <= Len(Home[k])
      BY <2>3 DEF PutReplicate
    <3>2. p.next \in 1..Len(Home[k])
      BY <3>1, <1>3, <1>4, PlanFacts DEF TypeInv, TypeOK
    <3>3. Home[k][p.next] \in Nodes
      BY <3>2, <1>3, <1>4, KeyFacts DEF TypeInv, TypeOK
    <3>4. \/ table' = [table EXCEPT ![Home[k][p.next]][k] = PutOf[w].value]
          \/ table' = table
      BY <2>3 DEF PutReplicate
    <3>. QED
      BY <3>3, <3>4, <2>1, <1>3, RecordEffect
  <2>. QED
    BY <2>1, <2>2, <2>3, <1>3, <1>4
       DEF PutStep, PutRead, PutWrite, PutDone, PutRollback, PutRestore
<1>7. PICK r \in PutType :
         /\ put' = [put EXCEPT ![w] = r]
         /\ r.next >= 1 /\ (r.pc = "replicate" => r.next >= 2)
         /\ r.result = "ok" => r.pc = "done"
  <2>. HIDE DEF n, k
  <2>1. CASE PutRead(w)
    <3>. DEFINE r == [p EXCEPT !.pc = "write", !.previous = table[n][k]]
    <3>1. put' = [put EXCEPT ![w] = r]
      BY <2>1, <1>1 DEF PutRead, n, k
    <3>2. r \in PutType /\ r.next = p.next /\ r.pc = "write" /\ r.result = p.result
      BY <1>1, <1>5 DEF PutType
    <3>3. p.result # "ok"
      BY <2>1, <1>4 DEF PutRead
    <3>. HIDE DEF r
    <3>. QED
      BY <3>1, <3>2, <3>3, <1>4
  <2>2. CASE PutWrite(w)
    <3>. DEFINE r == [p EXCEPT !.pc = "replicate", !.next = 2]
    <3>1. put' = [put EXCEPT ![w] = r]
      BY <2>2, <1>1 DEF PutWrite
    <3>2. r \in PutType /\ r.next = 2 /\ r.result = p.result
      BY <1>1 DEF PutType
    <3>3. p.result # "ok"
      BY <2>2, <1>4 DEF PutWrite
    <3>4. r \in PutType /\ r.result # "ok" /\ r.next >= 1 /\ r.next >= 2
      BY <3>2, <3>3
    <3>. HIDE DEF r
    <3>. QED
      BY <3>1, <3>4
  <2>3. CASE put' = [put EXCEPT ![w].next = @ + 1] /\ p.pc = "replicate"
    <3>. DEFINE next == p.next + 1
                r == [p EXCEPT !.next = next]
    <3>1. put' = [put EXCEPT ![w] = r]
      BY <2>3, <1>1
    <3>2. next \in Nat /\ next >= 2
      BY <1>4
    <3>. HIDE DEF next
    <3>3. r \in PutType /\ r.next = next /\ r.result = p.result /\ r.pc = p.pc
      BY <3>2, <1>1 DEF PutType
    <3>4. p.result # "ok"
      BY <2>3, <1>4
    <3>5. r \in PutType /\ r.result # "ok" /\ r.next >= 1 /\ r.next >= 2
      BY <3>2, <3>3, <3>4
    <3>. HIDE DEF r
    <3>. QED
      BY <3>1, <3>5
  <2>4. CASE \E pc \in {"rollback", "restore"} :
                put' = [put EXCEPT ![w].pc = pc] /\ p.pc \in {"replicate", "rollback"}
    <3>1. PICK pc \in {"rollback", "restore"} :
             put' = [put EXCEPT ![w].pc = pc] /\ p.pc \in {"replicate", "rollback"}
      BY <2>4
    <3>. DEFINE r == [p EXCEPT !.pc = pc]
    <3>2. put' = [put EXCEPT ![w] = r]
      BY <3>1, <1>1
    <3>3. r \in PutType /\ r.next = p.next /\ r.result = p.result /\ r.pc = pc
      BY <1>1 DEF PutType
    <3>4. p.result # "ok"
      BY <3>1, <1>4
    <3>5. r.result # "ok" /\ r.next >= 1 /\ r.pc # "replicate"
      BY <3>3, <3>4, <1>4
    <3>. HIDE DEF r
    <3>. QED
      BY <3>2, <3>3, <3>5
  <2>5. CASE PutEnds(w, "ok") \/ PutEnds(w, "err")
    <3>1. PICK result \in {"ok", "err"} : PutEnds(w, result)
      BY <2>5
    <3>. DEFINE r == [p EXCEPT !.pc = "done", !.result = result]
    <3>2. put' = [put EXCEPT ![w] = r]
      BY <3>1, <1>1 DEF PutEnds
    <3>3. r \in PutType /\ r.next = p.next /\ r.pc = "done"
      BY <1>1 DEF PutType
    <3>. HIDE DEF r
    <3>. QED
      BY <3>2, <3>3, <1>4
  <2>. HIDE DEF p
  <2>6. CASE PutReplicate(w)
    BY <2>6, <2>3, <2>4 DEF PutReplicate, p
  <2>7. CASE PutRollback(w)
    BY <2>7, <2>4, <2>5 DEF PutRollback, p
  <2>8. CASE PutDone(w) \/ PutRestore(w)
    BY <2>8, <2>5 DEF PutDone, PutRestore
  <2>. QED
    BY <2>1, <2>2, <2>6, <2>7, <2>8 DEF PutStep
<1>8. SoundPut(w)'
  BY <1>7, <1>1 DEF SoundPut
<1>. QED
  BY <1>2, <1>6, <1>7, <1>8, PutFrame

\* A restart, which empties the node's table and schema and ends what ran there,
\* keeps the types.
LEMMA RestartType ==
    ASSUME TypeInv, plan' = plan, NEW n \in Nodes, Restart(n) \/ AdoptSpace(n)
    PROVE  TypeInv'
<1>1. /\ Nodes' = Nodes /\ Groups' = Groups /\ Writers' = Writers /\ Menu' = Menu
      /\ GroupType' = GroupType /\ PutType' = PutType
  BY PlanStays
<1>2. refused' \in 0..MaxRefused' /\ lost' \in 0..MaxLost'
  BY FaultsType DEF Restart, AdoptSpace, NoFault
<1>3. schema' \in [Nodes -> BOOLEAN] /\ restarted' \subseteq Nodes
  BY DEF TypeInv, TypeOK, Restart, AdoptSpace
<1>4. table' \in [Nodes -> [Keys -> Records]]
  <2>1. Nothing \in [Keys -> Records]
    BY DEF Nothing, Records
  <2>2. table' = [table EXCEPT ![n] = Nothing] \/ table' = table
    BY DEF Restart, AdoptSpace
  <2>. QED
    BY <2>1, <2>2 DEF TypeInv, TypeOK
<1>5. ASSUME NEW g \in Groups PROVE Sound(g)' /\ grp'[g] \in GroupType
  <2>1. grp[g] \in GroupType /\ Sound(g)
    BY DEF TypeInv, TypeOK
  <2>2. CASE grp'[g] = grp[g]
    BY <2>1, <2>2, <1>1 DEF Sound
  <2>3. CASE Running(grp[g].pc) /\ grp'[g] = [grp[g] EXCEPT !.pc = "done", !.result = "crashed"]
    <3>1. grp'[g] \in GroupType
      BY <2>1, <2>3 DEF GroupType
    <3>2. /\ grp'[g].pc = "done" /\ grp'[g].next = grp[g].next /\ grp'[g].kind = grp[g].kind
          /\ grp'[g].snaps = grp[g].snaps /\ grp'[g].undo = grp[g].undo
      BY <2>1, <2>3 DEF GroupType
    <3>. QED
      BY <3>1, <3>2, <2>1, <2>3, <1>1 DEF Sound, Running
  <2>. QED
    BY <2>2, <2>3 DEF Restart, AdoptSpace
<1>6. ASSUME NEW w \in Writers PROVE SoundPut(w)' /\ put'[w] \in PutType
  <2>1. put[w] \in PutType /\ SoundPut(w)
    BY DEF TypeInv, TypeOK
  <2>2. CASE put'[w] = put[w]
    BY <2>1, <2>2 DEF SoundPut
  <2>3. CASE put'[w] = [put[w] EXCEPT !.pc = "done", !.result = "crashed"]
    <3>1. put'[w] \in PutType
      BY <2>1, <2>3 DEF PutType
    <3>2. put'[w].pc = "done" /\ put'[w].next = put[w].next
      BY <2>1, <2>3 DEF PutType
    <3>. QED
      BY <3>1, <3>2, <2>1 DEF SoundPut
  <2>. QED
    BY <2>2, <2>3 DEF Restart, AdoptSpace
<1>7. grp' \in [Groups -> GroupType] /\ put' \in [Writers -> PutType]
  <2>1. \/ grp' = grp /\ put' = put
        \/ grp' = [g \in Groups |-> grp'[g]] /\ put' = [w \in Writers |-> put'[w]]
    BY DEF Restart, AdoptSpace
  <2>. QED
    BY <2>1, <1>5, <1>6 DEF TypeInv, TypeOK
<1>8. TypeOK'
  BY <1>1, <1>2, <1>3, <1>4, <1>7 DEF TypeInv, TypeOK
<1>. QED
  BY <1>1, <1>5, <1>6, <1>8 DEF TypeInv

\* Every step keeps the types.
LEMMA TypeStep == TypeInv /\ [Next]_vars => TypeInv'
<1>. SUFFICES ASSUME TypeInv, [Next]_vars PROVE TypeInv'
  OBVIOUS
<1>1. CASE UNCHANGED vars
  <2>1. /\ Nodes' = Nodes /\ Groups' = Groups /\ Writers' = Writers /\ Menu' = Menu
        /\ GroupType' = GroupType /\ PutType' = PutType
        /\ MaxRefused' = MaxRefused /\ MaxLost' = MaxLost
    BY <1>1, PlanStays DEF vars
  <2>2. TypeOK'
    BY <1>1, <2>1 DEF TypeInv, TypeOK, vars
  <2>3. \A g \in Groups : Sound(g)'
    BY <1>1, <2>1 DEF TypeInv, Sound, vars
  <2>4. \A w \in Writers : SoundPut(w)'
    BY <1>1 DEF TypeInv, SoundPut, vars
  <2>. QED
    BY <2>1, <2>2, <2>3, <2>4 DEF TypeInv
<1>2. CASE Next
  <2>1. plan' = plan
    BY <1>2 DEF Next
  <2>2. ASSUME NEW g \in Groups, GroupStep(g) PROVE TypeInv'
    BY <2>1, <2>2, SearchType, SnapshotType, DeleteType, RestoreType DEF GroupStep
  <2>. QED
    BY <1>2, <2>1, <2>2, BeginType, PutTypes, RestartType DEF Next
<1>. QED
  BY <1>1, <1>2

\* The types, and what the phases of an operation say of its fields, always hold.
LEMMA TypeAlways == Spec => []TypeInv
<1>. QED
  BY InitType, TypeStep, PTL DEF Spec

\* Every variable keeps its type: positions stay within the node list and the
\* snapshots, and a rollback puts back only records of the snapshots it took.
THEOREM TypeCorrect == Spec => []TypeOK
<1>1. TypeInv => TypeOK
  BY DEF TypeInv
<1>. QED
  BY <1>1, TypeAlways, PTL
-------------------------------------------------------------------------------
(* What the steps of a delete-group do                                        *)

\* The node g visits next, and the one it deletes from next.
Here(g) == Cluster[grp[g].next]
There(g) == grp[g].snaps[grp[g].next].node

Quiet == UNCHANGED <<table, schema, restarted, lost>>

\* No record of the node passes the predicate.
Clean(n) == \A k \in Keys : table[n][k] \notin Matching

\* A node with nothing to delete answers a snapshot with nothing.
LEMMA CleanIsNothing ==
    ASSUME TypeInv, NEW n \in Nodes
    PROVE  /\ Clean(n) <=> Matched(n) = Nothing
           /\ Clean(n) => \A k \in Keys : Matched(n)[k] = NoRec
<1>1. Clean(n) => Matched(n) = Nothing
  BY DEF Clean, Matched, Nothing
<1>2. ASSUME Matched(n) = Nothing, NEW k \in Keys PROVE table[n][k] \notin Matching
  <2>1. Matched(n)[k] = NoRec
    BY <1>2 DEF Nothing
  <2>. QED
    BY <2>1, ValuesAssumption DEF Matched
<1>. QED
  BY <1>1, <1>2 DEF Clean, Matched

\* A visit adds a snapshot of a node that knows the space, leaves out one that does
\* not, or ends the operation.
LEMMA SnapshotVisitEffect ==
    ASSUME TypeInv, NEW g \in Groups, SnapshotVisit(g)
    PROVE  /\ Others(g) /\ Quiet
           /\ grp[g].pc = "visit" /\ grp[g].kind = "delete_group"
           /\ grp[g].next \in 1..Len(Cluster) /\ Here(g) \in Nodes
           /\ \/ /\ schema[Here(g)] /\ Visited(g) /\ grp'[g].total = grp[g].total
                 /\ grp'[g].snaps = Append(grp[g].snaps, [node |-> Here(g), recs |-> Matched(Here(g))])
                 /\ Len(grp'[g].snaps) = Len(grp[g].snaps) + 1
                 /\ \A i \in 1..Len(grp[g].snaps) : grp'[g].snaps[i] = grp[g].snaps[i]
                 /\ grp'[g].snaps[Len(grp[g].snaps) + 1].node = Here(g)
                 /\ grp'[g].snaps[Len(grp[g].snaps) + 1].recs = Matched(Here(g))
              \/ /\ ~schema[Here(g)] /\ Visited(g) /\ grp'[g].total = grp[g].total
                 /\ grp'[g].snaps = grp[g].snaps
              \/ Ended(g, "err")
<1>1. /\ grp[g].pc = "visit" /\ grp[g].kind = "delete_group" /\ grp[g].next <= Len(Cluster)
      /\ Quiet
  BY DEF SnapshotVisit, Quiet, NoFault, Refuse
<1>2. grp[g].next \in 1..Len(Cluster)
  BY <1>1, SnapFacts, PlanFacts DEF TypeInv, TypeOK, Sound
<1>3. Here(g) \in Nodes
  BY <1>2, PlanFacts DEF TypeInv, TypeOK, Here
<1>. DEFINE snap == [node |-> Here(g), recs |-> Matched(Here(g))]
<1>4. snap \in [node : Nodes, recs : Snapshot]
  BY <1>3, MatchedType
<1>5. \/ schema[Here(g)] /\ grp' = [grp EXCEPT ![g].next = @ + 1, ![g].snaps = Append(@, snap)]
      \/ ~schema[Here(g)] /\ grp' = [grp EXCEPT ![g].next = @ + 1]
      \/ GroupEnds(g, "err", 0)
  BY DEF SnapshotVisit, Here
<1>6. CASE schema[Here(g)] /\ grp' = [grp EXCEPT ![g].next = @ + 1, ![g].snaps = Append(@, snap)]
  <2>. HIDE DEF snap
  <2>1. /\ Others(g) /\ Visited(g) /\ grp'[g].total = grp[g].total
        /\ grp'[g].snaps = Append(grp[g].snaps, snap)
    BY <1>4, <1>6, SnapEffect
  <2>2. /\ Len(grp'[g].snaps) = Len(grp[g].snaps) + 1
        /\ \A i \in 1..Len(grp[g].snaps) : grp'[g].snaps[i] = grp[g].snaps[i]
        /\ grp'[g].snaps[Len(grp[g].snaps) + 1] = snap
    BY <2>1, <1>4, SnapFacts, AppendProperties
  <2>3. snap.node = Here(g) /\ snap.recs = Matched(Here(g))
    BY DEF snap
  <2>. QED
    BY <2>1, <2>2, <2>3, <1>1, <1>2, <1>3, <1>6 DEF snap
<1>7. CASE ~schema[Here(g)] /\ grp' = [grp EXCEPT ![g].next = @ + 1]
  BY <1>1, <1>2, <1>3, <1>7, PassEffect
<1>8. CASE GroupEnds(g, "err", 0)
  BY <1>1, <1>2, <1>3, <1>8, EndsEffect
<1>. QED
  BY <1>5, <1>6, <1>7, <1>8

\* After the last node the deletion begins, over snapshots that agree, or the
\* operation ends.
LEMMA SnapshotDoneEffect ==
    ASSUME TypeInv, NEW g \in Groups, SnapshotDone(g)
    PROVE  /\ Others(g) /\ Quiet
           /\ grp[g].pc = "visit" /\ grp[g].kind = "delete_group"
           /\ grp[g].next > Len(Cluster)
           /\ \/ /\ Keeps(g) /\ grp'[g].pc = "delete" /\ grp'[g].next = 1
                 /\ grp'[g].snaps = grp[g].snaps /\ grp'[g].total = grp[g].total
                 /\ grp'[g].undo = grp[g].undo
                 /\ grp[g].snaps # <<>> /\ SnapshotsAgree(grp[g].snaps)
              \/ Ended(g, "err")
<1>1. /\ grp[g].pc = "visit" /\ grp[g].kind = "delete_group" /\ grp[g].next > Len(Cluster)
      /\ Quiet
  BY DEF SnapshotDone, Quiet
<1>2. \/ /\ grp' = [grp EXCEPT ![g].pc = "delete", ![g].next = 1]
         /\ grp[g].snaps # <<>> /\ SnapshotsAgree(grp[g].snaps)
      \/ GroupEnds(g, "err", 0)
  BY DEF SnapshotDone
<1>. QED
  BY <1>1, <1>2, ToDeleteEffect, EndsEffect

\* A deletion empties its node; a node without the space, a refused call or a lost
\* answer turns it into the rollback.
LEMMA DeleteVisitEffect ==
    ASSUME TypeInv, NEW g \in Groups, DeleteVisit(g)
    PROVE  /\ Others(g) /\ schema' = schema /\ restarted' = restarted
           /\ grp[g].pc = "delete" /\ grp[g].kind = "delete_group"
           /\ grp[g].next \in 1..Len(grp[g].snaps) /\ There(g) \in Nodes
           /\ \/ /\ schema[There(g)] /\ Emptied(There(g)) /\ lost' = lost
                 /\ Visited(g) /\ grp'[g].snaps = grp[g].snaps
                 /\ grp'[g].total = grp[g].total + Cardinality(KeysOf(Matched(There(g))))
              \/ Quiet /\ RolledBack(g, grp[g].next - 1)
              \/ /\ schema[There(g)] /\ Emptied(There(g)) /\ lost' = lost + 1
                 /\ RolledBack(g, grp[g].next - 1)
<1>. DEFINE c == Cardinality(KeysOf(Matched(There(g))))
            i == grp[g].next
<1>1. grp[g].pc = "delete" /\ i <= Len(grp[g].snaps) /\ UNCHANGED <<schema, restarted>>
  BY DEF DeleteVisit
<1>2. grp[g].kind = "delete_group" /\ i \in 1..Len(grp[g].snaps) /\ i - 1 \in Nat
  BY <1>1, SnapFacts DEF TypeInv, Sound
<1>3. There(g) \in Nodes /\ c \in Nat
  BY <1>2, SnapFacts, KeysCount DEF There
<1>4. \/ /\ schema[There(g)] /\ Emptied(There(g)) /\ lost' = lost
         /\ grp' = [grp EXCEPT ![g].next = @ + 1, ![g].total = @ + c]
      \/ table' = table /\ lost' = lost /\ StartRollback(g, i - 1)
      \/ /\ schema[There(g)] /\ Emptied(There(g)) /\ lost' = lost + 1
         /\ StartRollback(g, i - 1)
  BY DEF DeleteVisit, There, Emptied, NoFault, Refuse, Lose
<1>. HIDE DEF c
<1>5. ASSUME StartRollback(g, i - 1) PROVE Others(g) /\ RolledBack(g, i - 1)
  BY <1>2, <1>5, RollbackEffect
<1>6. ASSUME grp' = [grp EXCEPT ![g].next = @ + 1, ![g].total = @ + c]
      PROVE  /\ Others(g) /\ Visited(g) /\ grp'[g].snaps = grp[g].snaps
             /\ grp'[g].total = grp[g].total + c
  BY <1>3, <1>6, DeletedEffect
<1>. HIDE DEF i
<1>. QED
  BY <1>1, <1>2, <1>3, <1>4, <1>5, <1>6 DEF Quiet, c, i

\* After the last deletion the total is divided by the replicas, or everything is
\* rolled back when it is no multiple of them.
LEMMA DeleteDoneEffect ==
    ASSUME TypeInv, NEW g \in Groups, DeleteDone(g)
    PROVE  /\ Others(g) /\ Quiet
           /\ grp[g].pc = "delete" /\ grp[g].kind = "delete_group"
           /\ grp[g].next = Len(grp[g].snaps) + 1
           /\ \/ RolledBack(g, Len(grp[g].snaps))
              \/ /\ Ended(g, "ok") /\ grp[g].total % ReplicaFactor = 0
                 /\ grp'[g].count = LogicalCount(grp[g].total)
<1>1. grp[g].pc = "delete" /\ grp[g].next > Len(grp[g].snaps) /\ Quiet
  BY DEF DeleteDone, Quiet
<1>2. grp[g].kind = "delete_group" /\ grp[g].next = Len(grp[g].snaps) + 1
  BY <1>1, SnapFacts DEF TypeInv, Sound
<1>3. LogicalCount(grp[g].total) \in Nat
  <2>1. grp[g].total \in Nat
    BY SnapFacts
  <2>. QED
    BY <2>1, CountAssumption DEF LogicalCount
<1>4. \/ StartRollback(g, Len(grp[g].snaps))
      \/ GroupEnds(g, "ok", LogicalCount(grp[g].total)) /\ grp[g].total % ReplicaFactor = 0
  BY DEF DeleteDone
<1>. QED
  BY <1>1, <1>2, <1>3, <1>4, SnapFacts, RollbackEffect, EndsEffect

\* The record u of a snapshot is back on its node.
PutBack(g, u) ==
    table' = [table EXCEPT ![grp[g].snaps[u[1]].node][u[2]] = grp[g].snaps[u[1]].recs[u[2]]]

\* A rollback puts back one of the records it still has to, or fails at it.
LEMMA RestoreRecordEffect ==
    ASSUME TypeInv, NEW g \in Groups, RestoreRecord(g)
    PROVE  /\ Others(g) /\ schema' = schema /\ restarted' = restarted
           /\ grp[g].pc = "rollback" /\ grp[g].kind = "delete_group"
           /\ \E u \in grp[g].undo :
                /\ u[1] \in 1..Len(grp[g].snaps) /\ u[2] \in Keys /\ u = <<u[1], u[2]>>
                /\ \/ /\ schema[grp[g].snaps[u[1]].node] /\ PutBack(g, u) /\ lost' = lost
                      /\ Keeps(g) /\ grp'[g].pc = "rollback" /\ grp'[g].next = grp[g].next
                      /\ grp'[g].snaps = grp[g].snaps /\ grp'[g].total = grp[g].total
                      /\ grp'[g].undo = grp[g].undo \ {u}
                   \/ Quiet /\ Ended(g, "rollback_failed")
                   \/ /\ schema[grp[g].snaps[u[1]].node] /\ PutBack(g, u)
                      /\ lost' = lost + 1 /\ Ended(g, "rollback_failed")
<1>1. grp[g].pc = "rollback" /\ UNCHANGED <<schema, restarted>>
  BY DEF RestoreRecord
<1>2. grp[g].kind = "delete_group"
  BY <1>1 DEF TypeInv, Sound
<1>3. PICK u \in NextUndo(grp[g].undo) :
         \/ /\ schema[grp[g].snaps[u[1]].node] /\ PutBack(g, u) /\ lost' = lost
            /\ grp' = [grp EXCEPT ![g].undo = @ \ {u}]
         \/ table' = table /\ lost' = lost /\ GroupEnds(g, "rollback_failed", 0)
         \/ /\ schema[grp[g].snaps[u[1]].node] /\ PutBack(g, u)
            /\ lost' = lost + 1 /\ GroupEnds(g, "rollback_failed", 0)
  BY DEF RestoreRecord, PutBack, NoFault, Refuse, Lose
<1>4. u \in grp[g].undo /\ grp[g].undo \subseteq (1..Len(grp[g].snaps)) \X Keys
  BY DEF NextUndo, TypeInv, Sound
<1>5. u[1] \in 1..Len(grp[g].snaps) /\ u[2] \in Keys /\ u = <<u[1], u[2]>>
  BY <1>4
<1>6. ASSUME GroupEnds(g, "rollback_failed", 0)
      PROVE  Others(g) /\ Ended(g, "rollback_failed")
  BY <1>6, EndsEffect
<1>7. ASSUME grp' = [grp EXCEPT ![g].undo = @ \ {u}]
      PROVE  /\ Others(g) /\ Keeps(g) /\ grp'[g].pc = "rollback"
             /\ grp'[g].next = grp[g].next
             /\ grp'[g].snaps = grp[g].snaps /\ grp'[g].total = grp[g].total
             /\ grp'[g].undo = grp[g].undo \ {u}
  BY <1>1, <1>7, UndoEffect
<1>8. Others(g)
  BY <1>3, <1>6, <1>7
<1>. QED
  BY <1>1, <1>2, <1>3, <1>4, <1>5, <1>6, <1>7, <1>8 DEF Quiet

\* A rollback that has put everything back answers with the error it began with.
LEMMA RollbackDoneEffect ==
    ASSUME TypeInv, NEW g \in Groups, RollbackDone(g)
    PROVE  /\ Others(g) /\ Quiet /\ grp[g].pc = "rollback" /\ grp[g].undo = {}
           /\ Ended(g, "err")
<1>1. GroupEnds(g, "err", 0) /\ Quiet /\ grp[g].pc = "rollback" /\ grp[g].undo = {}
  BY DEF RollbackDone, Quiet
<1>. QED
  BY <1>1, EndsEffect

\* A search changes only itself.
LEMMA SearchEffect ==
    ASSUME TypeInv, NEW g \in Groups, SearchVisit(g) \/ SearchDone(g)
    PROVE  /\ Others(g) /\ Quiet /\ grp[g].pc = "visit" /\ grp[g].kind # "delete_group"
           /\ Keeps(g) /\ grp'[g].pc \in {"visit", "done"}
           /\ grp'[g].snaps = grp[g].snaps
<1>1. Quiet /\ grp[g].pc = "visit" /\ grp[g].kind # "delete_group"
  BY DEF SearchVisit, SearchDone, Quiet, NoFault, Refuse
<1>2. CASE \E result \in {"ok", "err"}, count \in Nat : GroupEnds(g, result, count)
  BY <1>1, <1>2, EndsEffect DEF Ended
<1>3. CASE SearchVisit(g)
  <2>. DEFINE n == Cluster[grp[g].next]
              found == Merge(grp[g].found, Matched(n))
  <2>1. n \in Nodes
    <3>1. grp[g].next <= Len(Cluster)
      BY <1>3 DEF SearchVisit
    <3>2. grp[g].next \in Nat /\ grp[g].next >= 1
      BY SnapFacts DEF TypeInv, Sound
    <3>3. Len(Cluster) \in Nat /\ \A i \in 1..Len(Cluster) : Cluster[i] \in Nodes
      BY PlanFacts DEF TypeInv, TypeOK
    <3>. QED
      BY <3>1, <3>2, <3>3
  <2>2. found \in Snapshot
    BY <2>1, MatchedType, ZenonT(30) DEF Merge, Snapshot, GroupType, TypeInv, TypeOK
  <2>3. \/ GroupEnds(g, "err", 0)
        \/ grp' = [grp EXCEPT ![g].next = @ + 1, ![g].found = found]
        \/ Skip(g, n)
    BY <1>3 DEF SearchVisit
  <2>. HIDE DEF n, found
  <2>4. CASE GroupEnds(g, "err", 0)
    BY <2>4, <1>2
  <2>5. CASE grp' = [grp EXCEPT ![g].next = @ + 1, ![g].found = found]
    BY <2>2, <2>5, <1>1, FoundEffect DEF Visited
  <2>6. CASE Skip(g, n)
    BY <2>1, <2>6, <1>1, SkipEffect DEF Visited
  <2>. QED
    BY <2>3, <2>4, <2>5, <2>6
<1>4. CASE SearchDone(g)
  BY <1>4, <1>2, KeysCount DEF SearchDone
<1>. QED
  BY <1>3, <1>4

\* A restart empties its node and ends what the node was executing.
LEMMA RestartEffect ==
    ASSUME TypeInv, plan' = plan, NEW n \in Nodes, Restart(n)
    PROVE  /\ restarted' = restarted \cup {n} /\ lost' = lost
           /\ \A m \in Nodes : m # n => table'[m] = table[m] /\ schema'[m] = schema[m]
           /\ \A k \in Keys : table'[n][k] = NoRec
           /\ \A g \in Groups :
                \/ grp'[g] = grp[g]
                \/ /\ Running(grp[g].pc) /\ Keeps(g)
                   /\ grp'[g].pc = "done" /\ grp'[g].result = "crashed"
<1>1. /\ restarted' = restarted \cup {n} /\ lost' = lost
      /\ \A m \in Nodes : m # n => table'[m] = table[m] /\ schema'[m] = schema[m]
  BY DEF Restart, TypeInv, TypeOK
<1>2. \A k \in Keys : table'[n][k] = NoRec
  <2>1. table'[n] = Nothing
    BY DEF Restart, TypeInv, TypeOK
  <2>. QED
    BY <2>1 DEF Nothing
<1>3. ASSUME NEW g \in Groups
      PROVE  \/ grp'[g] = grp[g]
             \/ /\ Running(grp[g].pc) /\ Keeps(g)
                /\ grp'[g].pc = "done" /\ grp'[g].result = "crashed"
  <2>1. grp[g] \in GroupType
    BY DEF TypeInv, TypeOK
  <2>2. \/ grp'[g] = grp[g]
        \/ Running(grp[g].pc) /\ grp'[g] = [grp[g] EXCEPT !.pc = "done", !.result = "crashed"]
    BY DEF Restart
  <2>. QED
    BY <2>1, <2>2 DEF Keeps, GroupType
<1>. QED
  BY <1>1, <1>2, <1>3
-------------------------------------------------------------------------------
(* A successful delete-group is complete                                      *)

\* At most one group operation runs.
OneRunning == \A g, h \in Groups : Running(grp[g].pc) /\ Running(grp[h].pc) => g = h

\* A node that does not know the space holds nothing.
Blank == \A n \in Nodes : ~schema[n] => \A k \in Keys : table[n][k] = NoRec

Snapped(g, n, from) ==
    \E j \in 1..Len(grp[g].snaps) : j >= from /\ grp[g].snaps[j].node = n

\* A node that was visited has a snapshot or nothing to delete; so has every node
\* once the deletion began, and what was deleted stays deleted.
Covered(g) ==
    grp[g].pc = "visit" /\ grp[g].kind = "delete_group"
        => \A i \in 1..Len(Cluster) :
              i < grp[g].next => Snapped(g, Cluster[i], 1) \/ Clean(Cluster[i])
Pending(g) ==
    grp[g].pc = "delete" => \A n \in Nodes : Snapped(g, n, grp[g].next) \/ Clean(n)

\* An operation that has nothing to put back.
Harmless(g) ==
    /\ \A i \in 1..Len(grp[g].snaps), k \in Keys : grp[g].snaps[i].recs[k] = NoRec
    /\ grp[g].undo = {}

\* After a success nothing matches, and no later attempt has anything to put back.
Succeeded == \E g \in Groups : Done(g, "delete_group", "ok")
Cleared ==
    Succeeded =>
        /\ \A n \in Nodes : Clean(n)
        /\ \A h \in Groups :
              Running(grp[h].pc) /\ grp[h].kind = "delete_group" => Harmless(h)

CompleteInv ==
    Writers = {} => /\ OneRunning /\ Blank /\ Cleared
                    /\ \A g \in Groups : Covered(g) /\ Pending(g)

\* Nothing has run, so nothing has to be complete.
LEMMA InitComplete == Init => CompleteInv
<1>. SUFFICES ASSUME Init PROVE CompleteInv
  OBVIOUS
<1>1. \A g \in Groups : grp[g].pc = "new"
  BY DEF Init
<1>2. \A n \in Nodes : schema[n]
  BY DEF Init
<1>. QED
  BY <1>1, <1>2 DEF CompleteInv, OneRunning, Running, Blank, Cleared, Succeeded, Done, Covered, Pending

\* A step of the running operation g.
LEMMA RunComplete ==
    ASSUME TypeInv, CompleteInv, Writers = {}, plan' = plan, NEW g \in Groups,
           Running(grp[g].pc), Others(g), Blank', Covered(g)', Pending(g)',
           Done(g, "delete_group", "ok")' => \A n \in Nodes : Clean(n)',
           Succeeded => \A n \in Nodes : Clean(n)',
           Succeeded /\ Running(grp'[g].pc) /\ grp'[g].kind = "delete_group" => Harmless(g)'
    PROVE  CompleteInv'
<1>. USE DEF CompleteInv
<1>1. Nodes' = Nodes /\ Groups' = Groups
  BY PlanStays
<1>2. \A h \in Groups : h # g => grp'[h] = grp[h] /\ ~Running(grp[h].pc)
  BY DEF Others, OneRunning
<1>3. OneRunning'
  BY <1>1, <1>2 DEF OneRunning
<1>4. Cleared'
  <2>1. CASE Succeeded
    BY <2>1, <1>1, <1>2 DEF Cleared
  <2>2. CASE ~Succeeded /\ Succeeded'
    <3>1. Done(g, "delete_group", "ok")'
      BY <2>2, <1>1, <1>2 DEF Succeeded, Done
    <3>2. \A h \in Groups : ~Running(grp'[h].pc)
      BY <3>1, <1>2 DEF Done, Running
    <3>. QED
      BY <3>1, <3>2, <1>1 DEF Cleared
  <2>. QED
    BY <2>1, <2>2 DEF Cleared
<1>5. ASSUME NEW h \in Groups, h # g PROVE Covered(h)' /\ Pending(h)'
  BY <1>2, <1>5 DEF Covered, Pending, Running
<1>. QED
  BY <1>1, <1>3, <1>4, <1>5

\* It ends, and had not just succeeded, or it was no delete-group.
LEMMA EndComplete ==
    ASSUME TypeInv, CompleteInv, Writers = {}, plan' = plan, NEW g \in Groups,
           Running(grp[g].pc), Others(g), Quiet, Keeps(g),
           \/ grp'[g].pc = "done" /\ grp'[g].result # "ok"
           \/ grp'[g].pc \in {"visit", "done"} /\ grp[g].kind # "delete_group"
    PROVE  CompleteInv'
<1>1. Nodes' = Nodes
  BY PlanStays
<1>2. \A n : Clean(n) => Clean(n)'
  BY DEF Clean, Quiet
<1>3. Blank'
  BY <1>1 DEF CompleteInv, Blank, Quiet
<1>4. Covered(g)' /\ Pending(g)'
  BY DEF Covered, Pending, Keeps
<1>5. Succeeded => \A n \in Nodes : Clean(n)'
  BY <1>2 DEF CompleteInv, Cleared
<1>6. ~Done(g, "delete_group", "ok")'
  BY DEF Done, Keeps
<1>7. ~(Running(grp'[g].pc) /\ grp'[g].kind = "delete_group")
  BY DEF Running, Keeps
<1>. QED
  BY <1>3, <1>4, <1>5, <1>6, <1>7, RunComplete

\* The snapshots of a delete-group cover the nodes it went through.
LEMMA SnapshotComplete ==
    ASSUME TypeInv, CompleteInv, Writers = {}, plan' = plan, NEW g \in Groups,
           SnapshotVisit(g) \/ SnapshotDone(g)
    PROVE  CompleteInv'
<1>1. Cluster' = Cluster /\ Nodes' = Nodes
  BY PlanStays
<1>2. Others(g) /\ Quiet /\ grp[g].pc = "visit" /\ grp[g].kind = "delete_group"
  BY SnapshotVisitEffect, SnapshotDoneEffect
<1>3. Running(grp[g].pc) /\ Covered(g) /\ Blank /\ Cleared
  BY <1>2 DEF Running, CompleteInv
<1>4. \A n : Clean(n) <=> Clean(n)'
  BY <1>2 DEF Clean, Quiet
<1>5. Blank'
  BY <1>1, <1>2, <1>3 DEF Blank, Quiet
<1>6. Succeeded => (\A n \in Nodes : Clean(n)') /\ Harmless(g)
  BY <1>2, <1>3, <1>4 DEF Cleared
<1>7. CASE Ended(g, "err")
  BY <1>2, <1>3, <1>7, EndComplete DEF Ended
<1>8. ASSUME Keeps(g), Covered(g)', Pending(g)', Succeeded => Harmless(g)',
             grp'[g].pc # "done"
      PROVE  CompleteInv'
  <2>1. ~Done(g, "delete_group", "ok")'
    BY <1>8 DEF Done
  <2>. QED
    BY <1>2, <1>3, <1>5, <1>6, <1>8, <2>1, RunComplete
<1>9. CASE SnapshotVisit(g) /\ ~Ended(g, "err")
  <2>1. /\ grp[g].next \in 1..Len(Cluster) /\ Here(g) \in Nodes /\ Visited(g)
        /\ \/ /\ Len(grp'[g].snaps) = Len(grp[g].snaps) + 1
              /\ \A i \in 1..Len(grp[g].snaps) : grp'[g].snaps[i] = grp[g].snaps[i]
              /\ grp'[g].snaps[Len(grp[g].snaps) + 1].node = Here(g)
              /\ grp'[g].snaps[Len(grp[g].snaps) + 1].recs = Matched(Here(g))
           \/ ~schema[Here(g)] /\ grp'[g].snaps = grp[g].snaps
    BY <1>9, SnapshotVisitEffect
  <2>2. Len(grp[g].snaps) \in Nat
    BY SnapFacts
  <2>3. \A j \in 1..Len(grp[g].snaps) :
           j \in 1..Len(grp'[g].snaps) /\ grp'[g].snaps[j] = grp[g].snaps[j]
    BY <2>1, <2>2
  <2>4. \A n \in Nodes : Snapped(g, n, 1) => Snapped(g, n, 1)'
    BY <2>3 DEF Snapped
  <2>5. Covered(g)'
    <3>. SUFFICES ASSUME NEW i \in 1..Len(Cluster), i < grp'[g].next,
                         NEW n \in Nodes, n = Cluster[i]
                  PROVE  Snapped(g, n, 1)' \/ Clean(n)'
      <4>1. \A i \in 1..Len(Cluster) : Cluster[i] \in Nodes
        BY DEF Nodes
      <4>. QED
        BY <4>1, <1>1 DEF Covered
    <3>1. i < grp[g].next \/ (i = grp[g].next /\ n = Here(g))
      BY <2>1 DEF Visited, Here
    <3>2. CASE i < grp[g].next
      <4>1. Snapped(g, n, 1) \/ Clean(n)
        BY <3>2, <1>2, <1>3 DEF Covered
      <4>. QED
        BY <4>1, <2>4, <1>4
    <3>3. CASE n = Here(g) /\ ~schema[n]
      BY <3>3, <1>3, <1>4, ValuesAssumption DEF Blank, Clean
    <3>4. CASE n = Here(g) /\ schema[n]
      <4>1. /\ Len(grp'[g].snaps) = Len(grp[g].snaps) + 1
            /\ grp'[g].snaps[Len(grp[g].snaps) + 1].node = n
        BY <3>4, <2>1
      <4>2. \E j \in 1..Len(grp'[g].snaps) : j >= 1 /\ grp'[g].snaps[j].node = n
        BY <4>1, <2>2, SMTT(30)
      <4>. QED
        BY <4>2 DEF Snapped
    <3>. QED
      BY <3>1, <3>2, <3>3, <3>4
  <2>6. Pending(g)'
    BY <2>1, <1>2 DEF Pending, Visited
  <2>7. Succeeded => Harmless(g)'
    <3>. SUFFICES ASSUME Succeeded PROVE Harmless(g)'
      OBVIOUS
    <3>1. Clean(Here(g)) /\ Harmless(g)
      BY <1>4, <1>6, <2>1
    <3>2. \A k \in Keys : Matched(Here(g))[k] = NoRec
      BY <3>1, <2>1, CleanIsNothing
    <3>3. \A i \in 1..Len(grp'[g].snaps), k \in Keys : grp'[g].snaps[i].recs[k] = NoRec
      <4>. SUFFICES ASSUME NEW i \in 1..Len(grp'[g].snaps), NEW k \in Keys
                    PROVE  grp'[g].snaps[i].recs[k] = NoRec
        OBVIOUS
      <4>1. \/ i \in 1..Len(grp[g].snaps) /\ grp'[g].snaps[i] = grp[g].snaps[i]
            \/ grp'[g].snaps[i].recs = Matched(Here(g))
        BY <2>1, <2>2, SMTT(30)
      <4>. QED
        BY <4>1, <3>1, <3>2 DEF Harmless
    <3>. QED
      BY <3>1, <3>3, <2>1 DEF Harmless, Visited
  <2>. QED
    BY <1>2, <1>8, <2>1, <2>5, <2>6, <2>7 DEF Visited
<1>10. CASE SnapshotDone(g) /\ ~Ended(g, "err")
  <2>1. /\ grp[g].next > Len(Cluster) /\ Keeps(g) /\ grp'[g].pc = "delete"
        /\ grp'[g].next = 1 /\ grp'[g].snaps = grp[g].snaps /\ grp'[g].undo = grp[g].undo
    BY <1>10, SnapshotDoneEffect
  <2>2. Pending(g)'
    <3>. SUFFICES ASSUME NEW n \in Nodes PROVE Snapped(g, n, 1)' \/ Clean(n)'
      BY <1>1, <2>1 DEF Pending, Snapped
    <3>1. PICK i \in 1..Len(Cluster) : n = Cluster[i]
      BY DEF Nodes
    <3>2. i < grp[g].next
      BY <2>1, SnapFacts, PlanFacts DEF TypeInv, TypeOK
    <3>3. Snapped(g, n, 1) \/ Clean(n)
      BY <3>1, <3>2, <1>2, <1>3 DEF Covered
    <3>. QED
      BY <3>3, <2>1, <1>4 DEF Snapped
  <2>3. Covered(g)' /\ (Succeeded => Harmless(g)')
    BY <2>1, <1>6 DEF Covered, Harmless
  <2>. QED
    BY <1>8, <2>1, <2>2, <2>3
<1>. QED
  BY <1>7, <1>9, <1>10

\* A deletion leaves nothing on its node, and the last one leaves nothing anywhere.
LEMMA DeleteComplete ==
    ASSUME TypeInv, CompleteInv, Writers = {}, plan' = plan, NEW g \in Groups,
           DeleteVisit(g) \/ DeleteDone(g)
    PROVE  CompleteInv'
<1>1. Cluster' = Cluster /\ Nodes' = Nodes
  BY PlanStays
<1>2. Others(g) /\ grp[g].pc = "delete" /\ grp[g].kind = "delete_group"
  BY DeleteVisitEffect, DeleteDoneEffect
<1>3. Running(grp[g].pc) /\ Pending(g) /\ Blank /\ Cleared
  BY <1>2 DEF Running, CompleteInv
<1>4. \/ Quiet
      \/ There(g) \in Nodes /\ schema[There(g)] /\ Emptied(There(g)) /\ schema' = schema
  BY DeleteVisitEffect, DeleteDoneEffect
<1>5. \A n \in Nodes : (Clean(n) => Clean(n)') /\ (~schema[n] => table'[n] = table[n])
  <2>1. CASE Quiet
    BY <2>1 DEF Quiet, Clean
  <2>2. CASE There(g) \in Nodes /\ schema[There(g)] /\ Emptied(There(g))
    BY <2>2, EmptiedEffect, ValuesAssumption DEF Clean
  <2>. QED
    BY <1>4, <2>1, <2>2
<1>6. Blank'
  BY <1>1, <1>3, <1>4, <1>5 DEF Blank, Quiet
<1>7. Succeeded => (\A n \in Nodes : Clean(n)') /\ Harmless(g)
  BY <1>2, <1>3, <1>5 DEF Cleared
<1>8. ASSUME NEW applied \in 0..Len(grp[g].snaps), RolledBack(g, applied)
      PROVE  CompleteInv'
  <2>1. Covered(g)' /\ Pending(g)' /\ ~Done(g, "delete_group", "ok")'
    BY <1>8 DEF RolledBack, Covered, Pending, Done
  <2>2. Succeeded => Harmless(g)'
    <3>. SUFFICES ASSUME Succeeded PROVE Harmless(g)'
      OBVIOUS
    <3>1. UndoOf(g, applied) = {}
      BY <1>7, <1>8, SnapFacts DEF UndoOf, Harmless
    <3>. QED
      BY <3>1, <1>7, <1>8 DEF Harmless, RolledBack
  <2>. QED
    BY <1>2, <1>3, <1>6, <1>7, <2>1, <2>2, RunComplete
<1>9. CASE DeleteVisit(g)
  <2>1. /\ grp[g].next \in 1..Len(grp[g].snaps) /\ There(g) \in Nodes
        /\ \/ /\ Emptied(There(g)) /\ Visited(g) /\ grp'[g].snaps = grp[g].snaps
           \/ RolledBack(g, grp[g].next - 1)
    BY <1>9, DeleteVisitEffect
  <2>2. CASE RolledBack(g, grp[g].next - 1)
    <3>1. grp[g].next - 1 \in 0..Len(grp[g].snaps)
      BY <2>1, SnapFacts
    <3>. QED
      BY <3>1, <2>2, <1>8
  <2>3. CASE Emptied(There(g)) /\ Visited(g) /\ grp'[g].snaps = grp[g].snaps
    <3>1. \A m \in Nodes : m = There(g) => Clean(m)'
      BY <2>3, EmptiedEffect, ValuesAssumption DEF Clean
    <3>2. Pending(g)'
      <4>. SUFFICES ASSUME NEW n \in Nodes, ~Clean(n)'
                    PROVE  \E j \in 1..Len(grp'[g].snaps) :
                              j >= grp'[g].next /\ grp'[g].snaps[j].node = n
        BY <1>1 DEF Pending, Snapped
      <4>1. n # There(g) /\ ~Clean(n)
        BY <3>1, <1>5
      <4>2. PICK j \in 1..Len(grp[g].snaps) : j >= grp[g].next /\ grp[g].snaps[j].node = n
        BY <4>1, <1>2, <1>3 DEF Pending, Snapped
      <4>3. j # grp[g].next
        BY <4>1, <4>2 DEF There
      <4>4. j >= grp[g].next + 1
        BY <4>2, <4>3, <2>1
      <4>. QED
        BY <4>2, <4>4, <2>3 DEF Visited
    <3>3. Covered(g)' /\ ~Done(g, "delete_group", "ok")'
      BY <2>3, <1>2 DEF Visited, Covered, Done
    <3>4. Succeeded => Harmless(g)'
      BY <2>3, <1>7 DEF Visited, Harmless
    <3>. QED
      BY <1>2, <1>3, <1>6, <1>7, <3>2, <3>3, <3>4, RunComplete
  <2>. QED
    BY <2>1, <2>2, <2>3
<1>10. CASE DeleteDone(g)
  <2>1. /\ Quiet /\ grp[g].next = Len(grp[g].snaps) + 1
        /\ RolledBack(g, Len(grp[g].snaps)) \/ Ended(g, "ok")
    BY <1>10, DeleteDoneEffect
  <2>2. CASE RolledBack(g, Len(grp[g].snaps))
    <3>1. Len(grp[g].snaps) \in 0..Len(grp[g].snaps)
      BY SnapFacts
    <3>. QED
      BY <3>1, <2>2, <1>8
  <2>3. CASE Ended(g, "ok")
    <3>1. \A n \in Nodes : Clean(n)
      <4>1. \A n \in Nodes : ~Snapped(g, n, grp[g].next)
        BY <2>1, SnapFacts DEF Snapped
      <4>. QED
        BY <4>1, <1>2, <1>3 DEF Pending
    <3>2. \A n \in Nodes : Clean(n)'
      BY <3>1, <1>5
    <3>3. Covered(g)' /\ Pending(g)' /\ ~Running(grp'[g].pc)
      BY <2>3 DEF Covered, Pending, Ended, Running
    <3>. QED
      BY <1>2, <1>3, <1>6, <3>2, <3>3, RunComplete
  <2>. QED
    BY <2>1, <2>2, <2>3
<1>. QED
  BY <1>9, <1>10

\* A rollback puts back nothing after a success: its snapshots were empty.
LEMMA RestoreComplete ==
    ASSUME TypeInv, CompleteInv, Writers = {}, plan' = plan, NEW g \in Groups,
           RestoreRecord(g) \/ RollbackDone(g)
    PROVE  CompleteInv'
<1>1. Nodes' = Nodes
  BY PlanStays
<1>2. CASE RollbackDone(g)
  BY <1>2, RollbackDoneEffect, EndComplete DEF Ended, Running
<1>3. CASE RestoreRecord(g)
  <2>1. Others(g) /\ grp[g].pc = "rollback" /\ grp[g].kind = "delete_group" /\ schema' = schema
    BY <1>3, RestoreRecordEffect
  <2>2. PICK u \in grp[g].undo :
           /\ u[1] \in 1..Len(grp[g].snaps) /\ u[2] \in Keys
           /\ \/ /\ schema[grp[g].snaps[u[1]].node] /\ PutBack(g, u)
                 /\ Keeps(g) /\ grp'[g].pc = "rollback"
              \/ Quiet /\ Ended(g, "rollback_failed")
              \/ /\ schema[grp[g].snaps[u[1]].node] /\ PutBack(g, u)
                 /\ Ended(g, "rollback_failed")
    BY <1>3, RestoreRecordEffect
  <2>3. Running(grp[g].pc) /\ Blank
    BY <2>1 DEF Running, CompleteInv
  <2>4. ~Succeeded
    BY <2>1, <2>2, <2>3 DEF CompleteInv, Cleared, Harmless
  <2>5. Blank'
    <3>1. CASE Quiet
      BY <3>1, <2>3, <1>1 DEF Blank, Quiet
    <3>2. CASE schema[grp[g].snaps[u[1]].node] /\ PutBack(g, u)
      <4>. DEFINE n == grp[g].snaps[u[1]].node
                  rec == grp[g].snaps[u[1]].recs[u[2]]
      <4>1. n \in Nodes /\ rec \in Records
        BY <2>2, SnapFacts
      <4>2. table' = [table EXCEPT ![n][u[2]] = rec] /\ schema[n]
        BY <3>2 DEF PutBack
      <4>. HIDE DEF n, rec
      <4>3. \A m \in Nodes : m # n => table'[m] = table[m]
        BY <4>1, <4>2, <2>2, RecordEffect
      <4>. QED
        BY <4>2, <4>3, <2>1, <2>3, <1>1 DEF Blank
    <3>. QED
      BY <2>2, <3>1, <3>2
  <2>6. Covered(g)' /\ Pending(g)' /\ ~Done(g, "delete_group", "ok")'
    BY <2>2 DEF Covered, Pending, Done, Ended
  <2>. QED
    BY <2>1, <2>3, <2>4, <2>5, <2>6, RunComplete
<1>. QED
  BY <1>2, <1>3

\* With room for one operation, none runs when one begins.
LEMMA NoneRuns ==
    ASSUME TypeInv, MaxActive = 1, NEW g \in Groups, NEW n, NEW kind, GroupBegin(g, n, kind)
    PROVE  \A h \in Groups : ~Running(grp[h].pc)
<1>. DEFINE R == {h \in Groups : Running(grp[h].pc)}
<1>1. IsFiniteSet(R)
  BY PlanFacts, FS_Subset DEF TypeInv, TypeOK
<1>2. Cardinality(R) < 1 /\ Cardinality(R) \in Nat
  BY <1>1, FS_CardinalityType DEF GroupBegin
<1>3. Cardinality(R) = 0
  BY <1>2
<1>4. R = {}
  BY <1>1, <1>3, FS_EmptySet
<1>. QED
  BY <1>4

\* An operation that begins has visited no node and holds no snapshot.
LEMMA BeginComplete ==
    ASSUME TypeInv, CompleteInv, Writers = {}, plan' = plan, MaxActive = 1,
           NEW g \in Groups, NEW n \in Nodes, NEW kind \in Menu[g], GroupBegin(g, n, kind)
    PROVE  CompleteInv'
<1>1. Nodes' = Nodes /\ Groups' = Groups /\ Cluster' = Cluster
  BY PlanStays
<1>2. \A h \in Groups : ~Running(grp[h].pc)
  BY NoneRuns
<1>3. /\ Others(g) /\ grp'[g].pc = "visit" /\ grp'[g].next = 1
      /\ grp'[g].snaps = <<>> /\ grp'[g].undo = {}
  <2>1. grp[g].next = 1 /\ grp[g].snaps = <<>> /\ grp[g].undo = {}
    BY DEF GroupBegin, TypeInv, Sound
  <2>. QED
    BY <2>1, BeginEffect
<1>4. UNCHANGED <<table, schema>>
  BY DEF GroupBegin
<1>5. \A m : Clean(m) <=> Clean(m)'
  BY <1>4 DEF Clean
<1>6. OneRunning' /\ Blank'
  BY <1>1, <1>2, <1>3, <1>4 DEF OneRunning, Others, CompleteInv, Blank
<1>7. Harmless(g)'
  BY <1>3 DEF Harmless
<1>8. Succeeded' => Succeeded
  BY <1>1, <1>3 DEF Succeeded, Done, Others
<1>9. Cleared'
  BY <1>1, <1>2, <1>3, <1>5, <1>7, <1>8 DEF CompleteInv, Cleared, Others
<1>10. \A h \in Groups : Covered(h)' /\ Pending(h)'
  <2>1. Covered(g)' /\ Pending(g)'
    BY <1>3 DEF Covered, Pending
  <2>2. \A h \in Groups : h # g => grp'[h].pc \notin {"visit", "delete"}
    BY <1>2, <1>3 DEF Others, Running
  <2>. QED
    BY <2>1, <2>2 DEF Covered, Pending
<1>. QED
  BY <1>1, <1>6, <1>9, <1>10 DEF CompleteInv

\* A restart leaves a node with nothing to delete and ends what ran there.
LEMMA RestartComplete ==
    ASSUME TypeInv, CompleteInv, Writers = {}, plan' = plan, NEW n \in Nodes,
           Restart(n) \/ AdoptSpace(n)
    PROVE  CompleteInv'
<1>1. Nodes' = Nodes /\ Groups' = Groups /\ Cluster' = Cluster
  BY PlanStays
<1>2. \A g \in Groups :
         \/ grp'[g] = grp[g]
         \/ grp'[g].pc = "done" /\ grp'[g].result = "crashed"
  BY RestartEffect DEF AdoptSpace
<1>3. Blank'
  <2>1. CASE Restart(n)
    BY <2>1, <1>1, RestartEffect DEF CompleteInv, Blank
  <2>2. CASE AdoptSpace(n)
    <3>1. \A m \in Nodes : m # n => schema'[m] = schema[m]
      BY <2>2 DEF AdoptSpace, TypeInv, TypeOK
    <3>2. schema'[n] /\ table' = table
      BY <2>2 DEF AdoptSpace, TypeInv, TypeOK
    <3>. QED
      BY <3>1, <3>2, <1>1 DEF CompleteInv, Blank
  <2>. QED
    BY <2>1, <2>2
<1>4. \A m \in Nodes : Clean(m) => Clean(m)'
  <2>1. CASE Restart(n)
    BY <2>1, RestartEffect, ValuesAssumption DEF Clean
  <2>2. CASE AdoptSpace(n)
    BY <2>2 DEF AdoptSpace, Clean
  <2>. QED
    BY <2>1, <2>2
<1>5. OneRunning'
  BY <1>1, <1>2 DEF CompleteInv, OneRunning, Running
<1>6. Cleared'
  <2>1. Succeeded' => Succeeded
    BY <1>1, <1>2 DEF Succeeded, Done
  <2>2. \A h \in Groups : Running(grp'[h].pc) => grp'[h] = grp[h]
    BY <1>2 DEF Running
  <2>3. \A h \in Groups : grp'[h] = grp[h] /\ Harmless(h) => Harmless(h)'
    BY DEF Harmless
  <2>. QED
    BY <1>1, <1>4, <2>1, <2>2, <2>3 DEF CompleteInv, Cleared
<1>7. ASSUME NEW g \in Groups PROVE Covered(g)' /\ Pending(g)'
  <2>1. CASE grp'[g].pc = "done"
    BY <2>1 DEF Covered, Pending
  <2>2. CASE grp'[g] = grp[g]
    <3>1. \A i \in 1..Len(Cluster) : Cluster[i] \in Nodes
      BY DEF Nodes
    <3>2. \A m, from : Snapped(g, m, from) <=> Snapped(g, m, from)'
      BY <2>2 DEF Snapped
    <3>3. Covered(g)'
      BY <3>1, <3>2, <2>2, <1>1, <1>4 DEF CompleteInv, Covered
    <3>4. Pending(g)'
      BY <3>2, <2>2, <1>1, <1>4 DEF CompleteInv, Pending
    <3>. QED
      BY <3>3, <3>4
  <2>. QED
    BY <1>2, <2>1, <2>2
<1>. QED
  BY <1>1, <1>3, <1>5, <1>6, <1>7 DEF CompleteInv

\* Every step keeps the deletions complete, while one group operation runs at a time.
LEMMA CompleteStep ==
    ASSUME MaxActive = 1
    PROVE  TypeInv /\ CompleteInv /\ [Next]_vars => CompleteInv'
<1>. SUFFICES ASSUME TypeInv, CompleteInv, [Next]_vars, Writers' = {} PROVE CompleteInv'
  BY DEF CompleteInv
<1>1. plan' = plan /\ Writers = {}
  <2>1. plan' = plan
    BY DEF Next, vars
  <2>. QED
    BY <2>1, PlanStays
<1>2. CASE UNCHANGED vars
  <2>1. Nodes' = Nodes /\ Groups' = Groups /\ Cluster' = Cluster
    BY <1>1, PlanStays
  <2>. QED
    BY <2>1, <1>1, <1>2 DEF vars, CompleteInv, OneRunning, Blank, Cleared, Succeeded, Done,
       Harmless, Covered, Pending, Snapped, Clean
<1>3. CASE Next
  <2>1. ASSUME NEW g \in Groups, SearchVisit(g) \/ SearchDone(g) PROVE CompleteInv'
    <3>1. /\ Others(g) /\ Quiet /\ grp[g].pc = "visit" /\ grp[g].kind # "delete_group"
          /\ Keeps(g) /\ grp'[g].pc \in {"visit", "done"}
      BY <2>1, SearchEffect
    <3>. QED
      BY <3>1, <1>1, EndComplete DEF Running
  <2>2. ASSUME NEW g \in Groups, GroupStep(g) PROVE CompleteInv'
    BY <1>1, <2>1, <2>2, SnapshotComplete, DeleteComplete, RestoreComplete DEF GroupStep
  <2>. QED
    BY <1>1, <1>3, <2>2, BeginComplete, RestartComplete DEF Next
<1>. QED
  BY <1>2, <1>3

\* The deletions are complete in every state.
LEMMA CompleteAlways ==
    ASSUME MaxActive = 1
    PROVE  Spec => [](TypeInv /\ CompleteInv)
<1>1. Init => TypeInv /\ CompleteInv
  BY InitType, InitComplete
<1>2. TypeInv /\ CompleteInv /\ [Next]_vars => (TypeInv /\ CompleteInv)'
  BY TypeStep, CompleteStep
<1>. QED
  BY <1>1, <1>2, PTL DEF Spec

\* Where a delete-group was begun there are no puts.
LEMMA NoPutsBesideDeletes ==
    ASSUME TypeInv, Separate, NEW g \in Groups, grp[g].pc # "new",
           grp[g].kind = "delete_group"
    PROVE  Writers = {}
<1>1. "delete_group" \in Menu[g] /\ plan \in DOMAIN Plans
  BY DEF TypeInv, TypeOK, Sound
<1>. QED
  BY <1>1 DEF Separate, Menu, Groups, Writers, PutOf

\* A delete-group that reports success has left no matching record on any node,
\* for every cluster, every placement and any number of failing calls, lost answers
\* and restarts, when group operations run one at a time and no puts run beside them.
THEOREM DeleteGroupsComplete ==
    ASSUME MaxActive = 1, Separate
    PROVE  Spec => []AcknowledgedDeleteGroupIsComplete
<1>1. TypeInv /\ CompleteInv => AcknowledgedDeleteGroupIsComplete
  <2>. SUFFICES ASSUME TypeInv, CompleteInv, NEW g \in Groups, NEW n \in Nodes,
                       Done(g, "delete_group", "ok")
                PROVE  Matched(n) = Nothing
    BY DEF AcknowledgedDeleteGroupIsComplete
  <2>1. Writers = {}
    BY NoPutsBesideDeletes DEF Done
  <2>2. Clean(n)
    BY <2>1 DEF CompleteInv, Cleared, Succeeded
  <2>. QED
    BY <2>2, CleanIsNothing
<1>. QED
  BY <1>1, CompleteAlways, PTL
-------------------------------------------------------------------------------
(* A failed delete-group puts everything back                                 *)

\* What a node would answer for a key is what the snapshot holds.
Answer(n, k) == IF table[n][k] \in Matching THEN table[n][k] ELSE NoRec
Kept(g, i, k) == Answer(grp[g].snaps[i].node, k) = grp[g].snaps[i].recs[k]

\* The snapshots are those of the first nodes of the list, in its order.
Listed(g) ==
    /\ Len(grp[g].snaps) <= Len(Cluster)
    /\ \A i \in 1..Len(grp[g].snaps) : grp[g].snaps[i].node = Cluster[i]

\* Each snapshot is exact until its node is deleted from, which leaves nothing; in
\* a rollback all that is not put back yet is in undo.
Exact(g) ==
    /\ Listed(g)
    /\ grp[g].pc = "visit" =>
          /\ Len(grp[g].snaps) = grp[g].next - 1
          /\ \A i \in 1..Len(grp[g].snaps), k \in Keys : Kept(g, i, k)
    /\ grp[g].pc = "delete" =>
          \A i \in 1..Len(grp[g].snaps), k \in Keys :
             IF i < grp[g].next THEN table[grp[g].snaps[i].node][k] \notin Matching
                                ELSE Kept(g, i, k)
    /\ grp[g].pc = "rollback" /\ lost = 0 =>
          \A i \in 1..Len(grp[g].snaps), k \in Keys :
             <<i, k>> \notin grp[g].undo => Kept(g, i, k)

ExactInv ==
    Writers = {} /\ restarted = {} =>
        /\ \A n \in Nodes : schema[n]
        /\ \A g \in Groups :
              Running(grp[g].pc) /\ grp[g].kind = "delete_group" => Exact(g)

\* No delete-group runs, so no snapshot has to be exact.
LEMMA InitExact == Init => ExactInv
  BY DEF Init, ExactInv, Running

\* A step of the running operation g.
LEMMA RunExact ==
    ASSUME CompleteInv, ExactInv, Writers = {}, restarted = {}, plan' = plan,
           NEW g \in Groups, Running(grp[g].pc), Others(g),
           schema' = schema,
           Running(grp'[g].pc) /\ grp'[g].kind = "delete_group" => Exact(g)'
    PROVE  ExactInv'
<1>1. Nodes' = Nodes /\ Groups' = Groups
  BY PlanStays
<1>2. \A h \in Groups : h # g => ~Running(grp'[h].pc)
  BY DEF Others, CompleteInv, OneRunning
<1>3. \A n \in Nodes : schema[n]
  BY DEF ExactInv
<1>. QED
  BY <1>1, <1>2, <1>3 DEF ExactInv

\* Snapshots of different positions are of different nodes.
LEMMA ListedApart ==
    ASSUME TypeInv, NEW g \in Groups, Listed(g),
           NEW i \in 1..Len(grp[g].snaps), NEW j \in 1..Len(grp[g].snaps), i # j
    PROVE  grp[g].snaps[i].node # grp[g].snaps[j].node
<1>1. i \in 1..Len(Cluster) /\ j \in 1..Len(Cluster)
  BY SnapFacts, PlanFacts DEF Listed, TypeInv, TypeOK
<1>2. grp[g].snaps[i].node = Cluster[i] /\ grp[g].snaps[j].node = Cluster[j]
  BY DEF Listed
<1>. QED
  BY <1>1, <1>2, PlanFacts DEF TypeInv, TypeOK

\* A snapshot holds what its node holds, and the earlier ones still do.
LEMMA SnapshotExact ==
    ASSUME TypeInv, CompleteInv, ExactInv, Writers = {}, restarted = {}, plan' = plan,
           NEW g \in Groups, SnapshotVisit(g) \/ SnapshotDone(g)
    PROVE  ExactInv'
<1>1. Cluster' = Cluster
  BY PlanStays
<1>2. Others(g) /\ Quiet /\ grp[g].pc = "visit" /\ grp[g].kind = "delete_group"
  BY SnapshotVisitEffect, SnapshotDoneEffect
<1>3. /\ Running(grp[g].pc) /\ schema' = schema /\ table' = table
      /\ \A n \in Nodes : schema[n]
  BY <1>2 DEF Running, Quiet, ExactInv
<1>4. Exact(g)
  BY <1>2, <1>3 DEF ExactInv
<1>5. /\ Listed(g) /\ Len(grp[g].snaps) = grp[g].next - 1
      /\ \A i \in 1..Len(grp[g].snaps), k \in Keys : Kept(g, i, k)
  BY <1>2, <1>4 DEF Exact
<1>6. Len(grp[g].snaps) \in Nat /\ grp[g].next \in Nat /\ Len(Cluster) \in Nat
  BY SnapFacts, PlanFacts DEF TypeInv, TypeOK
<1>7. SUFFICES ASSUME ~Ended(g, "err") PROVE Exact(g)'
  BY <1>2, <1>3, RunExact DEF Ended, Running
<1>8. CASE SnapshotVisit(g)
  <2>1. /\ grp[g].next \in 1..Len(Cluster) /\ Visited(g) /\ Here(g) \in Nodes
        /\ Len(grp'[g].snaps) = Len(grp[g].snaps) + 1
        /\ \A i \in 1..Len(grp[g].snaps) : grp'[g].snaps[i] = grp[g].snaps[i]
        /\ grp'[g].snaps[Len(grp[g].snaps) + 1].node = Here(g)
        /\ grp'[g].snaps[Len(grp[g].snaps) + 1].recs = Matched(Here(g))
    BY <1>3, <1>7, <1>8, SnapshotVisitEffect
  <2>2. ASSUME NEW i \in 1..Len(grp'[g].snaps)
        PROVE  grp'[g].snaps[i].node = Cluster[i] /\ \A k \in Keys : Kept(g, i, k)'
    <3>1. CASE i \in 1..Len(grp[g].snaps)
      <4>1. grp'[g].snaps[i] = grp[g].snaps[i]
        BY <2>1, <3>1
      <4>. QED
        BY <4>1, <3>1, <1>3, <1>5 DEF Kept, Answer, Listed
    <3>2. CASE i = Len(grp[g].snaps) + 1
      <4>1. /\ grp'[g].snaps[i].node = Here(g) /\ grp'[g].snaps[i].recs = Matched(Here(g))
            /\ Here(g) = Cluster[i]
        BY <3>2, <2>1, <1>5, <1>6 DEF Here
      <4>2. \A k \in Keys : Matched(Here(g))[k] = IF table[Here(g)][k] \in Matching
                                                  THEN table[Here(g)][k] ELSE NoRec
        BY DEF Matched
      <4>. QED
        BY <4>1, <4>2, <1>3 DEF Kept, Answer
    <3>. QED
      BY <3>1, <3>2, <2>1, <1>6
  <2>3. Len(grp'[g].snaps) = grp'[g].next - 1 /\ Len(grp'[g].snaps) <= Len(Cluster)
    BY <2>1, <1>5, <1>6 DEF Visited
  <2>4. grp'[g].pc = "visit"
    BY <2>1, <1>2 DEF Visited
  <2>. QED
    BY <2>2, <2>3, <2>4, <1>1 DEF Exact, Listed
<1>9. CASE SnapshotDone(g)
  <2>1. grp'[g].pc = "delete" /\ grp'[g].next = 1 /\ grp'[g].snaps = grp[g].snaps
    BY <1>7, <1>9, SnapshotDoneEffect
  <2>2. Listed(g)'
    BY <2>1, <1>1, <1>5 DEF Listed
  <2>3. ASSUME NEW i \in 1..Len(grp[g].snaps), NEW k \in Keys PROVE Kept(g, i, k)'
    BY <2>1, <1>3, <1>5 DEF Kept, Answer
  <2>. QED
    BY <2>1, <2>2, <2>3 DEF Exact
<1>. QED
  BY <1>8, <1>9

\* A deletion empties the node of its snapshot and no other; a rollback that follows
\* owes what was deleted, unless an answer was lost.
LEMMA DeleteExact ==
    ASSUME TypeInv, CompleteInv, ExactInv, Writers = {}, restarted = {}, plan' = plan,
           NEW g \in Groups, DeleteVisit(g) \/ DeleteDone(g)
    PROVE  ExactInv'
<1>1. Cluster' = Cluster
  BY PlanStays
<1>2. Others(g) /\ grp[g].pc = "delete" /\ grp[g].kind = "delete_group" /\ schema' = schema
  BY DeleteVisitEffect, DeleteDoneEffect DEF Quiet
<1>3. Running(grp[g].pc)
  BY <1>2 DEF Running
<1>4. Exact(g)
  BY <1>2, <1>3 DEF ExactInv
<1>5. /\ Listed(g)
      /\ \A i \in 1..Len(grp[g].snaps), k \in Keys :
            IF i < grp[g].next THEN table[grp[g].snaps[i].node][k] \notin Matching
                               ELSE Kept(g, i, k)
  BY <1>2, <1>4 DEF Exact
<1>6. Len(grp[g].snaps) \in Nat /\ grp[g].next \in Nat /\ lost \in Nat
  BY SnapFacts, PlanFacts DEF TypeInv, TypeOK
<1>7. ASSUME table' = table, RolledBack(g, grp[g].next - 1)
      PROVE  Exact(g)'
  <2>1. /\ grp'[g].pc = "rollback" /\ grp'[g].snaps = grp[g].snaps
        /\ grp'[g].undo = UndoOf(g, grp[g].next - 1)
    BY <1>7 DEF RolledBack
  <2>2. Listed(g)'
    BY <2>1, <1>1, <1>5 DEF Listed
  <2>3. ASSUME NEW i \in 1..Len(grp[g].snaps), NEW k \in Keys,
               <<i, k>> \notin UndoOf(g, grp[g].next - 1)
        PROVE  Kept(g, i, k)
    <3>1. CASE i < grp[g].next
      <4>1. i \in 1..(grp[g].next - 1)
        BY <3>1, <1>6
      <4>2. grp[g].snaps[i].recs[k] = NoRec
        BY <4>1, <2>3 DEF UndoOf
      <4>. QED
        BY <4>2, <3>1, <1>5 DEF Kept, Answer
    <3>2. CASE ~(i < grp[g].next)
      BY <3>2, <1>5
    <3>. QED
      BY <3>1, <3>2
  <2>4. \A i \in 1..Len(grp[g].snaps), k \in Keys : Kept(g, i, k) => Kept(g, i, k)'
    BY <2>1, <1>7 DEF Kept, Answer
  <2>. QED
    BY <2>1, <2>2, <2>3, <2>4 DEF Exact
<1>8. CASE DeleteVisit(g)
  <2>1. /\ grp[g].next \in 1..Len(grp[g].snaps) /\ There(g) \in Nodes
        /\ \/ Emptied(There(g)) /\ Visited(g) /\ grp'[g].snaps = grp[g].snaps
           \/ table' = table /\ RolledBack(g, grp[g].next - 1)
           \/ lost' = lost + 1 /\ RolledBack(g, grp[g].next - 1)
    BY <1>8, DeleteVisitEffect DEF Quiet
  <2>2. CASE Emptied(There(g)) /\ Visited(g) /\ grp'[g].snaps = grp[g].snaps
    <3>1. grp'[g].pc = "delete" /\ grp'[g].next = grp[g].next + 1
      BY <2>2, <1>2 DEF Visited
    <3>2. Listed(g)'
      BY <2>2, <1>1, <1>5 DEF Listed
    <3>3. ASSUME NEW i \in 1..Len(grp[g].snaps), NEW k \in Keys
          PROVE  IF i < grp[g].next + 1
                 THEN table'[grp[g].snaps[i].node][k] \notin Matching
                 ELSE Kept(g, i, k)'
      <4>. DEFINE n == grp[g].snaps[i].node
      <4>1. n \in Nodes
        BY SnapFacts
      <4>2. CASE i = grp[g].next
        <5>1. n = There(g)
          BY <4>2 DEF There
        <5>2. table'[n][k] \notin Matching
          BY <5>1, <2>1, <2>2, EmptiedEffect, ValuesAssumption
        <5>. QED
          BY <5>2, <4>2, <1>6
      <4>3. CASE i # grp[g].next
        <5>1. n # There(g)
          BY <4>3, <2>1, <1>5, ListedApart DEF There
        <5>2. table'[n] = table[n]
          BY <5>1, <4>1, <2>1, <2>2, EmptiedEffect
        <5>3. Kept(g, i, k) => Kept(g, i, k)'
          BY <5>2, <2>2 DEF Kept, Answer
        <5>4. i < grp[g].next + 1 <=> i < grp[g].next
          BY <4>3, <1>6
        <5>. QED
          BY <5>2, <5>3, <5>4, <1>5
      <4>. QED
        BY <4>2, <4>3
    <3>4. Exact(g)'
      BY <3>1, <3>2, <3>3, <2>2 DEF Exact
    <3>. QED
      BY <3>4, <1>2, <1>3, RunExact
  <2>3. CASE lost' = lost + 1 /\ RolledBack(g, grp[g].next - 1)
    <3>1. lost' # 0
      BY <2>3, <1>6
    <3>2. Exact(g)'
      BY <3>1, <2>3, <1>1, <1>5 DEF Exact, Listed, RolledBack
    <3>. QED
      BY <3>2, <1>2, <1>3, RunExact
  <2>. QED
    BY <2>1, <2>2, <2>3, <1>2, <1>3, <1>7, RunExact
<1>9. CASE DeleteDone(g)
  <2>1. /\ table' = table /\ grp[g].next = Len(grp[g].snaps) + 1
        /\ RolledBack(g, Len(grp[g].snaps)) \/ Ended(g, "ok")
    BY <1>9, DeleteDoneEffect DEF Quiet
  <2>2. CASE RolledBack(g, Len(grp[g].snaps))
    <3>1. Len(grp[g].snaps) = grp[g].next - 1
      BY <2>1, <1>6
    <3>. QED
      BY <3>1, <2>1, <2>2, <1>2, <1>3, <1>7, RunExact
  <2>3. CASE Ended(g, "ok")
    BY <2>3, <1>2, <1>3, RunExact DEF Ended, Running
  <2>. QED
    BY <2>1, <2>2, <2>3
<1>. QED
  BY <1>8, <1>9

\* What is put back is what the snapshot holds, and what was put back stays.
LEMMA RestoreExact ==
    ASSUME TypeInv, CompleteInv, ExactInv, Writers = {}, restarted = {}, plan' = plan,
           NEW g \in Groups, RestoreRecord(g) \/ RollbackDone(g)
    PROVE  ExactInv'
<1>1. Cluster' = Cluster
  BY PlanStays
<1>2. Others(g) /\ grp[g].pc = "rollback" /\ schema' = schema
  BY RestoreRecordEffect, RollbackDoneEffect DEF Quiet
<1>3. Running(grp[g].pc) /\ grp[g].kind = "delete_group"
  BY <1>2 DEF Running, TypeInv, Sound
<1>4. Listed(g) /\ (lost = 0 =>
         \A i \in 1..Len(grp[g].snaps), k \in Keys :
            <<i, k>> \notin grp[g].undo => Kept(g, i, k))
  BY <1>2, <1>3 DEF ExactInv, Exact
<1>5. CASE grp'[g].pc = "done"
  BY <1>5, <1>2, <1>3, RunExact DEF Running
<1>6. CASE RestoreRecord(g) /\ grp'[g].pc # "done"
  <2>1. PICK u \in grp[g].undo :
           /\ u[1] \in 1..Len(grp[g].snaps) /\ u[2] \in Keys /\ u = <<u[1], u[2]>>
           /\ PutBack(g, u) /\ lost' = lost
           /\ grp'[g].pc = "rollback" /\ grp'[g].snaps = grp[g].snaps
           /\ grp'[g].undo = grp[g].undo \ {u}
    BY <1>6, RestoreRecordEffect DEF Ended
  <2>. DEFINE m == grp[g].snaps[u[1]].node
              rec == grp[g].snaps[u[1]].recs[u[2]]
  <2>2. m \in Nodes /\ rec \in Records /\ rec \in Matching \cup {NoRec}
    BY <2>1, SnapFacts DEF TypeInv, Sound
  <2>3. /\ \A n \in Nodes : n # m => table'[n] = table[n]
        /\ \A l \in Keys : l # u[2] => table'[m][l] = table[m][l]
        /\ table'[m][u[2]] = rec
    <3>1. table' = [table EXCEPT ![m][u[2]] = rec]
      BY <2>1 DEF PutBack
    <3>. HIDE DEF m, rec
    <3>. QED
      BY <3>1, <2>1, <2>2, RecordEffect, ZenonT(30)
  <2>4. Listed(g)'
    BY <2>1, <1>1, <1>4 DEF Listed
  <2>5. ASSUME lost' = 0, NEW i \in 1..Len(grp[g].snaps), NEW k \in Keys,
               <<i, k>> \notin grp'[g].undo
        PROVE  Kept(g, i, k)'
    <3>1. CASE i = u[1] /\ k = u[2]
      BY <3>1, <2>1, <2>2, <2>3, ValuesAssumption DEF Kept, Answer
    <3>2. CASE ~(i = u[1] /\ k = u[2])
      <4>1. <<i, k>> # u
        BY <3>2, <2>1
      <4>2. Kept(g, i, k)
        BY <4>1, <2>1, <2>5, <1>4
      <4>3. table'[grp[g].snaps[i].node][k] = table[grp[g].snaps[i].node][k]
        <5>1. CASE i = u[1]
          BY <5>1, <3>2, <2>3
        <5>2. CASE i # u[1]
          <6>1. grp[g].snaps[i].node # m
            BY <5>2, <2>1, <1>4, ListedApart
          <6>2. grp[g].snaps[i].node \in Nodes
            BY SnapFacts
          <6>. QED
            BY <6>1, <6>2, <2>3
        <5>. QED
          BY <5>1, <5>2
      <4>. QED
        BY <4>2, <4>3, <2>1 DEF Kept, Answer
    <3>. QED
      BY <3>1, <3>2
  <2>6. Exact(g)'
    BY <2>1, <2>4, <2>5 DEF Exact
  <2>. QED
    BY <2>6, <1>2, <1>3, RunExact
<1>. QED
  BY <1>5, <1>6, RollbackDoneEffect DEF Ended

\* Every step keeps the snapshots exact, while one group operation runs at a time.
LEMMA ExactStep ==
    ASSUME MaxActive = 1
    PROVE  TypeInv /\ CompleteInv /\ ExactInv /\ [Next]_vars => ExactInv'
<1>. SUFFICES ASSUME TypeInv, CompleteInv, ExactInv, [Next]_vars, Writers' = {},
                     restarted' = {}
              PROVE  ExactInv'
  BY DEF ExactInv
<1>1. plan' = plan /\ Writers = {}
  <2>1. plan' = plan
    BY DEF Next, vars
  <2>. QED
    BY <2>1, PlanStays
<1>2. Nodes' = Nodes /\ Groups' = Groups /\ Cluster' = Cluster
  BY <1>1, PlanStays
<1>3. CASE UNCHANGED vars
  <2>1. grp' = grp /\ table' = table /\ schema' = schema /\ lost' = lost /\ restarted' = restarted
    BY <1>3 DEF vars
  <2>2. ASSUME NEW g \in Groups PROVE Exact(g)' = Exact(g)
    <3>1. Listed(g)' = Listed(g)
      BY <2>1, <1>2 DEF Listed
    <3>2. \A i \in 1..Len(grp[g].snaps), k \in Keys : Kept(g, i, k)' = Kept(g, i, k)
      BY <2>1 DEF Kept, Answer
    <3>. QED
      BY <3>1, <3>2, <2>1 DEF Exact
  <2>. QED
    BY <2>1, <2>2, <1>1, <1>2 DEF ExactInv
<1>4. CASE Next
  <2>1. ASSUME NEW g \in Groups, SearchVisit(g) \/ SearchDone(g) PROVE ExactInv'
    <3>1. /\ Others(g) /\ Quiet /\ grp[g].pc = "visit" /\ grp[g].kind # "delete_group"
          /\ Keeps(g)
      BY <2>1, SearchEffect
    <3>. QED
      BY <3>1, <1>1, RunExact DEF Running, Keeps, Quiet
  <2>2. ASSUME NEW g \in Groups, GroupStep(g) PROVE ExactInv'
    <3>1. restarted = {}
      BY <2>2 DEF GroupStep, SearchVisit, SearchDone, SnapshotVisit, SnapshotDone,
         DeleteVisit, DeleteDone, RestoreRecord, RollbackDone
    <3>. QED
      BY <1>1, <2>1, <2>2, <3>1, SnapshotExact, DeleteExact, RestoreExact DEF GroupStep
  <2>3. ASSUME NEW g \in Groups, NEW n \in Nodes, NEW kind \in Menu[g], GroupBegin(g, n, kind)
        PROVE  ExactInv'
    <3>1. \A h \in Groups : ~Running(grp[h].pc)
      BY <2>3, NoneRuns
    <3>2. /\ Others(g) /\ grp'[g].pc = "visit" /\ grp'[g].next = 1 /\ grp'[g].snaps = <<>>
      <4>1. grp[g].next = 1 /\ grp[g].snaps = <<>>
        BY <2>3 DEF GroupBegin, TypeInv, Sound
      <4>. QED
        BY <4>1, <2>3, BeginEffect
    <3>3. Exact(g)'
      BY <3>2, <1>2, PlanFacts DEF Exact, Listed, TypeInv, TypeOK
    <3>4. \A h \in Groups : h # g => ~Running(grp'[h].pc)
      BY <3>1, <3>2 DEF Others
    <3>5. UNCHANGED <<schema, restarted>>
      BY <2>3 DEF GroupBegin
    <3>. QED
      BY <3>3, <3>4, <3>5, <1>1, <1>2 DEF ExactInv
  <2>4. ASSUME NEW n \in Nodes, Restart(n) \/ AdoptSpace(n) PROVE ExactInv'
    <3>1. ~Restart(n)
      BY RestartEffect, <1>1
    <3>2. ~AdoptSpace(n)
      BY <1>1 DEF AdoptSpace, ExactInv
    <3>. QED
      BY <2>4, <3>1, <3>2
  <2>. QED
    BY <1>1, <1>4, <2>2, <2>3, <2>4 DEF Next
<1>. QED
  BY <1>3, <1>4

\* The snapshots are exact in every state without puts and restarts.
LEMMA ExactAlways ==
    ASSUME MaxActive = 1
    PROVE  Spec => [](TypeInv /\ CompleteInv /\ ExactInv)
<1>1. Init => TypeInv /\ CompleteInv /\ ExactInv
  BY InitType, InitComplete, InitExact
<1>2. TypeInv /\ CompleteInv /\ ExactInv /\ [Next]_vars
        => (TypeInv /\ CompleteInv /\ ExactInv)'
  BY TypeStep, CompleteStep, ExactStep
<1>. QED
  BY <1>1, <1>2, PTL DEF Spec

\* A delete-group that gives up and whose rollback ends without an error has put
\* back every record it removed, on every node, for every cluster and any number of
\* calls that fail before they arrive, when group operations run one at a time, no
\* puts run beside them, no answer was lost and no daemon restarted.
THEOREM FailuresRestore ==
    ASSUME MaxActive = 1, Separate
    PROVE  Spec => FailedDeleteGroupRestores
<1>. DEFINE Restores ==
       lost = 0 /\ restarted = {} =>
         \A g \in Groups :
            grp[g].pc = "rollback" /\ grp'[g].result = "err"
                => \A i \in 1..Len(grp[g].snaps) :
                      Matched(grp[g].snaps[i].node) = grp[g].snaps[i].recs
<1>1. TypeInv /\ CompleteInv /\ ExactInv /\ [Next]_vars => [Restores]_vars
  <2>. SUFFICES ASSUME TypeInv, CompleteInv, ExactInv, Next, lost = 0, restarted = {},
                       NEW g \in Groups, grp[g].pc = "rollback", grp'[g].result = "err",
                       NEW i \in 1..Len(grp[g].snaps)
                PROVE  Matched(grp[g].snaps[i].node) = grp[g].snaps[i].recs
    OBVIOUS
  <2>1. Running(grp[g].pc) /\ grp[g].kind = "delete_group" /\ grp[g].result = "none"
    BY DEF Running, TypeInv, Sound
  <2>2. Writers = {} /\ plan' = plan
    BY <2>1, NoPutsBesideDeletes DEF Next
  <2>3. grp[g].undo = {}
    <3>1. grp'[g] # grp[g]
      BY <2>1
    <3>2. ASSUME NEW h \in Groups, h # g PROVE ~Running(grp[h].pc)
      BY <2>1, <2>2, <3>2 DEF CompleteInv, OneRunning
    <3>3. ASSUME NEW h \in Groups, GroupStep(h) PROVE h = g /\ GroupStep(g)
      <4>1. Running(grp[h].pc)
        BY <3>3 DEF GroupStep, SearchVisit, SearchDone, SnapshotVisit, SnapshotDone,
           DeleteVisit, DeleteDone, RestoreRecord, RollbackDone, Running
      <4>. QED
        BY <4>1, <3>2, <3>3
    <3>4. ASSUME NEW h \in Groups, NEW n \in Nodes, NEW kind \in Menu[h],
                 GroupBegin(h, n, kind)
          PROVE  FALSE
      <4>1. h # g
        BY <3>4 DEF GroupBegin
      <4>. QED
        BY <4>1, <3>1, <3>4, BeginEffect DEF Others
    <3>5. ASSUME NEW n \in Nodes, Restart(n) \/ AdoptSpace(n) PROVE FALSE
      <4>1. grp'[g] = grp[g] \/ grp'[g].result = "crashed"
        BY <2>2, <3>5, RestartEffect DEF AdoptSpace
      <4>. QED
        BY <4>1, <3>1
    <3>6. GroupStep(g)
      BY <2>2, <3>3, <3>4, <3>5 DEF Next
    <3>7. RestoreRecord(g) \/ RollbackDone(g)
      BY <3>6 DEF GroupStep, SearchVisit, SearchDone, SnapshotVisit, SnapshotDone,
         DeleteVisit, DeleteDone
    <3>8. ~RestoreRecord(g)
      <4>1. RestoreRecord(g) =>
              grp'[g].result = grp[g].result \/ grp'[g].result = "rollback_failed"
        <5>. SUFFICES ASSUME RestoreRecord(g)
                      PROVE  grp'[g].result = grp[g].result \/ grp'[g].result = "rollback_failed"
          OBVIOUS
        <5>1. PICK u : \/ grp' = [grp EXCEPT ![g].undo = @ \ {u}]
                       \/ GroupEnds(g, "rollback_failed", 0)
          BY DEF RestoreRecord
        <5>. QED
          BY <5>1, UndoEffect, EndsEffect DEF Ended
      <4>. QED
        BY <4>1, <2>1
    <3>. QED
      BY <3>7, <3>8, RollbackDoneEffect
  <2>4. \A k \in Keys : Kept(g, i, k)
    BY <2>1, <2>2, <2>3 DEF ExactInv, Exact
  <2>5. grp[g].snaps[i].recs \in [Keys -> Records]
    BY SnapFacts DEF Snapshot
  <2>. QED
    BY <2>4, <2>5 DEF Matched, Kept, Answer
<1>2. FailedDeleteGroupRestores <=> [][Restores]_vars
  BY PTL DEF FailedDeleteGroupRestores
<1>. HIDE DEF Restores
<1>. QED
  BY <1>1, <1>2, ExactAlways, PTL DEF Spec
-------------------------------------------------------------------------------
(* A delete-group counts each record once                                     *)

\* Only the replicas of a key hold a record for it, now or in a snapshot.
Placed ==
    /\ \A n \in Nodes, k \in Keys : table[n][k] # NoRec => n \in HomeOf(k)
    /\ \A g \in Groups : \A i \in 1..Len(grp[g].snaps), k \in Keys :
          grp[g].snaps[i].recs[k] # NoRec => grp[g].snaps[i].node \in HomeOf(k)

\* The records a delete-group found, and what it has counted so far: each snapshot
\* it went through adds the records that all of the snapshots hold.
Sought(g) == Cardinality(KeysOf(grp[g].snaps[1].recs))
Counted(g) ==
    /\ grp[g].pc = "visit" => grp[g].total = 0
    /\ grp[g].pc = "delete" =>
          /\ Len(grp[g].snaps) = Len(Cluster) /\ SnapshotsAgree(grp[g].snaps)
          /\ grp[g].total = (grp[g].next - 1) * Sought(g)
    /\ grp[g].pc = "done" /\ grp[g].result = "ok" => grp[g].count = Sought(g)

CountInv ==
    Writers = {} /\ restarted = {} =>
        Placed /\ \A g \in Groups : grp[g].kind = "delete_group" => Counted(g)

\* Nothing is counted, and the first records are where their replicas are.
LEMMA InitCount == Init => CountInv
  BY DEF Init, CountInv, Placed, Counted

\* A step of the running operation g.
LEMMA RunCount ==
    ASSUME TypeInv, CountInv, Writers = {}, restarted = {}, plan' = plan,
           NEW g \in Groups, Others(g), Keeps(g),
           \A n \in Nodes, k \in Keys : table'[n][k] # NoRec => n \in HomeOf(k),
           \A i \in 1..Len(grp'[g].snaps), k \in Keys :
              grp'[g].snaps[i].recs[k] # NoRec => grp'[g].snaps[i].node \in HomeOf(k),
           grp[g].kind = "delete_group" => Counted(g)'
    PROVE  CountInv'
<1>1. Nodes' = Nodes /\ Groups' = Groups /\ Cluster' = Cluster /\ \A k : HomeOf(k)' = HomeOf(k)
  BY PlanStays
<1>2. Placed'
  BY <1>1 DEF CountInv, Placed, Others
<1>3. ASSUME NEW h \in Groups, h # g, grp'[h].kind = "delete_group" PROVE Counted(h)'
  <2>1. grp'[h] = grp[h] /\ Counted(h)
    BY <1>3 DEF Others, CountInv
  <2>. QED
    BY <2>1, <1>1 DEF Counted, Sought
<1>. QED
  BY <1>1, <1>2, <1>3 DEF CountInv, Keeps

\* The nodes are as many as the positions of the list.
LEMMA NodesCount ==
    ASSUME plan \in DOMAIN Plans
    PROVE  Cardinality(Nodes) = Len(Cluster)
<1>1. Len(Cluster) \in Nat /\ \A i, j \in 1..Len(Cluster) : Cluster[i] = Cluster[j] => i = j
  BY PlanFacts
<1>2. Cluster \in [1..Len(Cluster) -> Nodes]
  BY PlanFacts
<1>3. \A n \in Nodes : \E i \in 1..Len(Cluster) : Cluster[i] = n
  BY DEF Nodes
<1>4. Cluster \in Bijection(1..Len(Cluster), Nodes)
  BY <1>1, <1>2, <1>3 DEF Bijection, Injection, Surjection, IsInjective
<1>5. ExistsBijection(1..Len(Cluster), Nodes)
  BY <1>4 DEF ExistsBijection
<1>6. IsFiniteSet(1..Len(Cluster)) /\ Cardinality(1..Len(Cluster)) = Len(Cluster)
  <2> DEFINE len == Len(Cluster)
  <2>1. len \in Nat /\ len \in Int /\ 1 \in Int
    BY <1>1
  <2> HIDE DEF len
  <2>2. IsFiniteSet(1..len) /\ Cardinality(1..len) = IF 1 > len THEN 0 ELSE len - 1 + 1
    BY <2>1, FS_Interval
  <2>3. IsFiniteSet(1..len) /\ Cardinality(1..len) = len
    BY <2>1, <2>2
  <2>. QED
    BY <2>3 DEF len
<1>. QED
  BY <1>5, <1>6, FS_Bijection

\* The snapshots that agree are those of all nodes, and nothing is counted yet.
LEMMA SnapshotCount ==
    ASSUME TypeInv, ExactInv, CountInv, Writers = {}, restarted = {}, plan' = plan,
           NEW g \in Groups, SnapshotVisit(g) \/ SnapshotDone(g)
    PROVE  CountInv'
<1>1. Cluster' = Cluster
  BY PlanStays
<1>2. Others(g) /\ table' = table /\ grp[g].pc = "visit" /\ grp[g].kind = "delete_group"
  BY SnapshotVisitEffect, SnapshotDoneEffect DEF Quiet
<1>3. /\ \A n \in Nodes, k \in Keys : table[n][k] # NoRec => n \in HomeOf(k)
      /\ \A i \in 1..Len(grp[g].snaps), k \in Keys :
            grp[g].snaps[i].recs[k] # NoRec => grp[g].snaps[i].node \in HomeOf(k)
      /\ grp[g].total = 0
  BY <1>2 DEF CountInv, Placed, Counted
<1>4. CASE Ended(g, "err")
  BY <1>2, <1>3, <1>4, RunCount DEF Ended, Counted
<1>5. CASE SnapshotVisit(g) /\ ~Ended(g, "err")
  <2>1. /\ Visited(g) /\ Here(g) \in Nodes /\ grp'[g].total = grp[g].total
        /\ \/ /\ Len(grp'[g].snaps) = Len(grp[g].snaps) + 1
              /\ \A i \in 1..Len(grp[g].snaps) : grp'[g].snaps[i] = grp[g].snaps[i]
              /\ grp'[g].snaps[Len(grp[g].snaps) + 1].node = Here(g)
              /\ grp'[g].snaps[Len(grp[g].snaps) + 1].recs = Matched(Here(g))
           \/ grp'[g].snaps = grp[g].snaps
    BY <1>5, SnapshotVisitEffect
  <2>2. ASSUME NEW i \in 1..Len(grp'[g].snaps), NEW k \in Keys,
               grp'[g].snaps[i].recs[k] # NoRec
        PROVE  grp'[g].snaps[i].node \in HomeOf(k)
    <3>1. \/ i \in 1..Len(grp[g].snaps) /\ grp'[g].snaps[i] = grp[g].snaps[i]
          \/ grp'[g].snaps[i].node = Here(g) /\ grp'[g].snaps[i].recs = Matched(Here(g))
      BY <2>1, SnapFacts
    <3>2. CASE grp'[g].snaps[i].node = Here(g) /\ grp'[g].snaps[i].recs = Matched(Here(g))
      <4>1. Matched(Here(g))[k] # NoRec
        BY <3>2, <2>2
      <4>2. table[Here(g)][k] # NoRec
        BY <4>1 DEF Matched
      <4>. QED
        BY <4>2, <3>2, <2>1, <1>3
    <3>. QED
      BY <3>1, <3>2, <2>2, <1>3
  <2>3. Counted(g)'
    BY <2>1, <1>2, <1>3 DEF Counted, Visited
  <2>. QED
    BY <2>1, <2>2, <2>3, <1>2, <1>3, RunCount DEF Visited
<1>6. CASE SnapshotDone(g) /\ ~Ended(g, "err")
  <2>1. /\ Keeps(g) /\ grp'[g].pc = "delete" /\ grp'[g].next = 1
        /\ grp'[g].snaps = grp[g].snaps /\ grp'[g].total = grp[g].total
        /\ SnapshotsAgree(grp[g].snaps) /\ grp[g].next > Len(Cluster)
    BY <1>6, SnapshotDoneEffect
  <2>2. Len(grp[g].snaps) <= Len(Cluster) /\ Len(grp[g].snaps) = grp[g].next - 1
    BY <1>2 DEF ExactInv, Exact, Listed, Running
  <2>3. Len(grp[g].snaps) = Len(Cluster)
    BY <2>1, <2>2, SnapFacts, PlanFacts DEF TypeInv, TypeOK
  <2>4. Sought(g)' \in Nat
    BY KeysCount DEF Sought
  <2>5. grp'[g].total = (grp'[g].next - 1) * Sought(g)'
    BY <2>1, <2>4, <1>3
  <2>6. SnapshotsAgree(grp[g].snaps)'
    BY <2>1 DEF SnapshotsAgree
  <2>7. Counted(g)'
    BY <2>1, <2>3, <2>5, <2>6, <1>1 DEF Counted
  <2>. QED
    BY <2>1, <2>7, <1>2, <1>3, RunCount
<1>. QED
  BY <1>4, <1>5, <1>6

\* Each deletion counts the records the snapshots agree on; after the last one their
\* number times the nodes is the total.
LEMMA DeleteCount ==
    ASSUME FullyReplicated, TypeInv, ExactInv, CountInv, Writers = {}, restarted = {},
           plan' = plan, NEW g \in Groups, DeleteVisit(g) \/ DeleteDone(g)
    PROVE  CountInv'
<1>1. Cluster' = Cluster /\ plan \in DOMAIN Plans
  BY PlanStays DEF TypeInv, TypeOK
<1>2. Others(g) /\ grp[g].pc = "delete" /\ grp[g].kind = "delete_group"
  BY DeleteVisitEffect, DeleteDoneEffect
<1>3. /\ \A n \in Nodes, k \in Keys : table[n][k] # NoRec => n \in HomeOf(k)
      /\ \A i \in 1..Len(grp[g].snaps), k \in Keys :
            grp[g].snaps[i].recs[k] # NoRec => grp[g].snaps[i].node \in HomeOf(k)
  BY DEF CountInv, Placed
<1>4. /\ Len(grp[g].snaps) = Len(Cluster) /\ SnapshotsAgree(grp[g].snaps)
      /\ grp[g].total = (grp[g].next - 1) * Sought(g)
  BY <1>2 DEF CountInv, Counted
<1>5. /\ Listed(g)
      /\ \A i \in 1..Len(grp[g].snaps), k \in Keys : i >= grp[g].next => Kept(g, i, k)
  <2>1. Exact(g)
    BY <1>2 DEF ExactInv, Running
  <2>2. \A i \in 1..Len(grp[g].snaps) : i >= grp[g].next => ~(i < grp[g].next)
    BY SnapFacts
  <2>. QED
    BY <2>1, <2>2, <1>2 DEF Exact
<1>6. /\ Len(Cluster) \in Nat /\ Len(Cluster) > 0 /\ grp[g].next \in Nat
      /\ grp[g].total \in Nat /\ Sought(g) \in Nat
  BY <1>1, PlanFacts, SnapFacts, KeysCount DEF Sought
<1>7. \A n \in Nodes, k \in Keys : table'[n][k] # NoRec => n \in HomeOf(k)
  <2>1. CASE table' = table
    BY <2>1, <1>3
  <2>2. CASE There(g) \in Nodes /\ Emptied(There(g))
    BY <2>2, <1>3, EmptiedEffect
  <2>. QED
    BY <2>1, <2>2, DeleteVisitEffect, DeleteDoneEffect DEF Quiet
<1>8. CASE grp'[g].pc = "rollback" /\ Keeps(g) /\ grp'[g].snaps = grp[g].snaps
  BY <1>2, <1>3, <1>7, <1>8, RunCount DEF Counted
<1>9. CASE DeleteVisit(g) /\ Visited(g)
  <2>1. /\ grp[g].next \in 1..Len(grp[g].snaps) /\ There(g) \in Nodes
        /\ grp'[g].snaps = grp[g].snaps
        /\ grp'[g].total = grp[g].total + Cardinality(KeysOf(Matched(There(g))))
    BY <1>2, <1>9, DeleteVisitEffect DEF RolledBack, Visited
  <2>2. KeysOf(Matched(There(g))) = KeysOf(grp[g].snaps[1].recs)
    <3>1. \A k \in Keys : Kept(g, grp[g].next, k)
      BY <2>1, <1>5, <1>6
    <3>2. grp[g].snaps[grp[g].next].recs = grp[g].snaps[1].recs
      BY <2>1, <1>4 DEF SnapshotsAgree
    <3>3. \A k \in Keys : Matched(There(g))[k] = grp[g].snaps[1].recs[k]
      BY <3>1, <3>2 DEF Matched, Kept, Answer, There
    <3>. QED
      BY <3>3 DEF KeysOf
  <2>3. grp'[g].total = (grp[g].next - 1) * Sought(g) + Sought(g)
    BY <2>1, <2>2, <1>4 DEF Sought
  <2>4. grp'[g].total = grp[g].next * Sought(g)
    <3>1. \A a, c \in Nat : (a - 1) * c + c = a * c
      OBVIOUS
    <3>. QED
      BY <3>1, <2>3, <1>6
  <2>5. grp'[g].next - 1 = grp[g].next /\ grp'[g].pc = "delete" /\ Keeps(g)
    BY <1>2, <1>6, <1>9 DEF Visited
  <2>6. Sought(g)' = Sought(g) /\ SnapshotsAgree(grp[g].snaps)'
    BY <2>1, <1>4 DEF Sought, SnapshotsAgree
  <2>7. Counted(g)'
    BY <2>1, <2>4, <2>5, <2>6, <1>1, <1>4 DEF Counted
  <2>. QED
    BY <2>1, <2>5, <2>7, <1>2, <1>3, <1>7, RunCount
<1>10. CASE DeleteDone(g) /\ Ended(g, "ok")
  <2>1. /\ grp[g].next = Len(grp[g].snaps) + 1 /\ Ended(g, "ok")
        /\ grp'[g].count = LogicalCount(grp[g].total)
    BY <1>10, DeleteDoneEffect DEF RolledBack, Ended
  <2>2. grp[g].total = Len(Cluster) * Sought(g)
    BY <2>1, <1>4, <1>6
  <2>3. ASSUME Sought(g) = 0 PROVE LogicalCount(grp[g].total) = Sought(g)
    <3>1. grp[g].total = 0
      BY <2>2, <2>3, <1>6
    <3>2. LogicalCount(grp[g].total) = 0
      BY <3>1, CountAssumption DEF LogicalCount
    <3>. QED
      BY <3>2, <2>3
  <2>4. ASSUME Sought(g) # 0 PROVE LogicalCount(grp[g].total) = Sought(g)
    <3>1. PICK k \in Keys : grp[g].snaps[1].recs[k] # NoRec
      BY <2>4, FS_EmptySet DEF Sought, KeysOf
    <3>2. \A n \in Nodes : n \in HomeOf(k)
      <4>. SUFFICES ASSUME NEW i \in 1..Len(Cluster) PROVE Cluster[i] \in HomeOf(k)
        BY DEF Nodes
      <4>1. i \in 1..Len(grp[g].snaps) /\ grp[g].snaps[i].node = Cluster[i]
        BY <1>4, <1>5 DEF Listed
      <4>2. grp[g].snaps[i].recs = grp[g].snaps[1].recs
        BY <4>1, <1>4 DEF SnapshotsAgree
      <4>. QED
        BY <4>1, <4>2, <3>1, <1>3
    <3>3. HomeOf(k) = Nodes
      BY <3>2, <1>1, KeyFacts
    <3>4. Cardinality(HomeOf(k)) = ReplicaFactor
      BY <1>1 DEF FullyReplicated, HomeOf, Home
    <3>5. Len(Cluster) = ReplicaFactor
      BY <3>3, <3>4, <1>1, NodesCount
    <3>6. \A r \in Nat \ {0}, c \in Nat : (r * c) \div r = c
      OBVIOUS
    <3>. QED
      BY <3>5, <3>6, <2>2, <1>6, CountAssumption DEF LogicalCount
  <2>5. LogicalCount(grp[g].total) = Sought(g)
    BY <2>3, <2>4
  <2>6. Sought(g)' = Sought(g)
    BY <2>1 DEF Ended, Sought
  <2>7. Counted(g)'
    BY <2>1, <2>5, <2>6 DEF Counted, Ended
  <2>. QED
    BY <2>1, <2>7, <1>2, <1>3, <1>7, RunCount DEF Ended
<1>. QED
  BY <1>8, <1>9, <1>10, DeleteVisitEffect, DeleteDoneEffect DEF RolledBack

\* A rollback counts nothing, and puts a record back only where it was.
LEMMA RestoreCount ==
    ASSUME TypeInv, CountInv, Writers = {}, restarted = {}, plan' = plan,
           NEW g \in Groups, RestoreRecord(g) \/ RollbackDone(g)
    PROVE  CountInv'
<1>1. Others(g)
  BY RestoreRecordEffect, RollbackDoneEffect
<1>2. /\ \A n \in Nodes, k \in Keys : table[n][k] # NoRec => n \in HomeOf(k)
      /\ \A i \in 1..Len(grp[g].snaps), k \in Keys :
            grp[g].snaps[i].recs[k] # NoRec => grp[g].snaps[i].node \in HomeOf(k)
  BY DEF CountInv, Placed
<1>3. /\ Keeps(g) /\ grp'[g].snaps = grp[g].snaps
      /\ grp'[g].pc = "rollback" \/ (grp'[g].pc = "done" /\ grp'[g].result # "ok")
  BY RestoreRecordEffect, RollbackDoneEffect DEF Ended
<1>4. Counted(g)'
  BY <1>3 DEF Counted
<1>5. \A n \in Nodes, k \in Keys : table'[n][k] # NoRec => n \in HomeOf(k)
  <2>1. CASE table' = table
    BY <2>1, <1>2
  <2>2. CASE \E u \in grp[g].undo :
                u[1] \in 1..Len(grp[g].snaps) /\ u[2] \in Keys /\ PutBack(g, u)
    <3>1. PICK u \in grp[g].undo :
                u[1] \in 1..Len(grp[g].snaps) /\ u[2] \in Keys /\ PutBack(g, u)
      BY <2>2
    <3>. DEFINE m == grp[g].snaps[u[1]].node
                rec == grp[g].snaps[u[1]].recs[u[2]]
    <3>2. m \in Nodes /\ rec \in Records /\ (rec # NoRec => m \in HomeOf(u[2]))
      BY <3>1, <1>2, SnapFacts
    <3>3. table' = [table EXCEPT ![m][u[2]] = rec]
      BY <3>1 DEF PutBack
    <3>. HIDE DEF m, rec
    <3>4. /\ \A n \in Nodes : n # m => table'[n] = table[n]
          /\ \A l \in Keys : l # u[2] => table'[m][l] = table[m][l]
          /\ table'[m][u[2]] = rec
      BY <3>1, <3>2, <3>3, RecordEffect, ZenonT(30)
    <3>. QED
      BY <3>2, <3>4, <1>2
  <2>. QED
    BY <2>1, <2>2, RestoreRecordEffect, RollbackDoneEffect DEF Quiet
<1>. QED
  BY <1>1, <1>2, <1>3, <1>4, <1>5, RunCount

\* Every step keeps the count that of the records found, while one group operation
\* runs at a time.
LEMMA CountStep ==
    ASSUME MaxActive = 1, FullyReplicated
    PROVE  TypeInv /\ ExactInv /\ CountInv /\ [Next]_vars => CountInv'
<1>. SUFFICES ASSUME TypeInv, ExactInv, CountInv, [Next]_vars, Writers' = {},
                     restarted' = {}
              PROVE  CountInv'
  BY DEF CountInv
<1>1. plan' = plan /\ Writers = {}
  <2>1. plan' = plan
    BY DEF Next, vars
  <2>. QED
    BY <2>1, PlanStays
<1>2. /\ Nodes' = Nodes /\ Groups' = Groups /\ Cluster' = Cluster
      /\ \A k : HomeOf(k)' = HomeOf(k)
  BY <1>1, PlanStays
<1>3. CASE UNCHANGED vars
  <2>1. Placed <=> Placed'
    BY <1>2, <1>3 DEF vars, Placed
  <2>2. \A g \in Groups : Counted(g) <=> Counted(g)'
    BY <1>2, <1>3 DEF vars, Counted, Sought
  <2>. QED
    BY <2>1, <2>2, <1>1, <1>2, <1>3 DEF vars, CountInv
<1>4. CASE Next
  <2>1. ASSUME NEW g \in Groups, SearchVisit(g) \/ SearchDone(g), restarted = {}
        PROVE  CountInv'
    <3>1. /\ Others(g) /\ Quiet /\ grp[g].kind # "delete_group" /\ Keeps(g)
          /\ grp'[g].snaps = grp[g].snaps
      BY <2>1, SearchEffect
    <3>. QED
      BY <3>1, <2>1, <1>1, RunCount DEF Quiet, CountInv, Placed
  <2>2. ASSUME NEW g \in Groups, GroupStep(g) PROVE CountInv'
    <3>1. restarted = {}
      BY <2>2 DEF GroupStep, SearchVisit, SearchDone, SnapshotVisit, SnapshotDone,
         DeleteVisit, DeleteDone, RestoreRecord, RollbackDone
    <3>. QED
      BY <1>1, <2>1, <2>2, <3>1, SnapshotCount, DeleteCount, RestoreCount DEF GroupStep
  <2>3. ASSUME NEW g \in Groups, NEW n \in Nodes, NEW kind \in Menu[g], GroupBegin(g, n, kind)
        PROVE  CountInv'
    <3>1. /\ Others(g) /\ grp'[g].pc = "visit" /\ grp'[g].total = 0 /\ grp'[g].snaps = <<>>
      <4>1. grp[g].total = 0 /\ grp[g].snaps = <<>>
        BY <2>3 DEF GroupBegin, TypeInv, Sound
      <4>. QED
        BY <4>1, <2>3, BeginEffect
    <3>2. UNCHANGED <<table, restarted>>
      BY <2>3 DEF GroupBegin
    <3>3. Placed'
      BY <3>1, <3>2, <1>1, <1>2 DEF CountInv, Placed, Others
    <3>4. Counted(g)'
      BY <3>1 DEF Counted
    <3>5. ASSUME NEW h \in Groups, h # g, grp'[h].kind = "delete_group" PROVE Counted(h)'
      <4>1. grp'[h] = grp[h] /\ Counted(h)
        BY <3>1, <3>2, <3>5, <1>1 DEF Others, CountInv
      <4>. QED
        BY <4>1, <1>2 DEF Counted, Sought
    <3>. QED
      BY <3>3, <3>4, <3>5, <1>2 DEF CountInv
  <2>4. ASSUME NEW n \in Nodes, Restart(n) \/ AdoptSpace(n) PROVE CountInv'
    <3>1. ~Restart(n)
      BY RestartEffect, <1>1
    <3>2. ~AdoptSpace(n)
      BY <1>1 DEF AdoptSpace, ExactInv
    <3>. QED
      BY <2>4, <3>1, <3>2
  <2>. QED
    BY <1>1, <1>4, <2>2, <2>3, <2>4 DEF Next
<1>. QED
  BY <1>3, <1>4

\* A delete-group that reports success while no daemon restarted counts each record
\* it removed once, and not its copies, for every cluster that keeps as many copies
\* of a key as the replica factor says: were the list longer, the snapshots would
\* not agree on a record, and the operation would have failed.
THEOREM CountsAreLogical ==
    ASSUME MaxActive = 1, Separate, FullyReplicated
    PROVE  Spec => []DeletedCountIsLogical
<1>1. Init => CountInv
  BY InitCount
<1>2. TypeInv /\ CompleteInv /\ ExactInv /\ CountInv /\ [Next]_vars => CountInv'
  BY CountStep
<1>3. TypeInv /\ CountInv => DeletedCountIsLogical
  <2>. SUFFICES ASSUME TypeInv, CountInv, restarted = {}, NEW g \in Groups,
                       Done(g, "delete_group", "ok")
                PROVE  grp[g].count = Cardinality(KeysOf(grp[g].snaps[1].recs))
    BY DEF DeletedCountIsLogical
  <2>1. Writers = {}
    BY NoPutsBesideDeletes DEF Done
  <2>. QED
    BY <2>1 DEF CountInv, Counted, Sought, Done
<1>. QED
  BY <1>1, <1>2, <1>3, ExactAlways, PTL DEF Spec

-------------------------------------------------------------------------------
(* A search finds what was acknowledged before it began: the proof.           *)
(*                                                                            *)
(* Where there are puts there are no delete-groups (Separate), so that a      *)
(* record is changed by the one put of its key and by restarts only.  The     *)
(* invariant follows the value of a put to its replicas, and from each        *)
(* replica a search visits into the records the search has found.             *)

\* The node holds what w wrote, or lost it in a restart.
Stored(w, n) == n \in restarted \/ table[n][KeyOf(w)] = PutOf[w].value

\* A put has written the replicas it went through, all of them once acknowledged.
Spread(w) ==
    /\ put[w].pc = "replicate" =>
          \A i \in 1..Len(Home[KeyOf(w)]) : i < put[w].next => Stored(w, Home[KeyOf(w)][i])
    /\ put[w].result = "ok" => \A n \in HomeOf(KeyOf(w)) : Stored(w, n)

\* What the search g must have found at n.
Sees(g, w, n) ==
    PutOf[w].value \in Matching /\ n \in HomeOf(KeyOf(w)) /\ n \notin grp[g].skipped \cup restarted
        => grp[g].found[KeyOf(w)] = PutOf[w].value

\* A search has found the values of the nodes it went through.
Gathered(g) ==
    grp[g].pc # "new" => \A w \in grp[g].acked :
        /\ put[w].result = "ok"
        /\ grp[g].pc = "visit" =>
              \A i \in 1..Len(Cluster) : i < grp[g].next => Sees(g, w, Cluster[i])
        /\ grp[g].pc = "done" /\ grp[g].result = "ok" => \A n \in Nodes : Sees(g, w, n)

SearchInv ==
    Writers # {} => /\ \A w \in Writers : Spread(w)
                    /\ \A g \in Groups : Gathered(g)

\* Nothing was written and nothing searched.
LEMMA InitSearch == Init => SearchInv
  BY DEF Init, SearchInv, Spread, Gathered

\* Beside puts only searches and counts begin.
LEMMA OnlySearches ==
    ASSUME TypeInv, Separate, Writers # {}, NEW g \in Groups
    PROVE  /\ "delete_group" \notin Menu[g]
           /\ grp[g].pc # "new" => grp[g].kind # "delete_group"
<1>1. plan \in DOMAIN Plans
  BY DEF TypeInv, TypeOK
<1>2. "delete_group" \notin Menu[g]
  BY <1>1 DEF Separate, Menu, Groups, Writers, PutOf
<1>. QED
  BY <1>2 DEF TypeInv, Sound

\* A visit merges the answer of its node, leaves the node out, or ends the search.
LEMMA SearchVisitEffect ==
    ASSUME TypeInv, NEW g \in Groups, SearchVisit(g)
    PROVE  /\ Others(g) /\ grp[g].pc = "visit"
           /\ grp[g].next \in 1..Len(Cluster) /\ Here(g) \in Nodes
           /\ \/ /\ ~Disagree(grp[g].found, Matched(Here(g))) /\ Visited(g)
                 /\ grp'[g].skipped = grp[g].skipped
                 /\ grp'[g].found = Merge(grp[g].found, Matched(Here(g)))
              \/ /\ Visited(g) /\ grp'[g].skipped = grp[g].skipped \cup {Here(g)}
                 /\ grp'[g].found = grp[g].found
              \/ Ended(g, "err")
<1>1. grp[g].pc = "visit" /\ grp[g].next <= Len(Cluster)
  BY DEF SearchVisit
<1>2. grp[g].next \in 1..Len(Cluster)
  BY <1>1, SnapFacts, PlanFacts DEF TypeInv, TypeOK, Sound
<1>3. Here(g) \in Nodes
  BY <1>2, PlanFacts DEF TypeInv, TypeOK, Here
<1>. DEFINE found == Merge(grp[g].found, Matched(Here(g)))
<1>4. found \in Snapshot
  BY <1>3, MatchedType, ZenonT(30) DEF Merge, Snapshot, GroupType, TypeInv, TypeOK
<1>5. \/ /\ ~Disagree(grp[g].found, Matched(Here(g)))
         /\ grp' = [grp EXCEPT ![g].next = @ + 1, ![g].found = found]
      \/ Skip(g, Here(g))
      \/ GroupEnds(g, "err", 0)
  BY DEF SearchVisit, Here
<1>. HIDE DEF found
<1>6. CASE grp' = [grp EXCEPT ![g].next = @ + 1, ![g].found = found]
           /\ ~Disagree(grp[g].found, Matched(Here(g)))
  BY <1>1, <1>2, <1>3, <1>4, <1>6, FoundEffect DEF found
<1>7. CASE Skip(g, Here(g))
  BY <1>1, <1>2, <1>3, <1>7, SkipEffect
<1>8. CASE GroupEnds(g, "err", 0)
  BY <1>1, <1>2, <1>3, <1>8, EndsEffect
<1>. QED
  BY <1>5, <1>6, <1>7, <1>8

\* After the last node a search answers with what it found, unless it left all the
\* nodes out.
LEMMA SearchDoneEffect ==
    ASSUME TypeInv, NEW g \in Groups, SearchDone(g)
    PROVE  /\ Others(g) /\ grp[g].pc = "visit" /\ grp[g].next > Len(Cluster)
           /\ Ended(g, "ok") \/ Ended(g, "err")
<1>1. grp[g].pc = "visit" /\ grp[g].next > Len(Cluster)
  BY DEF SearchDone
<1>2. \E result \in {"ok", "err"}, count \in Nat : GroupEnds(g, result, count)
  BY KeysCount DEF SearchDone
<1>. QED
  BY <1>1, <1>2, EndsEffect

\* A step of g that leaves the puts, the tables and the restarted nodes alone.
LEMMA GroupSearch ==
    ASSUME SearchInv, Writers # {}, NEW g \in Groups, Others(g),
           UNCHANGED <<plan, table, put, restarted>>, Gathered(g)'
    PROVE  SearchInv'
<1>1. /\ Groups' = Groups /\ Writers' = Writers /\ Home' = Home /\ PutOf' = PutOf
      /\ Cluster' = Cluster /\ Nodes' = Nodes
      /\ \A k : HomeOf(k)' = HomeOf(k) /\ \A w : KeyOf(w)' = KeyOf(w)
  BY PlanStays
<1>2. \A w \in Writers : Spread(w)'
  BY <1>1 DEF SearchInv, Spread, Stored
<1>3. ASSUME NEW h \in Groups, h # g PROVE Gathered(h)'
  <2>1. grp'[h] = grp[h] /\ Gathered(h)
    BY <1>3 DEF Others, SearchInv
  <2>2. \A w, n : Sees(h, w, n) => Sees(h, w, n)'
    BY <2>1, <1>1 DEF Sees
  <2>. QED
    BY <2>1, <2>2, <1>1 DEF Gathered
<1>. QED
  BY <1>1, <1>2, <1>3 DEF SearchInv

\* A search finds at each node the acknowledged values the node holds.
LEMMA VisitSearch ==
    ASSUME TypeInv, SearchInv, Writers # {}, plan' = plan, NEW g \in Groups,
           SearchVisit(g) \/ SearchDone(g)
    PROVE  SearchInv'
<1>1. /\ PutOf' = PutOf /\ Cluster' = Cluster /\ Nodes' = Nodes
      /\ \A k : HomeOf(k)' = HomeOf(k) /\ \A w : KeyOf(w)' = KeyOf(w)
  BY PlanStays
<1>2. UNCHANGED <<table, put, restarted>>
  BY DEF SearchVisit, SearchDone
<1>3. Others(g) /\ grp[g].pc = "visit" /\ Keeps(g)
  BY SearchEffect
<1>4. /\ \A w \in grp[g].acked : put[w].result = "ok"
      /\ \A w \in grp[g].acked, i \in 1..Len(Cluster) :
            i < grp[g].next => Sees(g, w, Cluster[i])
  BY <1>3 DEF SearchInv, Gathered
<1>5. grp[g].acked \subseteq Writers
  BY DEF TypeInv, TypeOK, GroupType
<1>6. CASE Ended(g, "err")
  <2>1. Gathered(g)'
    BY <1>2, <1>4, <1>6 DEF Gathered, Ended, Keeps
  <2>. QED
    BY <2>1, <1>2, <1>3, GroupSearch
<1>7. CASE SearchVisit(g) /\ ~Ended(g, "err")
  <2>1. /\ grp[g].next \in 1..Len(Cluster) /\ Here(g) \in Nodes /\ Visited(g)
        /\ \/ /\ ~Disagree(grp[g].found, Matched(Here(g)))
              /\ grp'[g].skipped = grp[g].skipped
              /\ grp'[g].found = Merge(grp[g].found, Matched(Here(g)))
           \/ /\ grp'[g].skipped = grp[g].skipped \cup {Here(g)}
              /\ grp'[g].found = grp[g].found
    BY <1>7, SearchVisitEffect
  <2>2. ASSUME NEW w \in grp[g].acked, NEW n \in Nodes,
               Sees(g, w, n) \/ n = Here(g)
        PROVE  Sees(g, w, n)'
    <3>. SUFFICES ASSUME PutOf[w].value \in Matching, n \in HomeOf(KeyOf(w)),
                         n \notin grp'[g].skipped \cup restarted
                  PROVE  grp'[g].found[KeyOf(w)] = PutOf[w].value
      BY <1>1, <1>2 DEF Sees
    <3>1. /\ KeyOf(w) \in Keys /\ PutOf[w].value # NoRec /\ w \in Writers
      BY <1>5, KeyFacts, ValuesAssumption DEF TypeInv, TypeOK
    <3>2. n \notin grp[g].skipped \cup restarted
      BY <2>1
    <3>3. CASE Sees(g, w, n)
      <4>1. grp[g].found[KeyOf(w)] = PutOf[w].value
        BY <3>2, <3>3 DEF Sees
      <4>. QED
        BY <4>1, <3>1, <2>1 DEF Merge
    <3>4. CASE n = Here(g)
      <4>1. table[n][KeyOf(w)] = PutOf[w].value
        BY <3>1, <3>2, <1>4 DEF SearchInv, Spread, Stored
      <4>2. Matched(Here(g))[KeyOf(w)] = PutOf[w].value
        BY <4>1, <3>1, <3>4 DEF Matched
      <4>3. /\ ~Disagree(grp[g].found, Matched(Here(g)))
            /\ grp'[g].found = Merge(grp[g].found, Matched(Here(g)))
        BY <2>1, <3>4
      <4>. QED
        BY <4>2, <4>3, <3>1 DEF Disagree, Merge
    <3>. QED
      BY <2>2, <3>3, <3>4
  <2>3. ASSUME NEW w \in grp[g].acked, NEW i \in 1..Len(Cluster), i < grp'[g].next,
               NEW n \in Nodes, n = Cluster[i]
        PROVE  Sees(g, w, n)'
    <3>1. i < grp[g].next \/ n = Here(g)
      BY <2>1, <2>3 DEF Visited, Here
    <3>. QED
      BY <3>1, <2>2, <2>3, <1>4
  <2>4. \A i \in 1..Len(Cluster) : Cluster[i] \in Nodes
    BY DEF Nodes
  <2>5. Gathered(g)'
    BY <2>1, <2>3, <2>4, <1>1, <1>2, <1>3, <1>4 DEF Gathered, Visited, Keeps
  <2>. QED
    BY <2>5, <1>2, <1>3, GroupSearch
<1>8. CASE SearchDone(g) /\ Ended(g, "ok")
  <2>1. grp[g].next > Len(Cluster)
    BY <1>8, SearchDoneEffect
  <2>2. \A w \in grp[g].acked, n \in Nodes : Sees(g, w, n)
    <3>. SUFFICES ASSUME NEW w \in grp[g].acked, NEW i \in 1..Len(Cluster)
                  PROVE  Sees(g, w, Cluster[i])
      BY DEF Nodes
    <3>1. i < grp[g].next
      BY <2>1, SnapFacts, PlanFacts DEF TypeInv, TypeOK
    <3>. QED
      BY <3>1, <1>4
  <2>3. \A w, n : Sees(g, w, n) => Sees(g, w, n)'
    BY <1>1, <1>2, <1>8 DEF Sees, Ended
  <2>4. Gathered(g)'
    BY <2>2, <2>3, <1>1, <1>2, <1>3, <1>4, <1>8 DEF Gathered, Ended, Keeps
  <2>. QED
    BY <2>4, <1>2, <1>3, GroupSearch
<1>. QED
  BY <1>6, <1>7, <1>8, SearchDoneEffect

\* A search that begins owes what was acknowledged before it, and has visited no node.
LEMMA BeginSearch ==
    ASSUME TypeInv, SearchInv, Writers # {}, plan' = plan, NEW g \in Groups,
           NEW n \in Nodes, NEW kind \in Menu[g], GroupBegin(g, n, kind)
    PROVE  SearchInv'
<1>1. /\ Others(g) /\ grp'[g].pc = "visit" /\ grp'[g].next = 1
      /\ grp'[g].acked = {w \in Writers : put[w].result = "ok"}
  <2>1. grp[g].next = 1
    BY DEF GroupBegin, TypeInv, Sound
  <2>. QED
    BY <2>1, BeginEffect
<1>2. UNCHANGED <<table, put, restarted>>
  BY DEF GroupBegin
<1>3. Gathered(g)'
  BY <1>1, <1>2 DEF Gathered
<1>. QED
  BY <1>1, <1>2, <1>3, GroupSearch

\* What a step of the put w does to it and to the tables.
LEMMA PutEffect ==
    ASSUME TypeInv, plan' = plan, NEW w \in Writers, PutStep(w)
    PROVE  /\ put[w].result # "ok" /\ UNCHANGED <<grp, restarted>>
           /\ \A v \in Writers : v # w => put'[v] = put[v]
           /\ \A n \in Nodes, k \in Keys : k # KeyOf(w) => table'[n][k] = table[n][k]
           /\ \/ /\ put'[w].pc = "replicate" /\ put'[w].next = 2 /\ put'[w].result # "ok"
                 /\ table'[PrimaryOf(w)][KeyOf(w)] = PutOf[w].value
              \/ /\ put[w].pc = "replicate" /\ put'[w].pc = "replicate"
                 /\ put[w].next \in 1..Len(Home[KeyOf(w)])
                 /\ put'[w].next = put[w].next + 1 /\ put'[w].result # "ok"
                 /\ table'[Home[KeyOf(w)][put[w].next]][KeyOf(w)] = PutOf[w].value
                 /\ \A n \in Nodes : n # Home[KeyOf(w)][put[w].next] => table'[n] = table[n]
              \/ /\ put[w].pc = "replicate" /\ put[w].next > Len(Home[KeyOf(w)])
                 /\ put'[w].pc = "done" /\ table' = table
              \/ put'[w].pc # "replicate" /\ put'[w].result # "ok"
<1>. DEFINE p == put[w]
            n == PrimaryOf(w)
            k == KeyOf(w)
            value == PutOf[w].value
<1>1. p \in PutType /\ put \in [Writers -> PutType]
  BY DEF TypeInv, TypeOK
<1>2. n \in Nodes /\ k \in Keys /\ value \in Records /\ NoRec \in Records
  BY KeyFacts DEF TypeInv, TypeOK, Records
<1>3. p.next \in Nat /\ p.next >= 1 /\ p.previous \in Records
  BY <1>1 DEF PutType, TypeInv, SoundPut
<1>4. p.result # "ok" /\ UNCHANGED <<grp, restarted>>
  BY DEF PutStep, PutRead, PutWrite, PutReplicate, PutDone, PutRollback, PutRestore,
         TypeInv, SoundPut
<1>5. \A v \in Writers : v # w => put'[v] = put[v]
  BY <1>1 DEF PutStep, PutRead, PutWrite, PutReplicate, PutDone, PutRollback, PutRestore, PutEnds
<1>6. ASSUME NEW m \in Nodes, NEW rec \in Records, table' = [table EXCEPT ![m][k] = rec]
      PROVE  /\ \A o \in Nodes, l \in Keys : l # k => table'[o][l] = table[o][l]
             /\ table'[m][k] = rec
             /\ \A o \in Nodes : o # m => table'[o] = table[o]
  BY <1>2, <1>6, RecordEffect, ZenonT(30)
<1>. HIDE DEF n, k, value
<1>7. CASE PutRead(w)
  <2>1. table' = table
    BY <1>7 DEF PutRead
  <2>2. put'[w].pc = "write" /\ put'[w].result = p.result
    BY <1>1, <1>7 DEF PutRead, PutType
  <2>. QED
    BY <2>1, <2>2, <1>4, <1>5
<1>8. CASE PutWrite(w)
  <2>1. table' = [table EXCEPT ![n][k] = value]
    BY <1>8 DEF PutWrite, n, k, value
  <2>2. put'[w].pc = "replicate" /\ put'[w].next = 2 /\ put'[w].result = p.result
    BY <1>1, <1>8 DEF PutWrite, PutType
  <2>3. /\ \A o \in Nodes, l \in Keys : l # k => table'[o][l] = table[o][l]
        /\ table'[n][k] = value
    BY <2>1, <1>2, <1>6
  <2>. QED
    BY <2>2, <2>3, <1>4, <1>5 DEF n, k, value
<1>9. CASE PutReplicate(w)
  <2>. DEFINE m == Home[k][p.next]
  <2>1. p.pc = "replicate" /\ p.next \in 1..Len(Home[k])
    <3>1. p.pc = "replicate" /\ p.next <= Len(Home[k])
      BY <1>9 DEF PutReplicate, k
    <3>. QED
      BY <3>1, <1>2, <1>3, PlanFacts DEF TypeInv, TypeOK
  <2>2. m \in Nodes
    BY <2>1, <1>2, <1>3, KeyFacts DEF TypeInv, TypeOK
  <2>3. \/ /\ table' = [table EXCEPT ![m][k] = value]
           /\ put' = [put EXCEPT ![w].next = @ + 1]
        \/ /\ table' = table \/ table' = [table EXCEPT ![m][k] = value]
           /\ put' = [put EXCEPT ![w].pc = "rollback"]
    BY <1>9 DEF PutReplicate, k, value
  <2>. HIDE DEF m
  <2>4. CASE put' = [put EXCEPT ![w].pc = "rollback"]
    <3>1. put'[w].pc = "rollback" /\ put'[w].result = p.result
      BY <2>4, <1>1 DEF PutType
    <3>2. \A o \in Nodes, l \in Keys : l # k => table'[o][l] = table[o][l]
      BY <2>2, <2>3, <1>2, <1>6
    <3>. QED
      BY <3>1, <3>2, <1>4, <1>5 DEF k
  <2>5. CASE /\ table' = [table EXCEPT ![m][k] = value]
             /\ put' = [put EXCEPT ![w].next = @ + 1]
    <3>1. /\ put'[w].pc = "replicate" /\ put'[w].result = p.result
          /\ put'[w].next = p.next + 1
      BY <2>1, <2>5, <1>1 DEF PutType
    <3>2. /\ \A o \in Nodes, l \in Keys : l # k => table'[o][l] = table[o][l]
          /\ table'[m][k] = value /\ \A o \in Nodes : o # m => table'[o] = table[o]
      BY <2>2, <2>5, <1>2, <1>6
    <3>. QED
      BY <3>1, <3>2, <2>1, <1>4, <1>5 DEF k, value, m
  <2>. QED
    BY <2>3, <2>4, <2>5
<1>10. CASE PutDone(w)
  <2>1. table' = table /\ p.pc = "replicate" /\ p.next > Len(Home[k])
    BY <1>10 DEF PutDone, k
  <2>2. put'[w].pc = "done"
    BY <1>1, <1>10 DEF PutDone, PutEnds, PutType
  <2>. QED
    BY <2>1, <2>2, <1>4, <1>5 DEF k
<1>11. CASE PutRollback(w) \/ PutRestore(w)
  <2>1. \E rec \in Records : table' = [table EXCEPT ![n][k] = rec]
    BY <1>2, <1>3, <1>11 DEF PutRollback, PutRestore, n, k
  <2>2. \A o \in Nodes, l \in Keys : l # k => table'[o][l] = table[o][l]
    BY <2>1, <1>2, <1>6
  <2>3. put'[w].pc # "replicate" /\ put'[w].result # "ok"
    BY <1>1, <1>4, <1>11 DEF PutRollback, PutRestore, PutEnds, PutType
  <2>. QED
    BY <2>2, <2>3, <1>4, <1>5 DEF k
<1>. QED
  BY <1>7, <1>8, <1>9, <1>10, <1>11 DEF PutStep

\* A put writes its own key alone, so what nodes hold of the others' values stays.
LEMMA PutSearch ==
    ASSUME OnePutPerKey, TypeInv, SearchInv, plan' = plan, NEW w \in Writers, PutStep(w)
    PROVE  SearchInv'
<1>1. /\ Groups' = Groups /\ Writers' = Writers /\ Home' = Home /\ PutOf' = PutOf
      /\ Cluster' = Cluster /\ Nodes' = Nodes
      /\ \A k : HomeOf(k)' = HomeOf(k) /\ \A v : KeyOf(v)' = KeyOf(v)
  BY PlanStays
<1>2. /\ put[w].result # "ok" /\ UNCHANGED <<grp, restarted>>
      /\ \A v \in Writers : v # w => put'[v] = put[v]
      /\ \A n \in Nodes, k \in Keys : k # KeyOf(w) => table'[n][k] = table[n][k]
  BY PutEffect
<1>3. plan \in DOMAIN Plans /\ \A v \in Writers : KeyOf(v) \in Keys
  BY KeyFacts DEF TypeInv, TypeOK
<1>4. ASSUME NEW v \in Writers, v # w PROVE Spread(v)'
  <2>1. KeyOf(v) # KeyOf(w)
    BY <1>3, <1>4 DEF OnePutPerKey, KeyOf, PutOf, Writers
  <2>2. \A n \in Nodes : Stored(v, n) => Stored(v, n)'
    BY <2>1, <1>1, <1>2, <1>3 DEF Stored
  <2>3. put'[v] = put[v] /\ Spread(v)
    BY <1>2, <1>4 DEF SearchInv
  <2>4. HomeOf(KeyOf(v)) \subseteq Nodes
    BY <1>3, KeyFacts
  <2>5. \A i \in 1..Len(Home[KeyOf(v)]) : Home[KeyOf(v)][i] \in HomeOf(KeyOf(v))
    BY DEF HomeOf
  <2>6. put'[v].pc = "replicate" =>
          \A i \in 1..Len(Home[KeyOf(v)]) :
             i < put'[v].next => \A n \in Nodes : n = Home[KeyOf(v)][i] => Stored(v, n)'
    BY <2>2, <2>3, <2>4, <2>5 DEF Spread
  <2>7. put'[v].result = "ok" => \A n \in HomeOf(KeyOf(v)) : Stored(v, n)'
    BY <2>2, <2>3, <2>4 DEF Spread
  <2>. QED
    BY <2>4, <2>5, <2>6, <2>7, <1>1 DEF Spread
<1>5. Spread(w)'
  <2>. DEFINE k == KeyOf(w)
              Written(n) == n \in restarted \/ table'[n][k] = PutOf[w].value
  <2>1. \A n : Stored(w, n)' <=> Written(n)
    BY <1>1, <1>2 DEF Stored
  <2>2. Spread(w) /\ k \in Keys /\ PrimaryOf(w) = Home[k][1]
        /\ HomeOf(k) = {Home[k][i] : i \in 1..Len(Home[k])}
    BY <1>3 DEF SearchInv, PrimaryOf, HomeOf
  <2>3. /\ \A i \in 1..Len(Home[k]) : Home[k][i] \in Nodes /\ i \in Nat
        /\ Len(Home[k]) \in Nat /\ put[w].next \in Nat
    BY <2>2, <1>3, KeyFacts, PlanFacts DEF TypeInv, TypeOK, PutType
  <2>4. SUFFICES
          /\ put'[w].pc = "replicate" =>
                \A i \in 1..Len(Home[k]) : i < put'[w].next => Written(Home[k][i])
          /\ put'[w].result = "ok" => \A i \in 1..Len(Home[k]) : Written(Home[k][i])
    <3>. HIDE DEF Written
    <3>1. Home[KeyOf(w)]' = Home[k] /\ HomeOf(KeyOf(w))' = HomeOf(k)
      BY <1>1
    <3>. QED
      BY <3>1, <2>1, <2>2 DEF Spread
  <2>5. CASE /\ put'[w].pc = "replicate" /\ put'[w].next = 2 /\ put'[w].result # "ok"
             /\ table'[PrimaryOf(w)][KeyOf(w)] = PutOf[w].value
    <3>1. \A i \in 1..Len(Home[k]) : i < 2 => i = 1
      BY <2>3
    <3>. QED
      BY <3>1, <2>2, <2>5
  <2>6. CASE /\ put[w].pc = "replicate" /\ put'[w].pc = "replicate"
             /\ put[w].next \in 1..Len(Home[KeyOf(w)])
             /\ put'[w].next = put[w].next + 1 /\ put'[w].result # "ok"
             /\ table'[Home[KeyOf(w)][put[w].next]][KeyOf(w)] = PutOf[w].value
             /\ \A n \in Nodes : n # Home[KeyOf(w)][put[w].next] => table'[n] = table[n]
    <3>1. ASSUME NEW i \in 1..Len(Home[k]), i < put'[w].next PROVE Written(Home[k][i])
      <4>1. i < put[w].next \/ i = put[w].next
        BY <3>1, <2>3, <2>6
      <4>2. CASE i = put[w].next
        BY <4>2, <2>6
      <4>3. CASE i < put[w].next
        <5>1. Stored(w, Home[k][i])
          BY <4>3, <2>2, <2>6 DEF Spread
        <5>. QED
          BY <5>1, <2>3, <2>6 DEF Stored
      <4>. QED
        BY <4>1, <4>2, <4>3
    <3>. QED
      BY <3>1, <2>6
  <2>7. CASE /\ put[w].pc = "replicate" /\ put[w].next > Len(Home[KeyOf(w)])
             /\ put'[w].pc = "done" /\ table' = table
    <3>1. ASSUME NEW i \in 1..Len(Home[k]) PROVE Written(Home[k][i])
      <4>1. i < put[w].next
        BY <2>3, <2>7
      <4>2. Stored(w, Home[k][i])
        BY <4>1, <2>2, <2>7 DEF Spread
      <4>. QED
        BY <4>2, <2>7 DEF Stored
    <3>. QED
      BY <3>1, <2>7
  <2>8. CASE put'[w].pc # "replicate" /\ put'[w].result # "ok"
    BY <2>8
  <2>. HIDE DEF Written
  <2>. QED
    BY <2>5, <2>6, <2>7, <2>8, PutEffect
<1>6. ASSUME NEW g \in Groups PROVE Gathered(g)'
  <2>1. \A v, n : Sees(g, v, n) => Sees(g, v, n)'
    BY <1>1, <1>2 DEF Sees
  <2>2. \A v \in grp[g].acked : put[v].result = "ok" => put'[v].result = "ok"
    <3>1. grp[g].acked \subseteq Writers
      BY DEF TypeInv, TypeOK, GroupType
    <3>. QED
      BY <3>1, <1>2
  <2>. QED
    BY <2>1, <2>2, <1>1, <1>2 DEF SearchInv, Gathered
<1>. QED
  BY <1>1, <1>4, <1>5, <1>6 DEF SearchInv

\* A restart loses what its node held, and no search has to find it there any more.
LEMMA RestartSearch ==
    ASSUME TypeInv, SearchInv, Writers # {}, plan' = plan, NEW n \in Nodes,
           Restart(n) \/ AdoptSpace(n)
    PROVE  SearchInv'
<1>1. /\ Groups' = Groups /\ Writers' = Writers /\ Home' = Home /\ PutOf' = PutOf
      /\ Cluster' = Cluster /\ Nodes' = Nodes
      /\ \A k : HomeOf(k)' = HomeOf(k) /\ \A v : KeyOf(v)' = KeyOf(v)
  BY PlanStays
<1>2. /\ restarted \subseteq restarted'
      /\ \A m \in Nodes : m \notin restarted' => table'[m] = table[m]
  <2>1. CASE Restart(n)
    BY <2>1, RestartEffect
  <2>2. CASE AdoptSpace(n)
    BY <2>2 DEF AdoptSpace
  <2>. QED
    BY <2>1, <2>2
<1>3. \A w \in Writers :
         \/ put'[w] = put[w]
         \/ put'[w].pc = "done" /\ put'[w].result = "crashed" /\ put[w].result # "ok"
  <2>. SUFFICES ASSUME NEW w \in Writers, put'[w] # put[w]
                PROVE  put'[w].pc = "done" /\ put'[w].result = "crashed" /\ put[w].result # "ok"
    OBVIOUS
  <2>1. put[w] \in PutType /\ SoundPut(w)
    BY DEF TypeInv, TypeOK
  <2>2. /\ Running(put[w].pc)
        /\ put'[w] = [put[w] EXCEPT !.pc = "done", !.result = "crashed"]
    BY DEF Restart, AdoptSpace
  <2>. QED
    BY <2>1, <2>2 DEF PutType, SoundPut, Running
<1>4. ASSUME NEW w \in Writers PROVE Spread(w)'
  <2>1. CASE put'[w].pc = "done" /\ put'[w].result = "crashed"
    BY <2>1 DEF Spread
  <2>2. CASE put'[w] = put[w]
    <3>1. \A m \in Nodes : Stored(w, m) => Stored(w, m)'
      BY <1>1, <1>2 DEF Stored
    <3>2. KeyOf(w) \in Keys /\ HomeOf(KeyOf(w)) \subseteq Nodes
      BY KeyFacts DEF TypeInv, TypeOK
    <3>3. \A i \in 1..Len(Home[KeyOf(w)]) : Home[KeyOf(w)][i] \in HomeOf(KeyOf(w))
      BY DEF HomeOf
    <3>4. put'[w].pc = "replicate" =>
            \A i \in 1..Len(Home[KeyOf(w)]) :
               i < put'[w].next => \A m \in Nodes : m = Home[KeyOf(w)][i] => Stored(w, m)'
      BY <3>1, <3>2, <3>3, <2>2 DEF SearchInv, Spread
    <3>5. put'[w].result = "ok" => \A m \in HomeOf(KeyOf(w)) : Stored(w, m)'
      BY <3>1, <3>2, <2>2 DEF SearchInv, Spread
    <3>. QED
      BY <3>2, <3>3, <3>4, <3>5, <1>1 DEF Spread
  <2>. QED
    BY <1>3, <2>1, <2>2
<1>5. ASSUME NEW g \in Groups PROVE Gathered(g)'
  <2>1. \/ grp'[g] = grp[g]
        \/ /\ Running(grp[g].pc) /\ Keeps(g)
           /\ grp'[g].pc = "done" /\ grp'[g].result = "crashed"
    BY RestartEffect DEF AdoptSpace
  <2>2. grp[g].acked \subseteq Writers /\ grp'[g].acked = grp[g].acked
    BY <2>1 DEF TypeInv, TypeOK, GroupType, Keeps
  <2>3. \A w \in grp[g].acked : put[w].result = "ok" => put'[w].result = "ok"
    BY <2>2, <1>3
  <2>4. CASE grp'[g] = grp[g]
    <3>1. \A w, m : Sees(g, w, m) => Sees(g, w, m)'
      BY <2>4, <1>1, <1>2 DEF Sees
    <3>. QED
      BY <3>1, <2>3, <2>4, <1>1 DEF SearchInv, Gathered
  <2>5. CASE /\ Running(grp[g].pc) /\ Keeps(g)
             /\ grp'[g].pc = "done" /\ grp'[g].result = "crashed"
    BY <2>2, <2>3, <2>5 DEF SearchInv, Gathered, Running
  <2>. QED
    BY <2>1, <2>4, <2>5
<1>. QED
  BY <1>1, <1>4, <1>5 DEF SearchInv

\* Every step keeps the searches finding what was acknowledged before them.
LEMMA SearchStep ==
    ASSUME Separate, OnePutPerKey
    PROVE  TypeInv /\ SearchInv /\ [Next]_vars => SearchInv'
<1>. SUFFICES ASSUME TypeInv, SearchInv, [Next]_vars, Writers' # {} PROVE SearchInv'
  BY DEF SearchInv
<1>1. plan' = plan /\ Writers # {}
  <2>1. plan' = plan
    BY DEF Next, vars
  <2>. QED
    BY <2>1, PlanStays
<1>2. CASE UNCHANGED vars
  <2>1. /\ Groups' = Groups /\ Writers' = Writers /\ Home' = Home /\ PutOf' = PutOf
        /\ Cluster' = Cluster /\ Nodes' = Nodes
        /\ \A k : HomeOf(k)' = HomeOf(k) /\ \A v : KeyOf(v)' = KeyOf(v)
    BY <1>1, PlanStays
  <2>2. \A w \in Writers : Spread(w) => Spread(w)'
    BY <2>1, <1>2 DEF vars, Spread, Stored
  <2>3. \A g \in Groups : Gathered(g) => Gathered(g)'
    BY <2>1, <1>2 DEF vars, Gathered, Sees
  <2>. QED
    BY <2>1, <2>2, <2>3, <1>1 DEF SearchInv
<1>3. CASE Next
  <2>1. ASSUME NEW g \in Groups, GroupStep(g) PROVE SearchVisit(g) \/ SearchDone(g)
    <3>1. grp[g].pc # "new" => grp[g].kind # "delete_group"
      BY <1>1, OnlySearches
    <3>2. grp[g].pc \in {"delete", "rollback"} => grp[g].kind = "delete_group"
      BY DEF TypeInv, Sound
    <3>. QED
      BY <3>1, <3>2, <2>1 DEF GroupStep, SnapshotVisit, SnapshotDone, DeleteVisit,
         DeleteDone, RestoreRecord, RollbackDone
  <2>. QED
    BY <1>1, <1>3, <2>1, VisitSearch, BeginSearch, PutSearch, RestartSearch DEF Next
<1>. QED
  BY <1>2, <1>3

\* A put acknowledged before a search began is in the result of the search, whatever
\* nodes the search skipped, whatever answers were lost and whatever daemons
\* restarted, unless every replica of the key was skipped or restarted: for every
\* cluster, any number of searches at once, and one put per key beside them.
THEOREM SearchesFind ==
    ASSUME Separate, OnePutPerKey
    PROVE  Spec => []SearchFindsAcknowledged
<1>1. Init => SearchInv
  BY InitSearch
<1>2. TypeInv /\ SearchInv /\ [Next]_vars => SearchInv'
  BY SearchStep
<1>3. TypeInv /\ SearchInv => SearchFindsAcknowledged
  <2>. SUFFICES ASSUME TypeInv, SearchInv, NEW g \in Groups,
                       grp[g].pc = "done", grp[g].result = "ok",
                       NEW w \in grp[g].acked, PutOf[w].value \in Matching,
                       ~(HomeOf(KeyOf(w)) \subseteq grp[g].skipped \cup restarted)
                PROVE  grp[g].found[KeyOf(w)] = PutOf[w].value
    BY DEF SearchFindsAcknowledged, Done
  <2>1. w \in Writers
    BY DEF TypeInv, TypeOK, GroupType
  <2>2. PICK n \in HomeOf(KeyOf(w)) : n \notin grp[g].skipped \cup restarted
    OBVIOUS
  <2>3. n \in Nodes
    BY <2>1, KeyFacts DEF TypeInv, TypeOK
  <2>4. Sees(g, w, n)
    BY <2>1, <2>3 DEF SearchInv, Gathered
  <2>. QED
    BY <2>2, <2>4 DEF Sees
<1>. QED
  BY <1>1, <1>2, <1>3, TypeAlways, PTL DEF Spec
===============================================================================
