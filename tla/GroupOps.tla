------------------------------- MODULE GroupOps --------------------------------
(* Operations on every record that passes a predicate: distributed search,    *)
(* count and delete-group, beside puts and daemon restarts.                   *)
(*                                                                            *)
(* The node a client asks visits the whole node list, one node after another. *)
(* A search merges what it finds and skips nodes that do not answer.  A       *)
(* delete-group first takes a snapshot of every node, compares the snapshots, *)
(* deletes node by node, and puts the snapshots back, record by record, when  *)
(* a deletion fails or the number of deleted records does not divide by the   *)
(* replica factor.  Nothing locks the tables between two visits.              *)
EXTENDS Integers, Sequences, FiniteSets

CONSTANTS Keys,            \* numbers, in the order of the storage engine
          Values,          \* contents of a record
          Matching,        \* the values that pass the predicate
          NoRec,           \* no record, or none that passes
          ReplicaFactor,   \* cluster_config.replicas
          MaxActive,       \* bound on group operations in flight
          Plans            \* what a behaviour may start from; see WellFormed

Records == Values \cup {NoRec}
Kinds == {"search", "count", "delete_group"}

\* A plan: the node list, the same on every daemon; per key its replicas, primary
\* first, and the record they start with; per group operation what it may be; the
\* puts; and the bounds on calls that fail before they reach the node, on calls
\* whose effect stays and whose answer is lost, and on daemon restarts.
WellFormed(p) ==
    /\ p.cluster \in Seq(Nat) /\ Len(p.cluster) > 0
    /\ \A i, j \in 1..Len(p.cluster) : p.cluster[i] = p.cluster[j] => i = j
    /\ p.home \in [Keys -> Seq({p.cluster[i] : i \in 1..Len(p.cluster)})]
    /\ \A k \in Keys : Len(p.home[k]) > 0
    /\ p.initial \in [Keys -> Records]
    /\ p.menu \in [DOMAIN p.menu -> SUBSET Kinds] /\ IsFiniteSet(DOMAIN p.menu)
    /\ p.puts \in [DOMAIN p.puts -> [key : Keys, value : Values]]
    /\ p.refused \in Nat /\ p.lost \in Nat /\ p.restarts \in Nat

ASSUME KeysAssumption == Keys \subseteq Nat /\ IsFiniteSet(Keys)
ASSUME ValuesAssumption == NoRec \notin Values /\ Matching \subseteq Values
ASSUME CountAssumption == ReplicaFactor \in Nat \ {0} /\ MaxActive \in Nat
ASSUME PlansAssumption == \A i \in DOMAIN Plans : WellFormed(Plans[i])

VARIABLES plan,      \* the plan of this behaviour
          table,     \* node -> key -> the record in its storage engine
          schema,    \* node -> does it know the space
          grp,       \* group operation -> its progress
          put,       \* put -> its progress
          refused, lost,
          restarted  \* the nodes that came back with nothing

vars == <<plan, table, schema, grp, put, refused, lost, restarted>>

Cluster == Plans[plan].cluster
Nodes == {Cluster[i] : i \in 1..Len(Cluster)}
Home == Plans[plan].home
HomeOf(k) == {Home[k][i] : i \in 1..Len(Home[k])}
Initial == Plans[plan].initial
Menu == Plans[plan].menu
Groups == DOMAIN Menu
PutOf == Plans[plan].puts
Writers == DOMAIN PutOf
MaxRefused == Plans[plan].refused
MaxLost == Plans[plan].lost
MaxRestarts == Plans[plan].restarts

Snapshot == [Keys -> Records]
GroupType ==
    [pc : {"new", "visit", "delete", "rollback", "done"},
     kind : Kinds, at : Nodes,
     next : Nat,                                \* position of the node to visit next
     skipped : SUBSET Nodes, found : Snapshot,  \* of a search
     snaps : Seq([node : Nodes, recs : Snapshot]),
     total : Nat,                               \* physical records deleted
     undo : SUBSET (Nat \X Keys),               \* records still to put back
     result : {"none", "ok", "err", "rollback_failed", "crashed"},
     count : Nat,
     acked : SUBSET Writers]                    \* puts acknowledged before it began
PutType ==
    [pc : {"new", "write", "replicate", "rollback", "restore", "done"},
     next : Nat, previous : Records,
     result : {"none", "ok", "err", "crashed"}]

Nothing == [k \in Keys |-> NoRec]
KeysOf(recs) == {k \in Keys : recs[k] # NoRec}

Init ==
    /\ plan \in DOMAIN Plans
    /\ table = [n \in Nodes |-> [k \in Keys |-> IF n \in HomeOf(k) THEN Initial[k] ELSE NoRec]]
    /\ schema = [n \in Nodes |-> TRUE]
    /\ grp = [g \in Groups |->
                [pc |-> "new", kind |-> "search", at |-> Cluster[1], next |-> 1,
                 skipped |-> {}, found |-> Nothing, snaps |-> <<>>, total |-> 0,
                 undo |-> {}, result |-> "none", count |-> 0, acked |-> {}]]
    /\ put = [w \in Writers |->
                [pc |-> "new", next |-> 1, previous |-> NoRec, result |-> "none"]]
    /\ refused = 0 /\ lost = 0 /\ restarted = {}

\* A call that never reaches its node.  A lost answer to a read is no different.
Refuse == refused < MaxRefused /\ refused' = refused + 1 /\ UNCHANGED lost
Lose == lost < MaxLost /\ lost' = lost + 1 /\ UNCHANGED refused
NoFault == UNCHANGED <<refused, lost>>

\* StorageEngine::search: the records of a node that pass the predicate.
Matched(n) == [k \in Keys |-> IF table[n][k] \in Matching THEN table[n][k] ELSE NoRec]

Running(pc) == pc \notin {"new", "done"}

GroupEnds(g, result, count) ==
    grp' = [grp EXCEPT ![g].pc = "done", ![g].result = result, ![g].count = count]

\* A client sends a group operation to node n.  (A node that restarted and has not
\* even adopted the node list again visits only itself, and answers an error.)
GroupBegin(g, n, kind) ==
    /\ grp[g].pc = "new"
    /\ Cardinality({h \in Groups : Running(grp[h].pc)}) < MaxActive
    /\ grp' = [grp EXCEPT ![g].pc = "visit", ![g].kind = kind, ![g].at = n,
                          ![g].acked = {w \in Writers : put[w].result = "ok"}]
    /\ UNCHANGED <<table, schema, put, refused, lost, restarted>>

-------------------------------------------------------------------------------
(* execute_distributed_search, execute_distributed_count                      *)

Disagree(a, b) == \E k \in Keys : a[k] # NoRec /\ b[k] # NoRec /\ a[k] # b[k]
Merge(a, b) == [k \in Keys |-> IF a[k] # NoRec THEN a[k] ELSE b[k]]

\* Mutant: a node that is skipped ends the visit.
SkipRest(g, n) ==
    grp' = [grp EXCEPT ![g].next = Len(Cluster) + 1, ![g].skipped = @ \cup {n}]

Skip(g, n) == grp' = [grp EXCEPT ![g].next = @ + 1, ![g].skipped = @ \cup {n}]

SearchVisit(g) ==
    /\ grp[g].pc = "visit" /\ grp[g].kind # "delete_group"
    /\ grp[g].next <= Len(Cluster)
    /\ LET n == Cluster[grp[g].next]
           found == grp[g].found
       IN  \/ /\ schema[n] /\ NoFault
              /\ IF Disagree(found, Matched(n))
                 THEN GroupEnds(g, "err", 0)
                 ELSE grp' = [grp EXCEPT ![g].next = @ + 1,
                                         ![g].found = Merge(found, Matched(n))]
           \/ /\ ~schema[n] /\ NoFault
              /\ Skip(g, n)
           \/ /\ n # grp[g].at /\ Refuse
              /\ Skip(g, n)
    /\ UNCHANGED <<table, schema, put, restarted>>

SearchDone(g) ==
    /\ grp[g].pc = "visit" /\ grp[g].kind # "delete_group"
    /\ grp[g].next > Len(Cluster)
    /\ IF grp[g].skipped = Nodes
       THEN GroupEnds(g, "err", 0)
       ELSE GroupEnds(g, "ok", Cardinality(KeysOf(grp[g].found)))
    /\ UNCHANGED <<table, schema, put, refused, lost, restarted>>

-------------------------------------------------------------------------------
(* execute_distributed_delete_group                                           *)

\* Mutant: a node that does not answer is left out, as a search leaves it out.
SnapshotSkips(g) ==
    /\ grp[g].pc = "visit" /\ grp[g].kind = "delete_group"
    /\ grp[g].next <= Len(Cluster)
    /\ LET n == Cluster[grp[g].next]
       IN  \/ /\ schema[n] /\ NoFault
              /\ grp' = [grp EXCEPT ![g].next = @ + 1,
                                    ![g].snaps = Append(@, [node |-> n, recs |-> Matched(n)])]
           \/ /\ n # grp[g].at /\ Refuse
              /\ grp' = [grp EXCEPT ![g].next = @ + 1]
    /\ UNCHANGED <<table, schema, put, restarted>>

\* A node without the space is left out; any other failure ends the operation.
SnapshotVisit(g) ==
    /\ grp[g].pc = "visit" /\ grp[g].kind = "delete_group"
    /\ grp[g].next <= Len(Cluster)
    /\ LET n == Cluster[grp[g].next]
       IN  \/ /\ schema[n] /\ NoFault
              /\ grp' = [grp EXCEPT ![g].next = @ + 1,
                                    ![g].snaps = Append(@, [node |-> n, recs |-> Matched(n)])]
           \/ /\ ~schema[n] /\ NoFault
              /\ grp' = [grp EXCEPT ![g].next = @ + 1]
           \/ /\ n # grp[g].at /\ Refuse
              /\ GroupEnds(g, "err", 0)
    /\ UNCHANGED <<table, schema, put, restarted>>

\* ensure_delete_group_snapshots_agree
SnapshotsAgree(snaps) == \A i \in 1..Len(snaps) : snaps[i].recs = snaps[1].recs

SnapshotDone(g) ==
    /\ grp[g].pc = "visit" /\ grp[g].kind = "delete_group"
    /\ grp[g].next > Len(Cluster)
    /\ IF grp[g].snaps = <<>> \/ ~SnapshotsAgree(grp[g].snaps)
       THEN GroupEnds(g, "err", 0)
       ELSE grp' = [grp EXCEPT ![g].pc = "delete", ![g].next = 1]
    /\ UNCHANGED <<table, schema, put, refused, lost, restarted>>

\* Mutant: the records of the first snapshot are forgotten.
UndoAfterFirst(g, applied) ==
    {u \in (2..applied) \X Keys : grp[g].snaps[u[1]].recs[u[2]] # NoRec}

\* The records of the snapshots that have been applied.
UndoOf(g, applied) ==
    {u \in (1..applied) \X Keys : grp[g].snaps[u[1]].recs[u[2]] # NoRec}

StartRollback(g, applied) ==
    grp' = [grp EXCEPT ![g].pc = "rollback", ![g].undo = UndoOf(g, applied)]

\* StorageEngine::delete_matching at one of the nodes of the snapshots.
DeleteVisit(g) ==
    /\ grp[g].pc = "delete" /\ grp[g].next <= Len(grp[g].snaps)
    /\ LET i == grp[g].next
           n == grp[g].snaps[i].node
           doomed == KeysOf(Matched(n))
           Applied == table' = [table EXCEPT ![n] =
                                  [k \in Keys |-> IF k \in doomed THEN NoRec ELSE @[k]]]
       IN  \/ /\ schema[n] /\ NoFault
              /\ Applied
              /\ grp' = [grp EXCEPT ![g].next = @ + 1,
                                    ![g].total = @ + Cardinality(doomed)]
           \/ /\ ~schema[n] /\ NoFault
              /\ StartRollback(g, i - 1)
              /\ UNCHANGED table
           \/ /\ n # grp[g].at /\ Refuse
              /\ StartRollback(g, i - 1)
              /\ UNCHANGED table
           \/ /\ n # grp[g].at /\ schema[n] /\ Lose
              /\ Applied
              /\ StartRollback(g, i - 1)
    /\ UNCHANGED <<schema, put, restarted>>

\* Mutant: the count is what the last node adds to the others.
CountExcess(total) == total - ReplicaFactor

\* Mutant: the physical records are reported.
CountPhysical(total) == total

LogicalCount(total) == total \div ReplicaFactor

DeleteDone(g) ==
    /\ grp[g].pc = "delete" /\ grp[g].next > Len(grp[g].snaps)
    /\ IF grp[g].total % ReplicaFactor # 0
       THEN StartRollback(g, Len(grp[g].snaps))
       ELSE GroupEnds(g, "ok", LogicalCount(grp[g].total))
    /\ UNCHANGED <<table, schema, put, refused, lost, restarted>>

\* rollback_delete_group_snapshots: the last snapshot first, its keys in order.
NextUndo(undo) ==
    {u \in undo : \A v \in undo : v[1] < u[1] \/ (v[1] = u[1] /\ u[2] <= v[2])}

\* restore_record_on_node; the first failure ends the rollback.
RestoreRecord(g) ==
    /\ grp[g].pc = "rollback" /\ grp[g].undo # {}
    /\ \E u \in NextUndo(grp[g].undo) :
       LET s == grp[g].snaps[u[1]]
           Applied == table' = [table EXCEPT ![s.node][u[2]] = s.recs[u[2]]]
           Failed == GroupEnds(g, "rollback_failed", 0)
       IN  \/ /\ schema[s.node] /\ NoFault
              /\ Applied
              /\ grp' = [grp EXCEPT ![g].undo = @ \ {u}]
           \/ /\ ~schema[s.node] /\ NoFault
              /\ Failed /\ UNCHANGED table
           \/ /\ s.node # grp[g].at /\ Refuse
              /\ Failed /\ UNCHANGED table
           \/ /\ s.node # grp[g].at /\ schema[s.node] /\ Lose
              /\ Applied /\ Failed
    /\ UNCHANGED <<schema, put, restarted>>

RollbackDone(g) ==
    /\ grp[g].pc = "rollback" /\ grp[g].undo = {}
    /\ GroupEnds(g, "err", 0)
    /\ UNCHANGED <<table, schema, put, refused, lost, restarted>>

-------------------------------------------------------------------------------
(* apply_primary_put at the primary of its key.  With one node list the peers *)
(* never disagree on the primary, and a put they do not confirm does nothing. *)

KeyOf(w) == PutOf[w].key
PrimaryOf(w) == Home[KeyOf(w)][1]
PutEnds(w, result) == put' = [put EXCEPT ![w].pc = "done", ![w].result = result]

PutRead(w) ==
    /\ put[w].pc = "new"
    /\ schema[PrimaryOf(w)]
    /\ put' = [put EXCEPT ![w].pc = "write", ![w].previous = table[PrimaryOf(w)][KeyOf(w)]]
    /\ UNCHANGED <<table, schema, grp, refused, lost, restarted>>

PutWrite(w) ==
    /\ put[w].pc = "write"
    /\ table' = [table EXCEPT ![PrimaryOf(w)][KeyOf(w)] = PutOf[w].value]
    /\ put' = [put EXCEPT ![w].pc = "replicate", ![w].next = 2]
    /\ UNCHANGED <<schema, grp, refused, lost, restarted>>

PutReplicate(w) ==
    /\ put[w].pc = "replicate" /\ put[w].next <= Len(Home[KeyOf(w)])
    /\ LET n == Home[KeyOf(w)][put[w].next]
           Applied == table' = [table EXCEPT ![n][KeyOf(w)] = PutOf[w].value]
           Abort == put' = [put EXCEPT ![w].pc = "rollback"]
       IN  \/ /\ schema[n] /\ NoFault
              /\ Applied
              /\ put' = [put EXCEPT ![w].next = @ + 1]
           \/ /\ ~schema[n] /\ NoFault
              /\ Abort /\ UNCHANGED table
           \/ /\ Refuse
              /\ Abort /\ UNCHANGED table
           \/ /\ schema[n] /\ Lose
              /\ Applied /\ Abort
    /\ UNCHANGED <<schema, grp, restarted>>

PutDone(w) ==
    /\ put[w].pc = "replicate" /\ put[w].next > Len(Home[KeyOf(w)])
    /\ PutEnds(w, "ok")
    /\ UNCHANGED <<table, schema, grp, refused, lost, restarted>>

\* restore_local_record
PutRollback(w) ==
    /\ put[w].pc = "rollback"
    /\ table' = [table EXCEPT ![PrimaryOf(w)][KeyOf(w)] = NoRec]
    /\ IF put[w].previous = NoRec
       THEN PutEnds(w, "err")
       ELSE put' = [put EXCEPT ![w].pc = "restore"]
    /\ UNCHANGED <<schema, grp, refused, lost, restarted>>

PutRestore(w) ==
    /\ put[w].pc = "restore"
    /\ table' = [table EXCEPT ![PrimaryOf(w)][KeyOf(w)] = put[w].previous]
    /\ PutEnds(w, "err")
    /\ UNCHANGED <<schema, grp, refused, lost, restarted>>

-------------------------------------------------------------------------------
(* A daemon restarts with empty memory; what it was executing is gone.  It    *)
(* learns of the space when its sync loop applies a configuration.            *)

Restart(n) ==
    /\ n \notin restarted /\ Cardinality(restarted) < MaxRestarts
    /\ restarted' = restarted \cup {n}
    /\ table' = [table EXCEPT ![n] = Nothing]
    /\ schema' = [schema EXCEPT ![n] = FALSE]
    /\ grp' = [g \in Groups |->
                 IF Running(grp[g].pc) /\ grp[g].at = n
                 THEN [grp[g] EXCEPT !.pc = "done", !.result = "crashed"] ELSE grp[g]]
    /\ put' = [w \in Writers |->
                 IF Running(put[w].pc) /\ PrimaryOf(w) = n
                 THEN [put[w] EXCEPT !.pc = "done", !.result = "crashed"] ELSE put[w]]
    /\ UNCHANGED <<refused, lost>>

AdoptSpace(n) ==
    /\ ~schema[n]
    /\ schema' = [schema EXCEPT ![n] = TRUE]
    /\ UNCHANGED <<table, grp, put, refused, lost, restarted>>

-------------------------------------------------------------------------------
GroupStep(g) ==
    \/ SearchVisit(g) \/ SearchDone(g)
    \/ SnapshotVisit(g) \/ SnapshotDone(g)
    \/ DeleteVisit(g) \/ DeleteDone(g)
    \/ RestoreRecord(g) \/ RollbackDone(g)

PutStep(w) ==
    \/ PutRead(w) \/ PutWrite(w) \/ PutReplicate(w) \/ PutDone(w)
    \/ PutRollback(w) \/ PutRestore(w)

Next ==
    /\ \/ \E g \in Groups : GroupStep(g) \/ \E n \in Nodes, kind \in Menu[g] : GroupBegin(g, n, kind)
       \/ \E w \in Writers : PutStep(w)
       \/ \E n \in Nodes : Restart(n) \/ AdoptSpace(n)
    /\ UNCHANGED plan

Spec == Init /\ [][Next]_vars

-------------------------------------------------------------------------------
(* What the properties below are stated for.                                  *)

\* Delete-groups and puts are not mixed: nothing orders them against each other.
Separate ==
    \A i \in DOMAIN Plans :
        \/ DOMAIN Plans[i].puts = {}
        \/ \A g \in DOMAIN Plans[i].menu : "delete_group" \notin Plans[i].menu[g]

\* No two puts are of one key.
OnePutPerKey ==
    \A i \in DOMAIN Plans : \A v, w \in DOMAIN Plans[i].puts :
        Plans[i].puts[v].key = Plans[i].puts[w].key => v = w

\* Every key is kept by as many nodes as the replica factor says.
FullyReplicated ==
    \A i \in DOMAIN Plans, k \in Keys :
        Cardinality({Plans[i].home[k][j] : j \in 1..Len(Plans[i].home[k])}) = ReplicaFactor

-------------------------------------------------------------------------------
TypeOK ==
    /\ plan \in DOMAIN Plans
    /\ table \in [Nodes -> [Keys -> Records]]
    /\ schema \in [Nodes -> BOOLEAN]
    /\ grp \in [Groups -> GroupType]
    /\ put \in [Writers -> PutType]
    /\ refused \in 0..MaxRefused /\ lost \in 0..MaxLost
    /\ restarted \subseteq Nodes

Done(g, kind, result) ==
    grp[g].pc = "done" /\ grp[g].kind = kind /\ grp[g].result = result

\* A delete-group whose rollback ends without an error has put back every record
\* it removed, on every node it had reached.  (One group operation at a time, no
\* puts; not when the answer to a deletion was lost or a daemon restarted.)
FailedDeleteGroupRestores ==
    [][lost = 0 /\ restarted = {} =>
       \A g \in Groups :
          grp[g].pc = "rollback" /\ grp'[g].result = "err"
              => \A i \in 1..Len(grp[g].snaps) :
                    Matched(grp[g].snaps[i].node) = grp[g].snaps[i].recs]_vars

\* A delete-group that reports success has left no matching record on any node:
\* also when calls failed, answers were lost or daemons restarted while it ran or
\* while an earlier attempt did.  (One group operation at a time, no puts.)
AcknowledgedDeleteGroupIsComplete ==
    \A g \in Groups : Done(g, "delete_group", "ok")
        => \A n \in Nodes : Matched(n) = Nothing

\* A delete-group that reports success while no daemon restarted counts the records
\* a client could have seen, and not the copies of them that were removed.
DeletedCountIsLogical ==
    restarted = {} =>
        \A g \in Groups : Done(g, "delete_group", "ok")
            => grp[g].count = Cardinality(KeysOf(grp[g].snaps[1].recs))

\* A delete-group that succeeds has removed the records from as many nodes as the
\* replica factor asks for: incomplete coverage aborts it.
IncompleteCoverageAborts ==
    \A g \in Groups : Done(g, "delete_group", "ok") /\ grp[g].total > 0
        => Len(grp[g].snaps) >= ReplicaFactor

\* A put acknowledged before a search began is in its result, whatever nodes the
\* search skipped and whatever daemons restarted since, as long as one replica of
\* the key did neither.  (One put per key, no delete-group.)
SearchFindsAcknowledged ==
    \A g \in Groups : Done(g, "search", "ok") \/ Done(g, "count", "ok")
        => \A w \in grp[g].acked :
              /\ PutOf[w].value \in Matching
              /\ ~(HomeOf(KeyOf(w)) \subseteq grp[g].skipped \cup restarted)
              => grp[g].found[KeyOf(w)] = PutOf[w].value
===============================================================================
