------------------------------- MODULE Placement -------------------------------
(* Which daemons hold a key: legacy_locate_string_key and the replica sets it *)
(* chooses from.  A key enters only through its region, the part of the hash  *)
(* space legacy_region_for_hash puts it in.                                   *)
EXTENDS Integers, Sequences, FiniteSets, SequencesExt

\* slice::sort_by: what is not before one another stays in the order of the list.
Sorted(list, Before(_, _)) ==
    LET Ahead(j, i) == Before(list[j], list[i]) \/ (~Before(list[i], list[j]) /\ j < i)
        Place(i) == Cardinality({j \in DOMAIN list : Ahead(j, i)}) + 1
    IN  SubSeq([k \in DOMAIN list |-> list[CHOOSE i \in DOMAIN list : Place(i) = k]], 1, Len(list))

\* Every node list no longer than the replica count: all its rotations.
Rotations(ids) ==
    LET n == Len(ids)
    IN  [start \in 1..n |-> [k \in 1..n |-> ids[((start + k - 2) % n) + 1]]]

\* A longer one: from each start, one set per stride that stays in the list.
StridesFrom(n, replicas, partitions, start) ==
    {stride \in 1..partitions : start + stride * (replicas - 1) <= n}

Strided(ids, replicas, partitions) ==
    LET n == Len(ids)
        SetsFrom(start) ==
            [stride \in 1..Cardinality(StridesFrom(n, replicas, partitions, start)) |->
                [k \in 1..replicas |-> ids[start + stride * (k - 1)]]]
    IN  FlattenSeq([start \in 1..n |-> SetsFrom(start)])

\* legacy_replica_sets
LegacyReplicaSets(ids, replicas, partitions) ==
    IF ids = <<>> \/ replicas = 0 THEN <<>>
    ELSE IF Len(ids) <= replicas THEN Rotations(ids)
    ELSE Strided(ids, replicas, IF partitions = 0 THEN 1 ELSE partitions)

\* The replica count of a space: at most every node, at least one.
ReplicaCount(nodes, fault_tolerance) ==
    IF nodes = 0 THEN 1
    ELSE IF nodes < fault_tolerance + 1 THEN nodes ELSE fault_tolerance + 1

\* legacy_locate_string_key for a key in the given region (0 .. partitions - 1):
\* the replicas, primary first; no nodes, no placement.
LegacyLocate(ids, fault_tolerance, partitions, region) ==
    LET sets == LegacyReplicaSets(ids, ReplicaCount(Len(ids), fault_tolerance), partitions)
    IN  IF sets = <<>> THEN <<>>
        ELSE sets[((region * Len(sets)) \div partitions) + 1]
===============================================================================
