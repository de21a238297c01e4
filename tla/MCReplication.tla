----------------------------- MODULE MCReplication -----------------------------
(* Small instances of Replication for TLC: daemons 1 to 4, and a key in       *)
(* region 60 of 64, placed by legacy_locate_string_key.                       *)
EXTENDS Replication, Placement

CONSTANTS FaultTolerance, v0, v1, v2, v3

Partitions == 64
Region == 60
Placed(views) ==
    [v \in 1..Len(views) |-> LegacyLocate(views[v], FaultTolerance, Partitions, Region)]

OneOfTwo == <<<<1, 2>>>>
OneOfThree == <<<<1, 2, 3>>>>
TwoThenThree == <<<<1, 2>>, <<1, 2, 3>>>>
ThreeThenFour == <<<<1, 2, 3>>, <<1, 2, 3, 4>>>>
OnThree == Placed(OneOfThree)
OnTwo == Placed(OneOfTwo)
OnTwoThenThree == Placed(TwoThenThree)
OnThreeThenFour == Placed(ThreeThenFour)

AllFirst == [n \in Nodes |-> 1]
SecondIsNew == [n \in Nodes |-> IF n = 2 THEN 2 ELSE 1]
ThirdIsFresh == [n \in Nodes |-> IF n = 3 THEN 0 ELSE 1]

Put(v) == [kind |-> "put", value |-> v, expect |-> v]
Cas(e, v) == [kind |-> "cput", value |-> v, expect |-> e]
Delete == [kind |-> "delete", value |-> v0, expect |-> v0]
Get == [kind |-> "get", value |-> v0, expect |-> v0]

\* Operation i writes the i-th value, so that a value names its writer.
Fresh == <<v1, v2, v3>>
EveryKind == [o \in Ops |-> {Put(Fresh[o]), Cas(v0, Fresh[o]), Delete, Get}]
TwoWritersAndGet == [o \in Ops |-> IF o = 3 THEN {Get} ELSE {Put(Fresh[o]), Cas(v0, Fresh[o])}]
Mutations == [o \in Ops |-> {Put(Fresh[o]), Cas(v0, Fresh[o]), Delete}]
===============================================================================
