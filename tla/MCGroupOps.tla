------------------------------ MODULE MCGroupOps -------------------------------
(* Small instances of GroupOps for TLC: two keys, in regions 10 and 60 of 64, *)
(* of a space that tolerates one failure.                                     *)
EXTENDS GroupOps, Placement

CONSTANTS hit, hit2, miss

Two == [cluster |-> <<1, 2>>, home |-> <<<<1, 2>>, <<2, 1>>>>]
Three == [cluster |-> <<1, 2, 3>>, home |-> <<<<1, 2>>, <<2, 3>>>>]
Region == <<10, 60>>
ASSUME HomeAssumption ==
    \A layout \in {Two, Three}, k \in Keys :
        layout.home[k] = LegacyLocate(layout.cluster, 1, 64, Region[k])

Plan(layout, initial, menu, puts, bounds) ==
    [cluster |-> layout.cluster, home |-> layout.home, initial |-> initial,
     menu |-> menu, puts |-> puts,
     refused |-> bounds[1], lost |-> bounds[2], restarts |-> bounds[3]]

AllMatch == <<hit, hit>>
OneMatches == <<hit, miss>>
Reads == <<{"search", "count"}>>
Delete == {"delete_group"}
\* One put enters the predicate's result and one changes a record within it.
PutEach == <<[key |-> 1, value |-> hit2], [key |-> 2, value |-> hit]>>

\* Retried delete-groups on two nodes; a search beside two puts on three nodes.
DeleteAndSearch ==
    <<Plan(Two, AllMatch, <<Delete, Delete, Delete>>, <<>>, <<2, 2, 1>>),
      Plan(Three, OneMatches, Reads, PutEach, <<1, 1, 1>>)>>

\* A delete-group after a replica restarted and before it knows the space again.
AfterRestart == <<Plan(Two, AllMatch, <<Delete>>, <<>>, <<0, 0, 1>>)>>

\* The plans are such as the properties and the theorems are stated for.
ASSUME PlansQualify == Separate /\ OnePutPerKey /\ FullyReplicated /\ MaxActive = 1
===============================================================================
