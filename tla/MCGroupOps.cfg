\* Delete-groups and searches with failing calls, lost answers and restarts.
CONSTANTS
    hit = hit
    miss = miss
    hit2 = hit2
    Keys = {1, 2}
    Values = {hit, hit2, miss}
    Matching = {hit, hit2}
    NoRec = NoRec
    ReplicaFactor = 2
    MaxActive = 1
    Plans <- DeleteAndSearch
SPECIFICATION Spec
INVARIANTS TypeOK AcknowledgedDeleteGroupIsComplete DeletedCountIsLogical
    SearchFindsAcknowledged
PROPERTY FailedDeleteGroupRestores
CHECK_DEADLOCK FALSE
