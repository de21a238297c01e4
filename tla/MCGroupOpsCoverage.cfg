\* A delete-group after a replica restarted and before it knows the space again.
CONSTANTS
    hit = hit
    miss = miss
    hit2 = hit2
    Keys = {1, 2}
    Values = {hit, hit2, miss}
    Matching = {hit, hit2}
    NoRec = NoRec
    ReplicaFactor = 2
    MaxActive = 1
    Plans <- AfterRestart
SPECIFICATION Spec
INVARIANT IncompleteCoverageAborts
CHECK_DEADLOCK FALSE
