\* The stale-primary claim with a peer that is as stale as the primary.
CONSTANTS
    v0 = v0
    v1 = v1
    v2 = v2
    v3 = v3
    Nodes = {1, 2, 3, 4}
    FaultTolerance = 2
    Views <- ThreeThenFour
    Replicas <- OnThreeThenFour
    Start <- SecondIsNew
    HasSpace = {1, 2, 3}
    Syncing = {}
    Values = {v0, v1, v2, v3}
    NoRec = NoRec
    Initial = v0
    Unread = Unread
    Entry = {3}
    Ops = {1}
    Menu <- Mutations
    MaxConcurrent = 1
    MaxRefused = 1
    MaxLost = 0
SPECIFICATION Spec
PROPERTY StalePrimaryRejected
CHECK_DEADLOCK FALSE
