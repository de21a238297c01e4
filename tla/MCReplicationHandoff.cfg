\* Daemon 3 joins and takes over the key while mutations run.
CONSTANTS
    v0 = v0
    v1 = v1
    v2 = v2
    v3 = v3
    Nodes = {1, 2, 3}
    FaultTolerance = 2
    Views <- TwoThenThree
    Replicas <- OnTwoThenThree
    Start <- ThirdIsFresh
    HasSpace = {1, 2}
    Syncing = {1, 2, 3}
    Values = {v0, v1, v2, v3}
    NoRec = NoRec
    Initial = v0
    Unread = Unread
    Entry = {1, 2, 3}
    Ops = {1}
    Menu <- Mutations
    MaxConcurrent = 1
    MaxRefused = 1
    MaxLost = 0
SPECIFICATION Spec
PROPERTY NewerPeerVetoes
CHECK_DEADLOCK FALSE
