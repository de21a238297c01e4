\* Puts, conditional puts and a get that interleave on three replicas, every sort of failed call.
CONSTANTS
    v0 = v0
    v1 = v1
    v2 = v2
    v3 = v3
    Nodes = {1, 2, 3}
    FaultTolerance = 2
    Views <- OneOfThree
    Replicas <- OnThree
    Start <- AllFirst
    HasSpace = {1, 2, 3}
    Syncing = {}
    Values = {v0, v1, v2, v3}
    NoRec = NoRec
    Initial = v0
    Unread = Unread
    Entry = {1, 3}
    Ops = {1, 2, 3}
    Menu <- TwoWritersAndGet
    MaxConcurrent = 2
    MaxRefused = 1
    MaxLost = 1
SPECIFICATION Spec
INVARIANTS CasExclusion CompleteGetIsCommitted FailedMutationLeavesPrefix
CHECK_DEADLOCK FALSE
