\* A primary and one secondary, one operation at a time, calls that fail before they arrive.
CONSTANTS
    v0 = v0
    v1 = v1
    v2 = v2
    v3 = v3
    Nodes = {1, 2}
    FaultTolerance = 1
    Views <- OneOfTwo
    Replicas <- OnTwo
    Start <- AllFirst
    HasSpace = {1, 2}
    Syncing = {}
    Values = {v0, v1, v2, v3}
    NoRec = NoRec
    Initial = v0
    Unread = Unread
    Entry = {1, 2}
    Ops = {1, 2, 3}
    Menu <- EveryKind
    MaxConcurrent = 1
    MaxRefused = 2
    MaxLost = 0
SPECIFICATION Spec
INVARIANTS TypeOK PairFailureLeavesNoTrace
PROPERTIES AckMeansEveryReplica ImplementsRegister
CHECK_DEADLOCK FALSE
