\* One daemon synchronised by its loop alone, two administrators, restarts.
CONSTANTS
    Coordinator = Coordinator
    d1 = d1
    d2 = d2
    r1 = r1
    Daemons = {d1}
    Admins = {a1, a2}
    Requests = {}
    DaemonOf <- NoRequest
    Spaces = {s1, s2}
    Defs = {D1}
    NoDef = NoDef
    Addrs = {x1}
    NoAddr = NoAddr
    MaxVersion = 3
    MaxFaults = 1
SPECIFICATION Spec
INVARIANTS TypeOK CurrentViewIsExact SyncedDaemonIsExact
SYMMETRY Symmetry
PROPERTY KeepsUndroppedData
