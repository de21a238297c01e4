\* Liveness of the loop: two daemons would only repeat one, so one daemon and one space.
CONSTANTS
    Coordinator = Coordinator
    d1 = d1
    d2 = d2
    r1 = r1
    Daemons = {d1}
    Admins = {a1}
    Requests = {}
    DaemonOf <- NoRequest
    Spaces = {s1}
    Defs = {D1, D2}
    NoDef = NoDef
    Addrs = {x1, x2}
    NoAddr = NoAddr
    MaxVersion = 4
    MaxFaults = 1
SPECIFICATION FairSpec
INVARIANT SyncedDaemonIsExact
PROPERTY Converges
