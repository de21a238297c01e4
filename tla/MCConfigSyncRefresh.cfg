\* A refresh asked for by a request races the loop of the same daemon.
CONSTANTS
    Coordinator = Coordinator
    d1 = d1
    d2 = d2
    r1 = r1
    Daemons = {d1}
    Admins = {a1}
    Requests = {r1}
    DaemonOf <- OneRequest
    Spaces = {s1}
    Defs = {D1, D2}
    NoDef = NoDef
    Addrs = {x1}
    NoAddr = NoAddr
    MaxVersion = 3
    MaxFaults = 0
SPECIFICATION FairSpec
PROPERTY MirrorsEventually
