\* Two clients on three keys; a search of two records takes three requests.
CONSTANTS
    Clients = {c1, c2}
    c1 = c1
    c2 = c2
    a = a
    b = b
    Keys = {1, 2, 3}
    KeyBytes <- MCKeyBytes
    Width = 3
    FloatBits = 3
    Some = Some
    Chars = {a, b}
    Absent = Absent
    Err = Err
    RequestOf <- MCRequestOf
    Plans <- MCPlans
SPECIFICATION Spec
INVARIANTS TypeOK AddsAccumulate CheckedChangesExclude SearchDeliversEach KeySearchFindsRecord
    StoredValuesRoundTrip OnlyUnservedRequestsFail PathsAgree
CHECK_DEADLOCK FALSE
