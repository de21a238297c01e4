\* Two connections that change the version under each other, four frames in all.
CONSTANTS
    Sessions = {s1, s2}
    PeerIds = {0, 5}
    ServerId = 2
    MaxFrames = 4
    MaxTarget = 2
    MaxErrors = 1
SPECIFICATION Spec
INVARIANTS TypeOK AnsweredOnce BootstrapMatchesIdentify OwnChangesWakeWaits
PROPERTY WaitsAnsweredInTime
SYMMETRY Symmetry
CHECK_DEADLOCK FALSE
