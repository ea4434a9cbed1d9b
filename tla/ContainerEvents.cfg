SPECIFICATION FairSpec
CONSTANTS
    Containers = {c1, c2, c3}
    Owned = {c1, c2}
    ChanCap = 1
    MayFail = TRUE
INVARIANTS
    TypeOK
    MonitorsAreRunning
PROPERTIES
    NotifierMovesOn
    RunningIsMonitored
