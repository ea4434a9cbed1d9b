\* Three units of time to a period, so that a request may end between ticks.
SPECIFICATION Spec
CONSTANTS
    Period = 3
    MaxRate = 2
    MaxAge = 5
    MBPerGB = 3
    Limits = {0, 1, 4}
    MaxMB = 4
INVARIANTS
    TypeOK
    RequestMatchesUse
PROPERTY SamplesAreSpaced
CHECK_DEADLOCK FALSE
