\* Two containers with one namespace number; two CPUs, so that both may pass
\* the gate before one closes it, and a ring that they can fill.
SPECIFICATION FairSpec
CONSTANTS
    CPUs = {p1, p2}
    n1 = n1
    Containers = {c1, c2}
    Namespaces = {n1}
    None = None
    Netns <- OneNetns
    Ring = 1
    Crowd = 1
    MayFail = TRUE
INVARIANTS
    TypeOK
    ClosedGateHasOwner
    MonitorStaysRegistered
    SendHasReceiver
PROPERTY ClosedGateReopens
CHECK_DEADLOCK FALSE
