SPECIFICATION SwarmFairSpec
CONSTANTS
    Services = {s1}
    Handlers = {h1}
    Watches <- AnyService
    Ops = {k1}
    Listener = L
    Labelled = {s1}
    MaxReplicas = 2
    None = None
    Nodes = {m, w}
    Manager = m
    MayFail = TRUE
PROPERTIES
    RequestReturnsOrSends
    KeepAliveEnds
    ManagerLoopReturns
