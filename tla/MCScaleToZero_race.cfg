SPECIFICATION SwarmSpec
CONSTANTS
    Services = {s1}
    Handlers = {h1, h2}
    Watches <- AnyService
    Ops = {k1, k2}
    Listener = L
    Labelled = {}
    MaxReplicas = 2
    None = None
    Nodes = {m, w}
    Manager = m
    MayFail = FALSE
SYMMETRY Symmetry
INVARIANT ZeroIsWakeable
CHECK_DEADLOCK FALSE
