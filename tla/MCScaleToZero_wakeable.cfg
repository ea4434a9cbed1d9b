SPECIFICATION SwarmSpec
CONSTANTS
    Services = {s1}
    Handlers = {h1, h2}
    Watches <- AnyService
    Ops = {k1}
    Listener = L
    Labelled = {}
    MaxReplicas = 2
    None = None
    Nodes = {m, w}
    Manager = m
    MayFail = TRUE
SYMMETRY Symmetry
INVARIANTS
    SwarmTypeOK
    ZeroStaysWakeable
PROPERTY ImplementsContract
