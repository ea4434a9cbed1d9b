SPECIFICATION Spec
CONSTANTS
    s1 = s1
    s2 = s2
    h1 = h1
    h2 = h2
    Services = {s1, s2}
    Handlers = {h1, h2}
    Watches <- OwnService
    Ops = {k1, k2}
    Listener = L
    Labelled = {s1}
    MaxReplicas = 2
    MayFail = TRUE
    None = None
SYMMETRY Symmetry
INVARIANTS
    TypeOK
    OneKeepAlivePerService
    KeepAliveCancellable
PROPERTIES
    ZeroOnlyFromOne
