SPECIFICATION FairSpec
CONSTANTS
    s1 = s1
    s2 = s2
    h1 = h1
    h2 = h2
    Services = {s1}
    Handlers = {h1}
    Watches <- SameService
    Ops = {k1, k2}
    Listener = L
    Labelled = {}
    MaxReplicas = 2
    MayFail = FALSE
    None = None
PROPERTY CancellationCompletes
