SPECIFICATION FairSpec
CONSTANTS
    Ports = {p1, p2}
    Callers = {c1, c2}
    Loop = Loop
    MapSize = 1
    RingSize = 1
    MaxListens = 3
    None = None
INVARIANTS
    TypeOK
    MapsAgree
    OneWakePerListen
PROPERTY EventEndsRegistration
