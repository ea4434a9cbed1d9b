\* One namespace, two CPUs; a trigger takes two samples out of range.
SPECIFICATION Spec
CONSTANTS
    CPUs = {p1, p2}
    Namespaces = {n1}
    Elements = {e1, e2, e3}
    None = None
    LowerLimit = 0
    UpperLimit = 2
    BufferLength = 2
    Width = 8
    MaxCount = 2
    MaxBuffer = 3
    Ring = 1
INVARIANTS
    TypeOK
    JustifiedTrigger
    BufferIsStreak
PROPERTY ImplementsGate
SYMMETRY ProbeSymmetry
VIEW ProbeView
