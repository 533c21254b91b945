SPECIFICATION Spec
CONSTANTS
    Call = {c1, c2, c3}
    Proc = {p1, p2, p3}
    Pid = {1, 2}
    Chunks = 1
    MaxNanos = 3
    MaxCounter = 3
    MaxCrashes = 0
    Paths = {"file"}
    Faults = {"kill", "panic"}
    Target = Target
    None = None
SYMMETRY Symmetry
INVARIANTS OwnsTemp NoSpuriousFailure
CHECK_DEADLOCK FALSE
