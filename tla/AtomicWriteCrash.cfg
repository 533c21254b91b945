SPECIFICATION Spec
CONSTANTS
    Call = {c1, c2}
    Proc = {p1, p2}
    Pid = {1}
    Chunks = 2
    MaxNanos = 2
    MaxCounter = 2
    MaxCrashes = 1
    Paths = {"file", "bare", "root", "dotdot"}
    Faults = {"create", "write", "panic", "sync", "rename", "dirsync", "kill", "remove"}
    Target = Target
    None = None
INVARIANTS TypeOK OwnsTemp TargetWhole AckedSurvives NoTempLeft
PROPERTY Refines
CHECK_DEADLOCK FALSE
