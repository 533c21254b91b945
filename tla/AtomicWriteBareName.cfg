SPECIFICATION Spec
CONSTANTS
    Call = {c1, c2}
    Proc = {p1}
    Pid = {1}
    Chunks = 1
    MaxNanos = 1
    MaxCounter = 2
    MaxCrashes = 1
    Paths = {"bare"}
    Faults = {}
    Target = Target
    None = None
INVARIANT RenameDurable
CHECK_DEADLOCK FALSE
