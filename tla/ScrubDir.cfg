SPECIFICATION LiveSpec
CONSTANTS
    Call = {c1, c2}
    Proc = {p1}
    Pid = {1}
    Chunks = 4
    MaxNanos = 1
    MaxCounter = 2
    Target = Target
    None = None
    MagicAt = 1
    HeaderAt = 2
    SectionsAt = 3
    MaxReports = 2
    MaxCrashes = 1
    Paths = {"file"}
    Faults = {"panic", "write", "remove"}
INVARIANTS ScrubTypeOK TargetReportsClean TargetNeverSkipped
CHECK_DEADLOCK FALSE
