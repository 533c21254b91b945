SPECIFICATION LiveSpec
CONSTANTS
    Call = {c1, c2}
    Proc = {p1}
    Pid = {1}
    Chunks = 4
    MaxNanos = 1
    MaxCounter = 2
    Target = Target
    None = None
    MagicAt = 1
    HeaderAt = 2
    SectionsAt = 3
    MaxReports = 2
    MaxCrashes = 0
    Paths = {"file"}
    Faults = {}
INVARIANT NoFalseAlarm
CHECK_DEADLOCK FALSE
