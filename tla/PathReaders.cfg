SPECIFICATION FairSpec
CONSTANTS
    Call = {c1, c2}
    Proc = {p1, p2}
    Pid = {1}
    Chunks = 2
    MaxNanos = 2
    MaxCounter = 2
    MaxCrashes = 1
    Paths = {"file"}
    Faults = {"dirsync", "clock"}
    Target = Target
    None = None
    Watched = c1
INVARIANTS TargetWhole OwnsTemp ReadTypeOK ReadsWhole MappingHolds ReadsFresh
PROPERTIES WatchedReturns
CHECK_DEADLOCK FALSE
