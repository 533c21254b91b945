SPECIFICATION Spec
CONSTANTS
    MaxFiles = 3
    Slice = 2
    Intervals = {0, 1, 3, 4}
CHECK_DEADLOCK FALSE
INVARIANT StopsAtNextFile
