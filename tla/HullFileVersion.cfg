SPECIFICATION Spec
CONSTANTS
    Values <- AllValues
    MaxEvents = 1
INVARIANT VersionSurfaced
CHECK_DEADLOCK FALSE
