SPECIFICATION Spec
CONSTANTS
    Values <- AllValues
    MaxEvents = 2
INVARIANTS TypeOK ReadNeverMixed ReadOutcome ReadSectionsOk ScrubLocates
CHECK_DEADLOCK FALSE
