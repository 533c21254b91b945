SPECIFICATION FairSystemSpec
CONSTANTS
    File = {f1, f2}
    NoFile = NoFile
    MaxFiles = 2
    Slice = 2
    Intervals = {0, 1, 3}
CHECK_DEADLOCK FALSE
INVARIANTS TypeOK PromptStop PauseIsInterval SystemTypeOK AlarmJustified
PROPERTIES StopReturns RotSurfaces
