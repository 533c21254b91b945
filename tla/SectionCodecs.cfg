SPECIFICATION CodecSpec
CONSTANTS
    Dims = {0, 1, 4}
    GroupSizes = {0, 2, 3}
    BitWidths = {4}
    Lengths = {0, 1, 2, 4, 8, 254}
    WordSize = 256
    CellValues = 4
    CellWord = 8
    MaxCells = 5
    Strings <- SomeStrings
    Vectors <- SomeVectors
INVARIANTS AcceptedFits LeftoversShareGroups WrittenIsRead AcceptedIsCanonical
    WrittenComesBack AcceptedIsEncoding PanicsAtOverflow
CHECK_DEADLOCK FALSE
