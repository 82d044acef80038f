SPECIFICATION BufferSpec
CONSTANTS
    Growth = 5
    PutRoom = 3
    Slack = 2
    FormatRoom = 6
    UIntSize = 8
    Lengths = {0, 1, 2, 4, 5, 6, 8, 9}
    AllocMayFail = TRUE
INVARIANTS Fits
CONSTRAINT CapacityBound
