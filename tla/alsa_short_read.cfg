\* The same instance: a short read at the end of the file.
SPECIFICATION Spec
CONSTANTS
    Total = 7
    FrameRate = 1500
    Offsets <- SomeOffsets
    Capacity = 3
    BufferSize = 5
    MinDelay = 2
    Now = 12
    MaxClock = 15
INVARIANT OnlyFramesOfFile
CHECK_DEADLOCK FALSE
