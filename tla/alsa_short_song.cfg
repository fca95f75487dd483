\* The same instance: a song that ends with less delay than MinDelay.
SPECIFICATION Spec
CONSTANTS
    Total = 7
    FrameRate = 1500
    Offsets <- SomeOffsets
    Capacity = 3
    BufferSize = 5
    MinDelay = 2
    Now = 12
    MaxClock = 15
INVARIANT SongIsAnnounced
CHECK_DEADLOCK FALSE
