\* A file of seven frames, a transfer buffer of three, an ALSA buffer of five; a thread
\* that runs and a device that plays.
SPECIFICATION FairSpec
CONSTANTS
    Total = 7
    FrameRate = 1500
    Offsets <- SomeOffsets
    Capacity = 3
    BufferSize = 5
    MinDelay = 2
    Now = 12
    MaxClock = 15
INVARIANTS
    TypeOK
    FramesInOrder
    FileFollowsPosition
    HeardToTheEnd
    NoSongMeansSilence
    StartTimeNeverEarly
PROPERTIES
    ThreadAsPromised
    EverySongEnds
    ThreadEndsAsPromised
\* A playback thread ends, and its service is not used again.
CHECK_DEADLOCK FALSE
