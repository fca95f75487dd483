\* The same files, among them those of 24 bits.
SPECIFICATION Spec
CONSTANTS
    MajorTypes <- SomeMajorTypes
    MinorTypes <- SomeMinorTypes
    Channels = {1, 2, 6}
    TransferBufferSize = 100
INVARIANT BufferHoldsCapacity
\* The constructor is left.
CHECK_DEADLOCK FALSE
