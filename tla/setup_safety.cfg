\* Every kind of file, three numbers of channels.
SPECIFICATION Spec
CONSTANTS
    MajorTypes <- SomeMajorTypes
    MinorTypes <- SomeMinorTypes
    Channels = {1, 2, 6}
    TransferBufferSize = 100
INVARIANTS
    AcceptedHasFormat
    MisreadFilesAreKnown
\* The constructor is left.
CHECK_DEADLOCK FALSE
