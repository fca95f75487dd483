\* A page and another client, three requests, a player that is started again once.
SPECIFICATION FairSpec
CONSTANTS
    Names <- SomeNames
    Slash = "/"
    Files <- OneFile
    WavDirs <- OneDirTwoWays
    Songs <- TwoIds
    NoSong = NoSong
    Pages = {p1}
    Others = {curl}
    NoOne = NoOne
    Absent = Absent
    NotText = NotText
    OtherBodies <- SomeBodies
    Typed <- Nothing
    NoText = NoText
    ProgressEvent = ProgressEvent
    MaxRequests = 3
    MaxRuns = 2
INVARIANTS
    IInv
    PlaysAreIdentified
    AnswerHolds
    EveryNodeIsAFile
PROPERTIES
    PatientUserSeesOrder
    ClicksAreAnswered
\* Users may stop asking, and requests are bounded.
CHECK_DEADLOCK FALSE
