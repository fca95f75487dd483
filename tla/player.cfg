\* Two plays, one client, a broker that fails once and then stays.
SPECIFICATION FairPlayerSpec
CONSTANTS
    Files = {f1}
    NoFile = NoFile
    StartTimes <- OneStartTime
    MaxPlays = 2
    InitialFile = NoFile
    MaxBacklog = 1
    Clients = {c1}
    Empty = Empty
    Nothing = Nothing
    MaxInFlight = 1
    MaxFailures = 1
INVARIANTS
    NoGhostSong
PROPERTIES
    EndIsHeard
    ListenersSeeHistoryInOrder
    ListenersAsComposed
\* An exception ends the process.
CHECK_DEADLOCK FALSE
