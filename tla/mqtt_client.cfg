\* Three messages, a broker that fails three times and then stays.
SPECIFICATION FairSpec
CONSTANTS
    Messages = {m1, m2, m3}
    Empty = Empty
    MaxInFlight = 3
    MaxFailures = 3
INVARIANTS
    TypeOK
    RetriedOnceLost
    LastMessageIsOnItsWay
PROPERTY BrokerCatchesUp
\* An exception ends the process.
CHECK_DEADLOCK FALSE
