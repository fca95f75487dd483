\* The same clients: one of them leaves while a message is reported.
SPECIFICATION Spec
CONSTANTS
    Clients = {c1, c2, c3}
    Messages = {m1, m2}
    Empty = Empty
    Nothing = Nothing
PROPERTY ReportsReachOpenClients
CHECK_DEADLOCK FALSE
