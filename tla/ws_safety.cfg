\* Four clients that come and go, three messages.
SPECIFICATION Spec
CONSTANTS
    Clients = {c1, c2, c3, c4}
    Messages = {m1, m2, m3}
    Empty = Empty
    Nothing = Nothing
INVARIANTS
    OpenClientsAreUpToDate
    OnlyLeavingClientsRefuse
SYMMETRY HandlesAndMessages
\* An exception ends the process.
CHECK_DEADLOCK FALSE
