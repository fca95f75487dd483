------------------------ MODULE WebSocketsApi_proofs ------------------------
(***************************************************************************)
(* Proofs about WebSocketsApi, for any set of clients and of messages.     *)
(***************************************************************************)
EXTENDS WebSocketsApi, TLAPS

\* What the properties need to be inductive: while the player runs, every open
\* client is in connections_ (and so is served), and whoever is in connections_ is
\* open or about to leave.
ConnectionsMatchSessions ==
    ~thrown => \A c \in Clients :
        /\ session[c] = "open" => c \in connections_
        /\ c \in connections_ => session[c] \in {"open", "closing"}

IInv == TypeOK /\ ConnectionsMatchSessions /\ OpenClientsAreUpToDate

LEMMA InitEstablishes == Init => IInv
BY NothingAssumption DEF Init, IInv, TypeOK, ConnectionsMatchSessions, OpenClientsAreUpToDate

LEMMA StepPreserves == IInv /\ [Next]_vars => IInv'
<1> SUFFICES ASSUME IInv, [Next]_vars PROVE IInv'
    OBVIOUS
<1> USE DEF IInv, TypeOK, ConnectionsMatchSessions, OpenClientsAreUpToDate
<1>1. ASSUME NEW message \in Messages, ReportCurrentSong(message) PROVE IInv'
    <2>1. CASE /\ \A c \in connections_ : ~Refuses(c)
               /\ Give(connections_, message)
               /\ UNCHANGED thrown
        BY <1>1, <2>1 DEF ReportCurrentSong, Give
    <2>2. CASE /\ \E served \in SUBSET {c \in connections_ : ~Refuses(c)} :
                     Give(served, message)
               /\ thrown' = TRUE
        BY <1>1, <2>2 DEF ReportCurrentSong, Give
    <2> QED BY <1>1, <2>1, <2>2 DEF ReportCurrentSong
<1>2. ASSUME NEW c \in Clients, OnOpen(c) PROVE IInv'
    BY <1>2 DEF OnOpen, Greet, Give
<1>3. ASSUME NEW c \in Clients, OnOpenThrows(c) PROVE IInv'
    BY <1>3 DEF OnOpenThrows
<1>4. ASSUME NEW c \in Clients, SessionEnds(c) PROVE IInv'
    BY <1>4 DEF SessionEnds
<1>5. ASSUME NEW c \in Clients, OnClose(c) PROVE IInv'
    BY <1>5 DEF OnClose, OtherConnections
<1>6. CASE UNCHANGED vars
    BY <1>6 DEF vars
<1> QED BY <1>1, <1>2, <1>3, <1>4, <1>5, <1>6 DEF Next, ClientStep

LEMMA Invariant == Spec => []IInv
BY InitEstablishes, StepPreserves, PTL DEF Spec

\* Whoever connects and leaves meanwhile, every open client has been given the
\* message reported last (ReportCurrentSong, OnOpen).
THEOREM ClientsAreUpToDate == Spec => []OpenClientsAreUpToDate
<1>1. IInv => OpenClientsAreUpToDate
    BY DEF IInv
<1> QED BY Invariant, <1>1, PTL

\* Only a client whose close handler is still to come can make a report throw
\* (ReportCurrentSong, OnClose).
THEOREM RefusalsAreOfLeavingClients == Spec => []OnlyLeavingClientsRefuse
<1>1. IInv => OnlyLeavingClientsRefuse
    BY DEF IInv, TypeOK, ConnectionsMatchSessions, OnlyLeavingClientsRefuse, Refuses
<1> QED BY Invariant, <1>1, PTL

=============================================================================
