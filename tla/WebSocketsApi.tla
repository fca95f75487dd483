--------------------------- MODULE WebSocketsApi ---------------------------
(***************************************************************************)
(* The web socket clients and what each of them is given.  All of it runs  *)
(* on the main thread.  The vendored websocketpp holds the state of a      *)
(* session and tells of its end later than it ends: while the close        *)
(* handshake or the shutdown of the socket is under way, the connection is *)
(* still in connections_, and a message to it is refused by an exception.  *)
(***************************************************************************)
EXTENDS Naturals

CONSTANTS Clients,     \* handles of connections; none is used twice
          Messages,    \* the JSON texts that are reported
          Empty,       \* the empty string last_status_msg_ is at first
          Nothing      \* stands for no message at all

ASSUME EmptyAssumption == Empty \notin Messages
ASSUME NothingAssumption == Nothing \notin Messages \cup {Empty}

VARIABLES connections_,
          last_status_msg_,
          session,     \* the state of each session in the library
          given,       \* the message each client was given last, or Nothing
          thrown       \* an exception left io_service::run: the process ended

vars == <<connections_, last_status_msg_, session, given, thrown>>

TypeOK ==
    /\ connections_ \subseteq Clients
    /\ last_status_msg_ \in Messages \cup {Empty}
    /\ session \in [Clients -> {"none", "open", "closing", "closed"}]
    /\ given \in [Clients -> Messages \cup {Empty, Nothing}]
    /\ thrown \in BOOLEAN

Init ==
    /\ connections_ = {}
    /\ last_status_msg_ = Empty
    /\ session = [c \in Clients |-> "none"]
    /\ given = [c \in Clients |-> Nothing]
    /\ thrown = FALSE

Give(receivers, message) ==
    given' = [c \in Clients |-> IF c \in receivers THEN message ELSE given[c]]

\* server_.send throws for a connection whose session is not open.
Refuses(c) == session[c] # "open"

\* The message is kept, and sent to one connection after the other.  They come
\* in the order of their addresses: which of them are served before the one that
\* makes send throw is not known.
ReportCurrentSong(message) ==
    /\ ~thrown
    /\ last_status_msg_' = message
    /\ \/ /\ \A c \in connections_ : ~Refuses(c)
          /\ Give(connections_, message)
          /\ UNCHANGED thrown
       \/ /\ \E c \in connections_ : Refuses(c)
          /\ \E served \in SUBSET {c \in connections_ : ~Refuses(c)} :
                Give(served, message)
          /\ thrown' = TRUE
    /\ UNCHANGED <<connections_, session>>

\* Faulty variant: a new client waits for the next report.
GreetNobody(c) == UNCHANGED given

Greet(c) == Give({c}, last_status_msg_)

\* The handshake is over: the new client is given the last message at once.
OnOpen(c) ==
    /\ ~thrown
    /\ session[c] = "none"
    /\ session' = [session EXCEPT ![c] = "open"]
    /\ connections_' = connections_ \cup {c}
    /\ Greet(c)
    /\ UNCHANGED <<last_status_msg_, thrown>>

\* As above, but the client has gone already: remote_endpoint throws.
OnOpenThrows(c) ==
    /\ ~thrown
    /\ session[c] = "none"
    /\ session' = [session EXCEPT ![c] = "open"]
    /\ connections_' = connections_ \cup {c}
    /\ thrown' = TRUE
    /\ UNCHANGED <<last_status_msg_, given>>

\* The library receives a close frame, or an error of the socket.
SessionEnds(c) ==
    /\ ~thrown
    /\ session[c] = "open"
    /\ session' = [session EXCEPT ![c] = "closing"]
    /\ UNCHANGED <<connections_, last_status_msg_, given, thrown>>

\* Faulty variant: the connection is not erased.
KeptConnections(c) == connections_

OtherConnections(c) == connections_ \ {c}

OnClose(c) ==
    /\ ~thrown
    /\ session[c] = "closing"
    /\ session' = [session EXCEPT ![c] = "closed"]
    /\ connections_' = OtherConnections(c)
    /\ UNCHANGED <<last_status_msg_, given, thrown>>

ClientStep(c) ==
    \/ OnOpen(c)
    \/ OnOpenThrows(c)
    \/ SessionEnds(c)
    \/ OnClose(c)

Next ==
    \/ \E message \in Messages : ReportCurrentSong(message)
    \/ \E c \in Clients : ClientStep(c)

Spec == Init /\ [][Next]_vars

-----------------------------------------------------------------------------
(* Properties.                                                              *)

\* While the player runs, every open client knows the last message reported,
\* whenever it connected and whoever connects or leaves meanwhile.  Before the first
\* report that is the empty string, and it is sent, too.
OpenClientsAreUpToDate ==
    ~thrown => \A c \in Clients :
                  session[c] = "open" => given[c] = last_status_msg_

\* A report ends the player only in the short time in which a client leaves: once
\* the close handler of every client that left has run, a report serves everyone.
OnlyLeavingClientsRefuse ==
    ~thrown => \A c \in connections_ :
                  Refuses(c) => session[c] = "closing"

\* Every client that wishes "to receive push notifications" is sent each report.
ReportsReachOpenClients ==
    [][last_status_msg_' # last_status_msg_ =>
         \A c \in connections_ : session[c] = "open" => given'[c] = last_status_msg_']_vars

=============================================================================
