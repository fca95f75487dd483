------------------------------- MODULE Player -------------------------------
(***************************************************************************)
(* The player as a whole, but for its HTTP interface: the controller with  *)
(* its playback threads, MQTT and the web sockets.  All handlers share the *)
(* main thread: while a request stops a song, no client is served and no   *)
(* broker is answered.  An exception in any of them ends the process.      *)
(***************************************************************************)
EXTENDS CurrentSongController, Services

playerVars == <<vars, wsVars, mqttVars>>

PlayerInit == Init /\ WS!Init /\ Mqtt!Init

-----------------------------------------------------------------------------
(* The steps.                                                               *)

\* A step of the controller or of a playback thread.
Silently(step) == step /\ UNCHANGED <<wsVars, mqttVars>>

\* The throttle timer expires: the message is handed to both services.
Report ==
    /\ ReportCurrentSongToServices
    /\ ToServices(last_status_msg_)

\* The web sockets are served while the main io_service runs and is at no other handler.
ClientStep ==
    /\ main = "idle"
    /\ \E c \in Clients : WS!ClientStep(c)
    /\ UNCHANGED <<vars, mqttVars>>

\* InitializeComponents comes to MQTT, if that is wanted.
MqttInitialize ==
    /\ main = "boot"
    /\ Mqtt!Initialize
    /\ UNCHANGED <<vars, wsVars>>

MqttHandler ==
    /\ main = "idle"
    /\ Mqtt!HandlerStep
    /\ UNCHANGED <<vars, wsVars>>

\* The network and the broker wait for nobody.
BrokerTakes == Mqtt!BrokerTakes /\ UNCHANGED <<vars, wsVars>>

LinkBreaks == Mqtt!Breaks /\ UNCHANGED <<vars, wsVars>>

PlayerNext ==
    /\ Running
    /\ \/ Silently(SilentStep)
       \/ Report
       \/ ClientStep
       \/ MqttInitialize
       \/ MqttHandler
       \/ BrokerTakes
       \/ LinkBreaks

PlayerSpec == PlayerInit /\ [][PlayerNext]_playerVars

\* The fairness of the controller, and of MQTT: its handlers wait in the same FIFO as
\* those of the controller, so they get their turn, too.
PlayerFairness ==
    /\ WF_playerVars(Running /\ Silently(Start))
    /\ WF_playerVars(Running /\ Silently(ContinueRequest))
    /\ \A s \in Plays : WF_playerVars(Running /\ Silently(ThreadStep(s)))
    /\ SF_playerVars(Running /\ Silently(UpdateLastStatusMsg))
    /\ SF_playerVars(Running /\ Report)
    /\ SF_playerVars(Running /\ MqttHandler)
    /\ WF_playerVars(Running /\ BrokerTakes)

FairPlayerSpec == PlayerSpec /\ PlayerFairness

-----------------------------------------------------------------------------
(* Properties.                                                              *)

\* To MQTT and the web sockets, and so to all who listen, the controller is the status
\* feed in whose place it stands.
Listeners == INSTANCE StatusListeners WITH
    pending <- Pending, MaxPending <- MaxBacklog + MaxPlays + 1

ListenersAsComposed == Listeners!Spec

\* No message is on its way inside the player.
Settled == ~throttle_timer_set_ /\ posted = <<>>

SaysPlayed(message, s) ==
    message \in {PlayingStatus(f, s, t) : f \in Files, t \in StartTimes}

\* Nobody is left with the word that a song is played whose thread has ended: as long
\* as the thread is not alive, either a message is on its way inside the player, or what
\* each open client was given last says something else, and so does what the broker
\* retains once it has taken all that was sent.
NoGhostSong ==
    \A s \in Plays :
        Running /\ Settled /\ ~Alive(s) =>
            /\ \A c \in Clients : session[c] = "open" => ~SaysPlayed(given[c], s)
            /\ link = "up" /\ channel = <<>> => ~SaysPlayed(retained, s)

\* Everybody who listens has heard of moment n of the history of the player or of a later
\* one: the clients that are open, and the broker, if the player uses one.
HeardBy(n) ==
    /\ \A c \in Clients : session[c] = "open" => Moment(given[c]) >= n
    /\ link # "none" => Moment(retained) >= n

\* The end of every play reaches every listener, or something later does, however
\* requests, threads, clients and the broker interleave and however long the broker was
\* away, unless an exception ends the process.
EndIsHeard ==
    \A s \in Plays : (thread[s] = "exited") ~> (~Running \/ HeardBy(2 * s + 1))

=============================================================================
