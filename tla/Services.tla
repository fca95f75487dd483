------------------------------ MODULE Services ------------------------------
(***************************************************************************)
(* Those to whom the controller reports, MQTT and the web sockets, side by *)
(* side in one process, with the clients and the broker behind them.  Who  *)
(* reports is left to the modules that extend this one.                    *)
(***************************************************************************)
EXTENDS StatusMsg

CONSTANTS Clients, MaxInFlight, MaxFailures,
          Empty,        \* the empty string both services start with
          Nothing       \* stands for no message at all

ASSUME NoMessagesAssumption ==
    Empty \notin Status /\ Nothing \notin Status \cup {Empty}
ASSUME LinkBoundsAssumption == MaxInFlight \in Nat \ {0} /\ MaxFailures \in Nat

VARIABLES
    ws_connections, ws_message, session, given, ws_thrown,
    mqtt_message, link, reconnect_timer_, channel, retained, failures, mqtt_thrown

WS == INSTANCE WebSocketsApi WITH
    Messages <- Status, connections_ <- ws_connections,
    last_status_msg_ <- ws_message, thrown <- ws_thrown

Mqtt == INSTANCE MqttApi WITH
    Messages <- Status, last_status_msg_ <- mqtt_message, thrown <- mqtt_thrown

wsVars == <<ws_connections, ws_message, session, given, ws_thrown>>
mqttVars == <<mqtt_message, link, reconnect_timer_, channel, retained, failures,
              mqtt_thrown>>

\* An exception of either service ends the process, with the controller, the
\* other service and all connections.
Running == ~ws_thrown /\ ~mqtt_thrown

\* Faulty variant: the web sockets are given what MQTT was given before.
ToServicesInTurn(message) ==
    Mqtt!ReportCurrentSong(message) /\ WS!ReportCurrentSong(mqtt_message)

\* CurrentSongController::ReportCurrentSongToServices: MQTT, then the web sockets.
ToServices(message) ==
    Mqtt!ReportCurrentSong(message) /\ WS!ReportCurrentSong(message)

-----------------------------------------------------------------------------
(* Properties.                                                              *)

Moment(message) == IF message \in Status THEN Rank(message) ELSE 0

\* No listener ever sees the player go back: not a client that comes early or
\* late, and not the broker, however its connection breaks.
ListenersSeeHistoryInOrder ==
    [][/\ \A c \in Clients : Moment(given[c]) <= Moment(given'[c])
       /\ Moment(retained) <= Moment(retained')]_<<given, retained>>

=============================================================================
