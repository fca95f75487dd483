-------------------------- MODULE StatusListeners --------------------------
(***************************************************************************)
(* The status feed with those who listen to it, as they see the player:    *)
(* when the throttle timer expires, the oldest status that waits is handed *)
(* to MQTT and to the web sockets.  Player, with the controller in place   *)
(* of the feed, is shown to implement it.                                  *)
(***************************************************************************)
EXTENDS StatusFeed, Services

CONSTANT MaxPending    \* bound: statuses that wait to be published

vars == <<feedVars, wsVars, mqttVars>>

Init == FeedInit /\ WS!Init /\ Mqtt!Init

ReportCurrentSongToServices == Publish /\ ToServices(Head(pending))

\* The player enters a new status, or the controller replaces a waiting one.
FeedChanges ==
    /\ \/ Len(pending) < MaxPending /\ \E st \in Status : Advance(st)
       \/ Skip
    /\ UNCHANGED <<wsVars, mqttVars>>

ClientStep ==
    /\ \E c \in Clients : WS!ClientStep(c)
    /\ UNCHANGED <<feedVars, mqttVars>>

LinkStep == Mqtt!LinkStep /\ UNCHANGED <<feedVars, wsVars>>

LinkBreaks == Mqtt!Breaks /\ UNCHANGED <<feedVars, wsVars>>

Next ==
    /\ Running
    /\ \/ ReportCurrentSongToServices
       \/ FeedChanges
       \/ ClientStep
       \/ LinkStep
       \/ LinkBreaks

Spec == Init /\ [][Next]_vars

=============================================================================
