------------------------------ MODULE MqttApi ------------------------------
(***************************************************************************)
(* The MQTT client: it keeps the last message published, with retain, at a *)
(* broker that may refuse it, go away and come back.  All of it runs on the*)
(* main thread, with the vendored client mqtt_cpp (sync_client), of which  *)
(* what the handlers depend on is modelled.  The network and the broker    *)
(* are external: a connection delivers in order; when it breaks the client *)
(* learns of it when its read fails, or before that when a write fails.    *)
(***************************************************************************)
EXTENDS Naturals, Sequences

CONSTANTS Messages,     \* the JSON texts that are reported
          Empty,        \* the empty string last_status_msg_ is at first
          MaxInFlight,  \* bound: messages sent and not yet taken by the broker
          MaxFailures   \* bound: connections that break or are not established

ASSUME EmptyAssumption == Empty \notin Messages
ASSUME BoundsAssumption == MaxInFlight \in Nat \ {0} /\ MaxFailures \in Nat

VARIABLES last_status_msg_,
          link,             \* the connection of mqtt_client_, see Links
          reconnect_timer_, \* whether a wait for the timer is pending
          channel,          \* messages on their way to the broker
          retained,         \* the message the broker retains
          failures,         \* how often the connection failed so far
          thrown            \* an exception ended the process

connVars == <<link, reconnect_timer_, channel>>
vars == <<last_status_msg_, connVars, retained, failures, thrown>>

\* "none": Initialize is still to come.  "connecting": async_connect is pending.
\* "connack": connected_, and CONNECT was sent.  "up": and CONNACK was handled.
\* "broken": connected_ still, but what is written is lost.  "down": not connected.
Links == {"none", "connecting", "connack", "up", "broken", "down"}

TypeOK ==
    /\ last_status_msg_ \in Messages \cup {Empty}
    /\ link \in Links
    /\ reconnect_timer_ \in BOOLEAN
    /\ channel \in Seq(Messages)
    /\ retained \in Messages \cup {Empty}
    /\ failures \in 0..MaxFailures
    /\ thrown \in BOOLEAN

Init ==
    /\ last_status_msg_ = Empty
    /\ link = "none" /\ reconnect_timer_ = FALSE /\ channel = <<>>
    /\ retained = Empty
    /\ failures = 0
    /\ thrown = FALSE

Fail == failures < MaxFailures /\ failures' = failures + 1

-----------------------------------------------------------------------------
(* What the library calls, and is called with.                              *)

\* OnError: the reconnect is put off, again if need be.  Setting the timer anew
\* cancels the pending wait, whose handler then does nothing.
\* Faulty variant: an error is only logged, as OnClose does.
ErrorIsLogged == UNCHANGED reconnect_timer_

OnError == reconnect_timer_' = TRUE

\* do_sync_write to a connection that is lost; it may still succeed, but what is
\* written goes nowhere.
WriteIsLost ==
    /\ OnError \/ UNCHANGED reconnect_timer_
    /\ UNCHANGED channel

\* Faulty variant: what is published is not looked at.
AnyString(message) == TRUE

IsMessage(message) == message # Empty

\* PublishCurrentSong, publish_exactly_once: with a connection the message is
\* written to it; without one nothing is sent.  A write error is handed to OnError,
\* but connected_ stays TRUE until the read fails, too.
PublishCurrentSong(message) ==
    \/ /\ IsMessage(message) /\ link \in {"connack", "up"}
       /\ channel' = Append(channel, message)
       /\ UNCHANGED reconnect_timer_
    \/ /\ ~IsMessage(message) \/ link \notin {"connack", "up"}
       /\ UNCHANGED <<channel, reconnect_timer_>>
    \/ IsMessage(message) /\ link = "broken" /\ WriteIsLost

\* mqtt_client_->connect begins with resolving the name of the host, which may throw
\* before the socket is touched.
ResolveThrows == thrown' = TRUE /\ UNCHANGED link /\ Fail

\* The name is resolved and the connection under way, or ...
Connect ==
    \/ link' = "connecting" /\ UNCHANGED <<failures, thrown>>
    \/ ResolveThrows

\* ... the read of the lost connection is still pending: it is aborted, and its
\* handler closes the new socket, so that the connection fails at once.
ConnectInVain == link' = "down" /\ UNCHANGED <<failures, thrown>>

-----------------------------------------------------------------------------

Initialize ==
    /\ ~thrown /\ link = "none"
    /\ Connect
    /\ UNCHANGED <<last_status_msg_, reconnect_timer_, channel, retained>>

\* Faulty variant: only what could not be sent is kept for the next connection.
KeepUnsent(message) ==
    last_status_msg_' = IF link = "up" THEN last_status_msg_ ELSE message

Keep(message) == last_status_msg_' = message

ReportCurrentSong(message) ==
    /\ ~thrown
    /\ Len(channel) < MaxInFlight
    /\ Keep(message)
    /\ PublishCurrentSong(message)
    /\ UNCHANGED <<link, retained, failures, thrown>>

\* async_connect is over.
Connected ==
    /\ ~thrown /\ link = "connecting"
    /\ link' = "connack"
    /\ UNCHANGED <<last_status_msg_, reconnect_timer_, channel, retained,
                   failures, thrown>>

ConnectFails ==
    /\ ~thrown /\ link = "connecting"
    /\ Fail
    /\ link' = "down" /\ OnError
    /\ UNCHANGED <<last_status_msg_, channel, retained, thrown>>

\* Faulty variant: only a report publishes.
NothingToRepeat == Empty

MessageOnConnAck == last_status_msg_

\* OnConnAck; a broker that accepts keeps the connection.
OnConnAck ==
    /\ ~thrown /\ link = "connack"
    /\ link' = "up"
    /\ PublishCurrentSong(MessageOnConnAck)
    /\ UNCHANGED <<last_status_msg_, retained, failures, thrown>>

\* OnConnAck with another return code does the same, but the broker takes nothing
\* and closes the connection.
OnConnAckRefused ==
    /\ ~thrown /\ link = "connack"
    /\ Fail
    /\ link' = "broken" /\ channel' = <<>>
    /\ OnError \/ UNCHANGED reconnect_timer_
    /\ UNCHANGED <<last_status_msg_, retained, thrown>>

\* The connection is lost, and with it what is on its way; the broker may have
\* taken any part of that before.
Breaks ==
    /\ ~thrown /\ link \in {"connack", "up"}
    /\ Fail
    /\ link' = "broken" /\ channel' = <<>>
    /\ retained' \in {retained} \cup {channel[i] : i \in 1..Len(channel)}
    /\ UNCHANGED <<last_status_msg_, reconnect_timer_, thrown>>

\* handle_close_or_error: the read of a lost connection fails.
ReadFails ==
    /\ ~thrown /\ link = "broken"
    /\ link' = "down" /\ OnError
    /\ UNCHANGED <<last_status_msg_, channel, retained, failures, thrown>>

\* The reconnect timer expires.
Reconnect ==
    /\ ~thrown /\ reconnect_timer_
    /\ \/ link # "broken" /\ Connect /\ reconnect_timer_' = FALSE
       \/ link = "broken" /\ ResolveThrows /\ reconnect_timer_' = FALSE
       \/ link = "broken" /\ ConnectInVain /\ OnError
    /\ UNCHANGED <<last_status_msg_, channel, retained>>

\* The broker takes a message and keeps it, since it is published with retain.  It
\* may take one before CONNACK is handled here; the client cannot tell.
BrokerTakes ==
    /\ link = "up" /\ channel # <<>>
    /\ retained' = Head(channel)
    /\ channel' = Tail(channel)
    /\ UNCHANGED <<last_status_msg_, link, reconnect_timer_, failures, thrown>>

\* The handlers of the client.
HandlerStep ==
    \/ Connected
    \/ ConnectFails
    \/ OnConnAck
    \/ OnConnAckRefused
    \/ ReadFails
    \/ Reconnect

LinkStep == Initialize \/ HandlerStep \/ BrokerTakes

Next == Breaks \/ LinkStep \/ \E message \in Messages : ReportCurrentSong(message)

Spec == Init /\ [][Next]_vars

\* The network answers, and the system tells of a lost connection; once the broker
\* stops failing it stays.
FairSpec == Spec /\ WF_vars(LinkStep)

-----------------------------------------------------------------------------
(* Properties.                                                              *)

\* A lost connection is never forgotten: without one, the timer that brings it
\* back is set.  With one there is no timer that would replace it.
RetriedOnceLost ==
    ~thrown => /\ link = "down" => reconnect_timer_
               /\ reconnect_timer_ => link \in {"down", "broken"}

\* What the player reported last is on its way to the broker, or there already,
\* as soon as the connection stands: nothing sent before or during the outage
\* overtakes it.
LastMessageIsOnItsWay ==
    link = "up" /\ last_status_msg_ # Empty =>
        last_status_msg_ = IF channel = <<>> THEN retained ELSE channel[Len(channel)]

\* However often the connection breaks, once the broker stays and nothing new is
\* reported it ends up with the last message - unless its name could no longer be
\* resolved, which ends the player.
BrokerCatchesUp ==
    \/ []<><<last_status_msg_' # last_status_msg_>>_vars
    \/ <>[](thrown \/ (link = "up" /\ retained = last_status_msg_))

=============================================================================
