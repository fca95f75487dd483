----------------------- MODULE StatusListeners_proofs -----------------------
(***************************************************************************)
(* Proofs about StatusListeners: any number of plays and of clients, and   *)
(* a broker whose connection breaks any number of times.                   *)
(***************************************************************************)
EXTENDS StatusListeners, TLAPS

-----------------------------------------------------------------------------
(* The inductive invariant.                                                 *)

Sorted(messages) ==
    \A i, j \in 1..Len(messages) :
        i <= j => Rank(messages[i]) <= Rank(messages[j])

\* The statuses that wait are in order, and none is before the one published.
FeedInv ==
    /\ pending \in Seq(Status) /\ published \in Status \cup {NoStatus}
    /\ Sorted(pending)
    /\ \A i \in 1..Len(pending) : Rank(published) <= Rank(pending[i])

\* Both services keep what was published.
KeptInv ==
    /\ ws_message = mqtt_message
    /\ mqtt_message = IF published = NoStatus THEN Empty ELSE published

\* No client was given anything later than that.
ClientsInv ==
    /\ given \in [Clients -> Status \cup {Empty, Nothing}]
    /\ \A c \in Clients : Moment(given[c]) <= Moment(ws_message)

\* What is on its way to the broker is in order, none of it before the message that
\* the broker has, or after the one that MqttApi keeps.
BrokerInv ==
    /\ channel \in Seq(Status) /\ retained \in Status \cup {Empty}
    /\ Sorted(channel)
    /\ Moment(retained) <= Moment(mqtt_message)
    /\ \A i \in 1..Len(channel) :
          /\ Moment(retained) <= Rank(channel[i])
          /\ Rank(channel[i]) <= Moment(mqtt_message)

IInv == FeedInv /\ KeptInv /\ ClientsInv /\ BrokerInv

-----------------------------------------------------------------------------
(* Statuses and sequences of them.                                          *)

LEMMA RankType ==
    /\ \A st \in Status : Rank(st) \in Nat /\ Rank(st) > 0
    /\ Rank(NoStatus) = -1
    /\ NoStatus \notin Status
<1>1. ASSUME NEW st \in Status
      PROVE  /\ st.play_seq_id \in Nat /\ st.song_is_playing \in BOOLEAN
             /\ st.song_is_playing => st.play_seq_id > 0
    <2>1. Plays \subseteq Nat \ {0}
        BY MaxPlaysAssumption DEF Plays
    <2>2. CASE \E f \in Files, s \in Plays, t \in StartTimes : st = PlayingStatus(f, s, t)
        BY <2>1, <2>2 DEF PlayingStatus, Message
    <2>3. CASE \E f \in Files, s \in Plays : st = StoppedStatus(f, s)
        BY <2>1, <2>3 DEF StoppedStatus, Message
    <2>4. CASE st = InitialStatus
        BY <2>4 DEF InitialStatus, StoppedStatus, Message
    <2> QED BY <2>2, <2>3, <2>4 DEF Status
<1>2. NoStatus.play_seq_id = -1 /\ ~NoStatus.song_is_playing
    BY DEF NoStatus, StoppedStatus, Message
<1>3. Rank(NoStatus) = -1
    BY <1>2 DEF Rank
<1>4. NoStatus \notin Status
    BY <1>1, <1>2
<1>5. ASSUME NEW st \in Status PROVE Rank(st) \in Nat /\ Rank(st) > 0
    <2>1. CASE st.song_is_playing
        BY <1>1, <2>1 DEF Rank
    <2>2. CASE ~st.song_is_playing
        BY <1>1, <2>2 DEF Rank
    <2> QED BY <2>1, <2>2
<1> QED BY <1>3, <1>4, <1>5

LEMMA MomentType ==
    /\ \A st \in Status : Moment(st) = Rank(st)
    /\ \A m \in Status \cup {Empty, Nothing} : Moment(m) \in Nat
    /\ Moment(Empty) = 0 /\ Moment(Nothing) = 0
BY RankType, NoMessagesAssumption DEF Moment

\* The rest of a sequence in order is in order.
LEMMA TailSorted ==
    ASSUME NEW q \in Seq(Status), Sorted(q), q # <<>>
    PROVE  /\ Tail(q) \in Seq(Status) /\ Sorted(Tail(q))
           /\ \A i \in 1..Len(Tail(q)) : /\ i + 1 \in 1..Len(q)
                                         /\ Tail(q)[i] = q[i + 1]
                                         /\ Rank(Head(q)) <= Rank(Tail(q)[i])
<1>1. /\ Tail(q) \in Seq(Status) /\ Head(q) = q[1] /\ 1 \in 1..Len(q)
      /\ Len(Tail(q)) = Len(q) - 1
      /\ \A i \in 1..Len(Tail(q)) : i + 1 \in 1..Len(q) /\ Tail(q)[i] = q[i + 1]
    OBVIOUS
<1> QED BY <1>1 DEF Sorted

\* A status behind those that are not later.
LEMMA AppendSorted ==
    ASSUME NEW q \in Seq(Status), Sorted(q), NEW st \in Status,
           \A i \in 1..Len(q) : Rank(q[i]) <= Rank(st)
    PROVE  /\ Append(q, st) \in Seq(Status) /\ Sorted(Append(q, st))
           /\ \A i \in 1..Len(Append(q, st)) :
                 Append(q, st)[i] = st \/ \E j \in 1..Len(q) : Append(q, st)[i] = q[j]
<1>1. /\ Append(q, st) \in Seq(Status)
      /\ Len(Append(q, st)) = Len(q) + 1
      /\ Append(q, st)[Len(q) + 1] = st
      /\ \A i \in 1..Len(q) : Append(q, st)[i] = q[i]
    OBVIOUS
<1> DEFINE longer == Append(q, st)
<1> HIDE DEF longer
<1>2. Sorted(longer)
    <2> SUFFICES ASSUME NEW i \in 1..Len(longer), NEW j \in 1..Len(longer), i <= j
                 PROVE  Rank(longer[i]) <= Rank(longer[j])
        BY DEF Sorted
    <2>1. CASE j \in 1..Len(q)
        BY <1>1, <2>1 DEF Sorted, longer
    <2>2. CASE j = Len(q) + 1 /\ i \in 1..Len(q)
        BY <1>1, <2>2 DEF longer
    <2>3. CASE j = Len(q) + 1 /\ i = Len(q) + 1
        BY <1>1, <2>3, RankType DEF longer
    <2> QED BY <1>1, <2>1, <2>2, <2>3 DEF longer
<1> QED BY <1>1, <1>2 DEF longer

-----------------------------------------------------------------------------
(* The steps.                                                               *)

\* What a step may not do: tell a client, or the broker, of an earlier moment.
NoneGoesBack ==
    /\ \A c \in Clients : Moment(given[c]) <= Moment(given'[c])
    /\ Moment(retained) <= Moment(retained')

LEMMA StandingStill ==
    /\ IInv /\ UNCHANGED given => \A c \in Clients : Moment(given[c]) <= Moment(given'[c])
    /\ IInv /\ UNCHANGED retained => Moment(retained) <= Moment(retained')
<1> SUFFICES ASSUME IInv
             PROVE  /\ \A c \in Clients : Moment(given[c]) \in Nat
                    /\ Moment(retained) \in Nat
    OBVIOUS
<1> QED BY MomentType DEF IInv, ClientsInv, BrokerInv

LEMMA InitEstablishes == Init => IInv
<1> SUFFICES ASSUME Init PROVE IInv
    OBVIOUS
<1>1. /\ pending = <<InitialStatus>> /\ published = NoStatus
      /\ ws_message = Empty /\ mqtt_message = Empty
      /\ given = [c \in Clients |-> Nothing]
      /\ channel = <<>> /\ retained = Empty
    BY DEF Init, FeedInit, WS!Init, Mqtt!Init
<1>2. InitialStatus \in Status /\ Rank(NoStatus) <= Rank(InitialStatus)
    BY RankType DEF Status
<1>3. FeedInv
    <2>1. pending \in Seq(Status) /\ Len(pending) = 1 /\ pending[1] = InitialStatus
        BY <1>1, <1>2
    <2> QED BY <1>1, <1>2, <2>1, RankType DEF FeedInv, Sorted
<1>4. KeptInv
    BY <1>1 DEF KeptInv
<1>5. ClientsInv
    BY <1>1, MomentType DEF ClientsInv
<1>6. BrokerInv
    <2>1. channel \in Seq(Status) /\ Len(channel) = 0
        BY <1>1
    <2> QED BY <1>1, <2>1, MomentType DEF BrokerInv, Sorted
<1> QED BY <1>3, <1>4, <1>5, <1>6 DEF IInv

\* What the player goes through does not reach the services.
LEMMA FeedChangesKeeps == ASSUME IInv, FeedChanges PROVE IInv' /\ NoneGoesBack
<1> USE DEF IInv, FeedInv
<1>1. FeedInv'
    <2>1. ASSUME NEW st \in Status, Advance(st) PROVE FeedInv'
        <3>1. \A i \in 1..Len(pending) : Rank(pending[i]) <= Rank(st)
            <4>1. SUFFICES ASSUME NEW i \in 1..Len(pending)
                           PROVE  Rank(pending[i]) <= Rank(st)
                OBVIOUS
            <4>2. pending # <<>> /\ Len(pending) \in 1..Len(pending)
                OBVIOUS
            <4>3. Rank(pending[Len(pending)]) <= Rank(st)
                BY <2>1, <4>2 DEF Advance, Newest
            <4>4. Rank(pending[i]) <= Rank(pending[Len(pending)])
                BY <4>2 DEF Sorted
            <4>5. pending[i] \in Status /\ pending[Len(pending)] \in Status
                BY <4>2
            <4> QED BY <4>3, <4>4, <4>5, RankType
        <3>2. Rank(published) <= Rank(st)
            <4>1. CASE pending = <<>>
                BY <2>1, <4>1 DEF Advance, Newest
            <4>2. CASE pending # <<>>
                <5>1. Len(pending) \in 1..Len(pending) /\ pending[Len(pending)] \in Status
                    BY <4>2
                <5>2. Rank(published) <= Rank(pending[Len(pending)])
                    BY <5>1
                <5> QED BY <3>1, <5>1, <5>2, RankType
            <4> QED BY <4>1, <4>2
        <3>3. pending' = Append(pending, st) /\ UNCHANGED published
            BY <2>1 DEF Advance
        <3> QED BY <3>1, <3>2, <3>3, AppendSorted
    <2>2. CASE Skip
        <3>1. pending # <<>> /\ pending' = Tail(pending) /\ UNCHANGED published
            BY <2>2 DEF Skip
        <3> QED BY <3>1, TailSorted
    <2> QED BY <2>1, <2>2 DEF FeedChanges
<1>2. UNCHANGED <<published, ws_message, mqtt_message, given, channel, retained>>
    BY DEF FeedChanges, Advance, Skip, wsVars, mqttVars
<1>3. NoneGoesBack
    BY <1>2, StandingStill DEF NoneGoesBack
<1> QED BY <1>1, <1>2, <1>3 DEF KeptInv, ClientsInv, BrokerInv

\* The message that is published is not before the one published last, so that it
\* takes its place behind everything that was given or sent.
LEMMA ReportKeeps == ASSUME IInv, ReportCurrentSongToServices PROVE IInv' /\ NoneGoesBack
<1> DEFINE message == Head(pending)
<1>1. pending # <<>> /\ Publish /\ ToServices(message)
    BY DEF ReportCurrentSongToServices, Publish
<1>2. message \in Status /\ message = pending[1] /\ 1 \in 1..Len(pending)
    BY <1>1 DEF IInv, FeedInv
<1>3. /\ published' = message
      /\ pending' = Tail(pending)
      /\ mqtt_message' = message /\ ws_message' = message
    BY <1>1 DEF Publish, ToServices, Mqtt!ReportCurrentSong, Mqtt!Keep,
                WS!ReportCurrentSong
<1>4. Moment(mqtt_message) <= Rank(message)
    <2>1. CASE published = NoStatus
        BY <1>2, <2>1, MomentType, RankType DEF IInv, KeptInv
    <2>2. CASE published # NoStatus
        <3>1. published \in Status /\ mqtt_message = published
            BY <2>2 DEF IInv, FeedInv, KeptInv
        <3> QED BY <1>2, <3>1, MomentType DEF IInv, FeedInv
    <2> QED BY <2>1, <2>2
<1>5. /\ Moment(mqtt_message) \in Nat /\ Moment(message) = Rank(message)
      /\ Moment(mqtt_message)' = Rank(message) /\ Rank(message) \in Nat
    <2>1. mqtt_message \in Status \cup {Empty}
        BY DEF IInv, FeedInv, KeptInv
    <2>2. Moment(mqtt_message') = Rank(message)
        BY <1>2, <1>3, MomentType
    <2> QED BY <1>2, <2>1, <2>2, MomentType, RankType DEF Moment
<1>6. FeedInv'
    BY <1>1, <1>2, <1>3, TailSorted DEF IInv, FeedInv
<1>7. KeptInv'
    BY <1>2, <1>3, RankType DEF KeptInv
<1>8. ClientsInv' /\ \A c \in Clients : Moment(given[c]) <= Moment(given'[c])
    <2>1. PICK served \in SUBSET Clients :
             given' = [c \in Clients |-> IF c \in served THEN message ELSE given[c]]
        <3>1. WS!ReportCurrentSong(message)
            BY <1>1 DEF ToServices
        <3>2. CASE WS!Give(ws_connections, message)
            <4>1. given' = [c \in Clients |-> IF c \in ws_connections \cap Clients
                                             THEN message ELSE given[c]]
                BY <3>2 DEF WS!Give
            <4> QED BY <4>1
        <3>3. CASE \E served \in SUBSET {c \in ws_connections : ~WS!Refuses(c)} :
                      WS!Give(served, message)
            <4>1. PICK served \in SUBSET {c \in ws_connections : ~WS!Refuses(c)} :
                      WS!Give(served, message)
                BY <3>3
            <4>2. given' = [c \in Clients |-> IF c \in served \cap Clients
                                             THEN message ELSE given[c]]
                BY <4>1 DEF WS!Give
            <4> QED BY <4>2
        <3> QED BY <3>1, <3>2, <3>3 DEF WS!ReportCurrentSong
    <2>2. \A c \in Clients : Moment(given[c]) \in Nat
        BY MomentType DEF IInv, ClientsInv
    <2>3. \A c \in Clients : Moment(given[c]) <= Rank(message)
        BY <1>4, <1>5, <2>2 DEF IInv, ClientsInv, KeptInv
    <2>4. \A c \in Clients : given'[c] = message \/ given'[c] = given[c]
        BY <2>1
    <2>5. given' \in [Clients -> Status \cup {Empty, Nothing}]
        BY <1>2, <2>1 DEF IInv, ClientsInv
    <2>6. \A c \in Clients : Moment(given'[c]) <= Rank(message)
        BY <1>5, <2>3, <2>4
    <2>7. Moment(ws_message') = Rank(message)
        BY <1>3, <1>5
    <2>8. \A c \in Clients : Moment(given[c]) <= Moment(given'[c])
        BY <1>5, <2>2, <2>3, <2>4
    <2> QED BY <2>5, <2>6, <2>7, <2>8 DEF ClientsInv, Moment
<1>9. BrokerInv'
    <2>1. UNCHANGED retained /\ (channel' = Append(channel, message) \/ UNCHANGED channel)
        BY <1>1 DEF ToServices, Mqtt!ReportCurrentSong, Mqtt!PublishCurrentSong,
                    Mqtt!WriteIsLost
    <2>2. \A i \in 1..Len(channel) :
             /\ channel[i] \in Status /\ Rank(channel[i]) <= Rank(message)
             /\ Moment(retained) <= Rank(channel[i])
        BY <1>4, <1>5, RankType DEF IInv, BrokerInv
    <2>3. Moment(retained) \in Nat /\ Moment(retained) <= Rank(message)
        BY <1>4, <1>5, MomentType DEF IInv, BrokerInv
    <2>4. /\ channel' \in Seq(Status) /\ Sorted(channel')
          /\ \A i \in 1..Len(channel') : /\ Moment(retained) <= Rank(channel'[i])
                                         /\ Rank(channel'[i]) <= Rank(message)
        <3>1. CASE channel' = Append(channel, message)
            BY <1>2, <1>5, <2>2, <2>3, <3>1, AppendSorted DEF IInv, BrokerInv
        <3>2. CASE UNCHANGED channel
            BY <2>2, <3>2 DEF IInv, BrokerInv
        <3> QED BY <2>1, <3>1, <3>2
    <2>5. retained' = retained /\ retained \in Status \cup {Empty}
        BY <2>1 DEF IInv, BrokerInv
    <2>6. Moment(mqtt_message') = Rank(message)
        BY <1>3, <1>5
    <2> QED BY <2>3, <2>4, <2>5, <2>6 DEF BrokerInv, Sorted, Moment
<1>10. UNCHANGED retained
    BY <1>1 DEF ToServices, Mqtt!ReportCurrentSong
<1> QED BY <1>6, <1>7, <1>8, <1>9, <1>10, StandingStill DEF IInv, NoneGoesBack

\* Clients that come are given the message kept.
LEMMA ClientStepKeeps == ASSUME IInv, ClientStep PROVE IInv' /\ NoneGoesBack
<1>1. PICK c \in Clients : WS!ClientStep(c)
    BY DEF ClientStep
<1>2. UNCHANGED <<pending, published, mqtt_message, channel, retained, ws_message>>
    BY <1>1 DEF ClientStep, feedVars, mqttVars, WS!ClientStep, WS!OnOpen,
                WS!OnOpenThrows, WS!SessionEnds, WS!OnClose
<1>3. \/ UNCHANGED given
      \/ given' = [d \in Clients |-> IF d \in {c} THEN ws_message ELSE given[d]]
    BY <1>1 DEF WS!ClientStep, WS!OnOpen, WS!OnOpenThrows, WS!SessionEnds, WS!OnClose,
                WS!Greet, WS!Give
<1>4. ws_message \in Status \cup {Empty} /\ Moment(ws_message) \in Nat
    BY MomentType DEF IInv, FeedInv, KeptInv
<1>5. ClientsInv' /\ \A d \in Clients : Moment(given[d]) <= Moment(given'[d])
    <2>1. given' \in [Clients -> Status \cup {Empty, Nothing}]
        BY <1>3, <1>4 DEF IInv, ClientsInv
    <2>2. \A d \in Clients : given'[d] = ws_message \/ given'[d] = given[d]
        BY <1>3
    <2>3. \A d \in Clients : Moment(given'[d]) <= Moment(ws_message)
        BY <1>4, <2>2 DEF IInv, ClientsInv
    <2>4. \A d \in Clients : Moment(given[d]) \in Nat
                            /\ Moment(given[d]) <= Moment(ws_message)
        BY MomentType DEF IInv, ClientsInv
    <2>5. \A d \in Clients : Moment(given[d]) <= Moment(given'[d])
        BY <2>2, <2>4
    <2> QED BY <1>2, <2>1, <2>3, <2>5 DEF ClientsInv, Moment
<1> QED BY <1>2, <1>5, StandingStill
        DEF IInv, FeedInv, KeptInv, BrokerInv, NoneGoesBack

\* A connection delivers in order, and whatever is sent over a new one is the
\* message kept.
LEMMA LinkKeeps == ASSUME IInv, LinkStep \/ LinkBreaks PROVE IInv' /\ NoneGoesBack
<1> USE DEF IInv, BrokerInv
<1>1. UNCHANGED <<pending, published, ws_message, given, mqtt_message>>
    BY DEF LinkStep, LinkBreaks, feedVars, wsVars, Mqtt!Breaks, Mqtt!LinkStep, Mqtt!HandlerStep,
           Mqtt!Initialize, Mqtt!Connected, Mqtt!ConnectFails, Mqtt!OnConnAck,
           Mqtt!OnConnAckRefused, Mqtt!ReadFails, Mqtt!Reconnect, Mqtt!BrokerTakes
<1>2. BrokerInv' /\ Moment(retained) <= Moment(retained')
    <2>1. Moment(mqtt_message) \in Nat /\ Moment(retained) \in Nat
          /\ \A i \in 1..Len(channel) : channel[i] \in Status
                                       /\ Moment(channel[i]) = Rank(channel[i])
        <3>1. mqtt_message \in Status \cup {Empty}
            BY DEF FeedInv, KeptInv
        <3> QED BY <3>1, MomentType
    <2>2. CASE UNCHANGED <<channel, retained>>
        BY <1>1, <2>2, StandingStill DEF Moment
    <2>3. CASE /\ channel' = <<>>
               /\ retained' \in {retained} \cup {channel[i] : i \in 1..Len(channel)}
        <3>1. channel' \in Seq(Status) /\ Len(channel') = 0
            BY <2>3
        <3>2. retained' \in Status \cup {Empty} /\ Moment(retained') <= Moment(mqtt_message)
            BY <2>1, <2>3
        <3>3. Moment(retained) <= Moment(retained')
            BY <2>1, <2>3
        <3> QED BY <1>1, <3>1, <3>2, <3>3 DEF Sorted, Moment
    <2>4. CASE /\ mqtt_message # Empty /\ channel' = Append(channel, mqtt_message)
               /\ UNCHANGED retained
        <3>1. mqtt_message \in Status /\ Moment(mqtt_message) = Rank(mqtt_message)
            BY <2>4, MomentType DEF FeedInv, KeptInv
        <3>2. channel' \in Seq(Status) /\ Sorted(channel')
            BY <2>4, <3>1, AppendSorted
        <3>3. \A i \in 1..Len(channel') : /\ Moment(retained) <= Rank(channel'[i])
                                          /\ Rank(channel'[i]) <= Moment(mqtt_message)
            BY <2>1, <2>4, <3>1, AppendSorted
        <3> QED BY <1>1, <2>4, <3>2, <3>3, StandingStill DEF Sorted, Moment
    <2>5. CASE /\ channel # <<>> /\ retained' = Head(channel) /\ channel' = Tail(channel)
        <3>1. Head(channel) = channel[1] /\ 1 \in 1..Len(channel)
            BY <2>5
        <3>2. retained' \in Status /\ Moment(retained') = Rank(Head(channel))
              /\ Moment(retained') <= Moment(mqtt_message)
            BY <2>1, <2>5, <3>1
        <3>3. channel' \in Seq(Status) /\ Sorted(channel')
            BY <2>5, TailSorted
        <3>4. \A i \in 1..Len(channel') : /\ Moment(retained') <= Rank(channel'[i])
                                          /\ Rank(channel'[i]) <= Moment(mqtt_message)
            BY <2>5, <3>2, TailSorted
        <3>5. Moment(retained) <= Moment(retained')
            BY <3>1, <3>2
        <3> QED BY <1>1, <3>2, <3>3, <3>4, <3>5 DEF Sorted, Moment
    <2>6. CASE LinkBreaks
        BY <2>3, <2>6 DEF LinkBreaks, Mqtt!Breaks
    <2>7. CASE Mqtt!OnConnAck
        BY <2>2, <2>4, <2>7
           DEF Mqtt!OnConnAck, Mqtt!PublishCurrentSong, Mqtt!MessageOnConnAck,
               Mqtt!IsMessage, Mqtt!WriteIsLost
    <2>8. CASE Mqtt!OnConnAckRefused
        BY <2>3, <2>8 DEF Mqtt!OnConnAckRefused
    <2>9. CASE Mqtt!BrokerTakes
        BY <2>5, <2>9 DEF Mqtt!BrokerTakes
    <2>10. CASE Mqtt!Initialize \/ Mqtt!Connected \/ Mqtt!ConnectFails
                \/ Mqtt!ReadFails \/ Mqtt!Reconnect
        BY <2>2, <2>10 DEF Mqtt!Initialize, Mqtt!Connected, Mqtt!ConnectFails,
                           Mqtt!ReadFails, Mqtt!Reconnect
    <2> QED BY <2>6, <2>7, <2>8, <2>9, <2>10 DEF LinkStep, Mqtt!LinkStep, Mqtt!HandlerStep
<1> QED BY <1>1, <1>2, StandingStill DEF FeedInv, KeptInv, ClientsInv, NoneGoesBack

LEMMA StepPreserves == IInv /\ [Next]_vars => IInv' /\ NoneGoesBack
<1> SUFFICES ASSUME IInv, [Next]_vars PROVE IInv' /\ NoneGoesBack
    OBVIOUS
<1>1. CASE UNCHANGED vars
    BY <1>1, StandingStill
       DEF vars, feedVars, wsVars, mqttVars, IInv, FeedInv, KeptInv, ClientsInv,
           BrokerInv, NoneGoesBack
<1> QED BY <1>1, FeedChangesKeeps, ReportKeeps, ClientStepKeeps, LinkKeeps DEF Next

THEOREM Invariance == Spec => []IInv
BY InitEstablishes, StepPreserves, PTL DEF Spec

\* Neither a client nor the broker ever sees the player go back.
THEOREM NobodySeesPlayerGoBack == Spec => ListenersSeeHistoryInOrder
<1>1. IInv /\ [Next]_vars =>
        [/\ \A c \in Clients : Moment(given[c]) <= Moment(given'[c])
         /\ Moment(retained) <= Moment(retained')]_<<given, retained>>
    BY StepPreserves DEF NoneGoesBack
<1> QED BY <1>1, Invariance, PTL DEF Spec, ListenersSeeHistoryInOrder

=============================================================================
