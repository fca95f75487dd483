--------------------------- MODULE MqttApi_proofs ---------------------------
(***************************************************************************)
(* Proofs about MqttApi, for any messages and any bounds.                  *)
(***************************************************************************)
EXTENDS MqttApi, SequenceTheorems, TLAPS

\* The conjunction is inductive as it stands.
IInv == TypeOK /\ RetriedOnceLost /\ LastMessageIsOnItsWay

LEMMA InitEstablishes == Init => IInv
<1> SUFFICES ASSUME Init PROVE IInv
    OBVIOUS
<1>1. channel \in Seq(Messages)
    BY EmptySeq DEF Init
<1>2. failures \in 0..MaxFailures
    BY BoundsAssumption DEF Init
<1> QED BY <1>1, <1>2
        DEF Init, IInv, TypeOK, Links, RetriedOnceLost, LastMessageIsOnItsWay

\* What a publish does to the channel and to the timer.
LEMMA Publishing ==
    ASSUME TypeOK, NEW message \in Messages \cup {Empty}, PublishCurrentSong(message)
    PROVE  /\ channel' \in Seq(Messages)
           /\ reconnect_timer_' \in BOOLEAN
           /\ link # "broken" => reconnect_timer_' = reconnect_timer_
           /\ reconnect_timer_ => reconnect_timer_'
           /\ link \in {"connack", "up"} /\ message # Empty =>
                channel' # <<>> /\ channel'[Len(channel')] = message
<1> USE DEF TypeOK, IsMessage
<1>1. CASE /\ message # Empty /\ link \in {"connack", "up"}
           /\ channel' = Append(channel, message)
           /\ UNCHANGED reconnect_timer_
    <2>1. message \in Messages
        BY <1>1
    <2>2. Append(channel, message) \in Seq(Messages)
        BY <2>1
    <2>3. /\ Len(Append(channel, message)) = Len(channel) + 1
          /\ Append(channel, message)[Len(channel) + 1] = message
        BY <2>1
    <2>4. Append(channel, message) # <<>>
        BY <2>3
    <2> QED BY <1>1, <2>2, <2>3, <2>4
<1>2. CASE UNCHANGED <<channel, reconnect_timer_>>
           /\ (message = Empty \/ link \notin {"connack", "up"})
    BY <1>2
<1>3. CASE message # Empty /\ link = "broken" /\ WriteIsLost
    <2>1. UNCHANGED channel /\ link \notin {"connack", "up"}
        BY <1>3 DEF WriteIsLost
    <2>2. reconnect_timer_' \in BOOLEAN /\ (reconnect_timer_ => reconnect_timer_')
        <3>1. CASE reconnect_timer_' = TRUE
            BY <3>1, Zenon
        <3>2. CASE reconnect_timer_' = reconnect_timer_
            BY <3>2, Zenon DEF TypeOK
        <3> QED BY <1>3, <3>1, <3>2, Zenon DEF WriteIsLost, OnError
    <2> QED BY <1>3, <2>1, <2>2
<1> QED BY <1>1, <1>2, <1>3 DEF PublishCurrentSong

\* The process ends when the timer expires and the host has no name any more.
LEMMA Throwing ==
    ASSUME IInv, ResolveThrows, reconnect_timer_' = FALSE,
           UNCHANGED <<last_status_msg_, channel, retained>>
    PROVE  IInv'
<1>1. failures' \in 0..MaxFailures
    BY BoundsAssumption DEF ResolveThrows, Fail, IInv, TypeOK
<1> QED BY <1>1 DEF ResolveThrows, IInv, TypeOK, RetriedOnceLost, LastMessageIsOnItsWay

LEMMA StepPreserves == IInv /\ [Next]_vars => IInv'
<1> SUFFICES ASSUME IInv, [Next]_vars PROVE IInv'
    OBVIOUS
<1> USE BoundsAssumption DEF IInv, TypeOK, Links, RetriedOnceLost, LastMessageIsOnItsWay
<1>1. CASE Initialize
    <2>1. CASE link' = "connecting" /\ UNCHANGED <<failures, thrown>>
        BY <1>1, <2>1 DEF Initialize
    <2>2. CASE ResolveThrows
        BY <1>1, <2>2 DEF Initialize, ResolveThrows, Fail
    <2> QED BY <1>1, <2>1, <2>2 DEF Initialize, Connect
<1>2. CASE Connected
    BY <1>2 DEF Connected
<1>3. CASE ConnectFails
    BY <1>3 DEF ConnectFails, Fail, OnError
<1>4. CASE OnConnAck
    <2>1. last_status_msg_ \in Messages \cup {Empty} /\ link = "connack"
          /\ PublishCurrentSong(last_status_msg_)
        BY <1>4 DEF OnConnAck, MessageOnConnAck
    <2>2. /\ channel' \in Seq(Messages)
          /\ reconnect_timer_' = reconnect_timer_
          /\ last_status_msg_ # Empty =>
                channel' # <<>> /\ channel'[Len(channel')] = last_status_msg_
        BY <2>1, Publishing
    <2> QED BY <1>4, <2>1, <2>2 DEF OnConnAck
<1>5. CASE OnConnAckRefused
    <2>1. channel' = <<>>
        BY <1>5 DEF OnConnAckRefused
    <2>2. channel' \in Seq(Messages)
        BY <2>1, EmptySeq
    <2>3. reconnect_timer_' \in BOOLEAN
        BY <1>5, Zenon DEF OnConnAckRefused, OnError
    <2> QED BY <1>5, <2>2, <2>3 DEF OnConnAckRefused, Fail
<1>6. CASE ReadFails
    BY <1>6 DEF ReadFails, OnError
<1>7. CASE Reconnect
    <2>1. CASE link # "broken" /\ Connect /\ reconnect_timer_' = FALSE
        <3>1. CASE link' = "connecting" /\ UNCHANGED <<failures, thrown>>
            BY <1>7, <2>1, <3>1 DEF Reconnect
        <3>2. CASE ResolveThrows
            BY <1>7, <2>1, <3>2, Throwing DEF Reconnect
        <3> QED BY <2>1, <3>1, <3>2 DEF Connect
    <2>2. CASE link = "broken" /\ ResolveThrows /\ reconnect_timer_' = FALSE
        BY <1>7, <2>2, Throwing DEF Reconnect
    <2>3. CASE link = "broken" /\ ConnectInVain /\ OnError
        BY <1>7, <2>3 DEF Reconnect, ConnectInVain, OnError
    <2> QED BY <1>7, <2>1, <2>2, <2>3 DEF Reconnect
<1>8. CASE BrokerTakes
    <2>1. /\ link = "up" /\ channel \in Seq(Messages) /\ channel # <<>>
          /\ retained' = Head(channel) /\ channel' = Tail(channel)
          /\ UNCHANGED <<last_status_msg_, link, reconnect_timer_, failures, thrown>>
        BY <1>8 DEF BrokerTakes
    <2>2. TypeOK'
        BY <2>1
    <2>3. ASSUME last_status_msg_ # Empty
          PROVE  last_status_msg_ = IF channel' = <<>> THEN retained'
                                    ELSE channel'[Len(channel')]
        <3>1. last_status_msg_ = channel[Len(channel)]
            BY <2>1, <2>3
        <3>2. /\ Len(channel) \in Nat \ {0}
              /\ Len(channel') = Len(channel) - 1
              /\ \A i \in 1..Len(channel') : channel'[i] = channel[i + 1]
              /\ channel' \in Seq(Messages)
            BY <2>1
        <3>3. CASE Len(channel) = 1
            <4>1. channel' = <<>>
                BY <3>2, <3>3, EmptySeq
            <4>2. retained' = channel[1]
                BY <2>1
            <4> QED BY <3>1, <3>3, <4>1, <4>2
        <3>4. CASE Len(channel) # 1
            <4>1. channel' # <<>>
                BY <3>2, <3>4, EmptySeq
            <4>2. channel'[Len(channel')] = channel[Len(channel)]
                BY <3>2, <3>4
            <4> QED BY <3>1, <4>1, <4>2
        <3> QED BY <3>3, <3>4
    <2> QED BY <2>1, <2>2, <2>3
<1>9. CASE Breaks
    <2>1. retained' \in Messages \cup {Empty}
        BY <1>9 DEF Breaks
    <2>2. channel' = <<>>
        BY <1>9 DEF Breaks
    <2>3. channel' \in Seq(Messages)
        BY <2>2, EmptySeq
    <2> QED BY <1>9, <2>1, <2>3 DEF Breaks, Fail
<1>10. ASSUME NEW message \in Messages, ReportCurrentSong(message) PROVE IInv'
    <2>1. /\ channel' \in Seq(Messages)
          /\ reconnect_timer_' \in BOOLEAN
          /\ link # "broken" => reconnect_timer_' = reconnect_timer_
          /\ link = "up" => channel' # <<>> /\ channel'[Len(channel')] = message
        BY <1>10, Publishing, EmptyAssumption DEF ReportCurrentSong
    <2> QED BY <1>10, <2>1 DEF ReportCurrentSong, Keep
<1>11. CASE UNCHANGED vars
    BY <1>11 DEF vars, connVars
<1> QED BY <1>1, <1>2, <1>3, <1>4, <1>5, <1>6, <1>7, <1>8, <1>9, <1>10, <1>11
        DEF Next, LinkStep, HandlerStep

LEMMA Invariant == Spec => []IInv
BY InitEstablishes, StepPreserves, PTL DEF Spec

\* Type correctness; only messages, never the empty string, are published
\* (PublishCurrentSong).
THEOREM TypeCorrect == Spec => []TypeOK
<1>1. IInv => TypeOK
    BY DEF IInv
<1> QED BY Invariant, <1>1, PTL

\* A lost connection always has its retry pending (OnError).
THEOREM LostConnectionsAreRetried == Spec => []RetriedOnceLost
<1>1. IInv => RetriedOnceLost
    BY DEF IInv
<1> QED BY Invariant, <1>1, PTL

\* While the connection stands, the broker has the last message or gets it last
\* (ReportCurrentSong, OnConnAck).
THEOREM NothingOvertakesLastMessage == Spec => []LastMessageIsOnItsWay
<1>1. IInv => LastMessageIsOnItsWay
    BY DEF IInv
<1> QED BY Invariant, <1>1, PTL

=============================================================================
