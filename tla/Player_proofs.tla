---------------------------- MODULE Player_proofs ----------------------------
(***************************************************************************)
(* Proofs about CurrentSongController and, in the last sections, about the *)
(* Player it is the heart of: any set of files, start times and clients,   *)
(* any number of plays, and a broker that fails any number of times.       *)
(***************************************************************************)
EXTENDS Player, SequenceTheorems, TLAPS

USE MaxPlaysAssumption, StartTimesAssumption, NoFileAssumption,
    InitialFileAssumption, MaxBacklogAssumption
USE DEF Plays, NoTime, Goto, IosStop, PostEnd, Repeated, SetThrottleTimer,
        requestVars, outsideVars

-----------------------------------------------------------------------------
(* Facts about the messages.                                                *)

LEMMA RankOfPlaying ==
    ASSUME NEW f \in Files, NEW s \in Plays, NEW t \in StartTimes
    PROVE  /\ PlayingStatus(f, s, t) \in Status
           /\ Rank(PlayingStatus(f, s, t)) = 2 * s
           /\ PlayingStatus(f, s, t).song_is_playing
           /\ PlayingStatus(f, s, t).play_seq_id = s
           /\ PlayingStatus(f, s, t).start_time = t
<1>1. PlayingStatus(f, s, t) \in Status
  BY DEF Status
<1>2. QED BY <1>1 DEF PlayingStatus, Message, Rank

LEMMA RankOfStopped ==
    ASSUME NEW f \in Files, NEW s \in Plays
    PROVE  /\ StoppedStatus(f, s) \in Status
           /\ Rank(StoppedStatus(f, s)) = 2 * s + 1
           /\ ~StoppedStatus(f, s).song_is_playing
<1>1. StoppedStatus(f, s) \in Status
  BY DEF Status
<1>2. QED BY <1>1 DEF StoppedStatus, Message, Rank

LEMMA RankOfInitial ==
    /\ InitialStatus \in Status
    /\ Rank(InitialStatus) = 1
    /\ ~InitialStatus.song_is_playing
    /\ Rank(NoStatus) = -1
  BY DEF Status, InitialStatus, NoStatus, StoppedStatus, Message, Rank

LEMMA StatusFields ==
    ASSUME NEW st \in Status
    PROVE  /\ st.play_seq_id \in 0..MaxPlays
           /\ st.song_is_playing \in BOOLEAN
           /\ Rank(st) \in Nat
           /\ st.song_is_playing => st.play_seq_id \in Plays
<1>1. CASE \E f \in Files, s \in Plays, t \in StartTimes : st = PlayingStatus(f, s, t)
  BY <1>1 DEF PlayingStatus, Message, Rank
<1>2. CASE \E f \in Files, s \in Plays : st = StoppedStatus(f, s)
  BY <1>2 DEF StoppedStatus, Message, Rank
<1>3. CASE st = InitialStatus
  BY <1>3 DEF InitialStatus, StoppedStatus, Message, Rank
<1>4. QED BY <1>1, <1>2, <1>3 DEF Status

LEMMA RankIsInt ==
    ASSUME NEW st \in Status \cup {NoStatus}
    PROVE  Rank(st) \in Int
  BY StatusFields, RankOfInitial

LEMMA NewestIsStatus ==
    ASSUME last_status_msg_ \in Status, posted \in Seq(Status)
    PROVE  Newest \in Status
  BY DEF Newest

-----------------------------------------------------------------------------
(* The two ends of the queue of the main io_service.                        *)

StatusTypes ==
    /\ last_status_msg_ \in Status
    /\ posted \in Seq(Status)
    /\ published \in Status \cup {NoStatus}

QueueInv == StatusTypes /\ EveryStatusIsNews /\ StatusesInOrder

\* No message waiting is later than the newest one.
LEMMA NewestIsLatest ==
    ASSUME QueueInv
    PROVE  /\ Rank(last_status_msg_) <= Rank(Newest)
           /\ \A i \in 1..Len(posted) : Rank(posted[i]) <= Rank(Newest)
<1>1. CASE posted = <<>>
  BY <1>1, RankIsInt DEF QueueInv, StatusTypes, Newest
<1>2. CASE posted # <<>>
  BY <1>2, RankIsInt DEF QueueInv, StatusTypes, Newest, StatusesInOrder
<1>3. QED BY <1>1, <1>2

\* Posting a later message keeps the queue in order.
LEMMA PostKeepsQueue ==
    ASSUME QueueInv,
           NEW st \in Status,
           st # Newest,
           Rank(Newest) <= Rank(st),
           posted' = Append(posted, st),
           UNCHANGED statusVars
    PROVE  /\ QueueInv'
           /\ Newest' = st
<1>1. /\ posted' \in Seq(Status)
      /\ Len(posted') = Len(posted) + 1
      /\ posted'[Len(posted) + 1] = st
      /\ \A i \in 1..Len(posted) : posted'[i] = posted[i]
  BY DEF QueueInv, StatusTypes
<1>2. last_status_msg_' = last_status_msg_ /\ published' = published
  BY DEF statusVars
<1>3. StatusTypes'
  BY <1>1, <1>2 DEF QueueInv, StatusTypes
<1>4. Newest' = st
  BY <1>1 DEF Newest, QueueInv, StatusTypes
<1>5. EveryStatusIsNews'
  BY <1>1, <1>2 DEF QueueInv, StatusTypes, EveryStatusIsNews, Newest
<1>6. StatusesInOrder'
  <2>1. Rank(last_status_msg_) <= Rank(st)
    BY NewestIsLatest, NewestIsStatus, RankIsInt DEF QueueInv, StatusTypes
  <2>2. \A i \in 1..Len(posted) : Rank(posted[i]) <= Rank(st)
    BY NewestIsLatest, NewestIsStatus, RankIsInt DEF QueueInv, StatusTypes
  <2>3. Rank(st) <= Rank(st)
    BY RankIsInt
  <2>4. QED BY <1>1, <1>2, <2>1, <2>2, <2>3
             DEF QueueInv, StatusTypes, StatusesInOrder
<1>7. QED BY <1>3, <1>4, <1>5, <1>6 DEF QueueInv

\* Handling the oldest message keeps the queue in order, sets the timer, and
\* leaves the newest message what it was.
LEMMA UpdateKeepsQueue ==
    ASSUME QueueInv, UpdateLastStatusMsg
    PROVE  /\ QueueInv'
           /\ Newest' = Newest
           /\ last_status_msg_' = posted[1]
           /\ throttle_timer_set_' = TRUE
           /\ published' = published
<1>1. /\ posted # <<>>
      /\ Head(posted) # last_status_msg_
      /\ last_status_msg_' = posted[1]
      /\ throttle_timer_set_' = TRUE
      /\ published' = published
  BY DEF QueueInv, StatusTypes, EveryStatusIsNews, UpdateLastStatusMsg
<1>2. /\ posted' \in Seq(Status)
      /\ Len(posted') = Len(posted) - 1
      /\ Len(posted) \in Nat \ {0}
      /\ \A i \in 1..Len(posted') : posted'[i] = posted[i + 1]
  BY <1>1 DEF QueueInv, StatusTypes, UpdateLastStatusMsg
<1>3. StatusTypes'
  BY <1>1, <1>2 DEF QueueInv, StatusTypes
<1>4. Newest' = Newest
  <2>1. CASE Len(posted) = 1
    BY <1>1, <1>2, <2>1 DEF Newest, QueueInv, StatusTypes
  <2>2. CASE Len(posted) > 1
    BY <1>1, <1>2, <2>2 DEF Newest, QueueInv, StatusTypes
  <2>3. QED BY <1>2, <2>1, <2>2
<1>5. EveryStatusIsNews'
  BY <1>1, <1>2 DEF QueueInv, StatusTypes, EveryStatusIsNews
<1>6. StatusesInOrder'
  <2>1. Rank(published) <= Rank(posted[1])
    BY <1>1, <1>2, RankIsInt DEF QueueInv, StatusTypes, StatusesInOrder
  <2>2. QED BY <1>1, <1>2, <2>1 DEF QueueInv, StatusTypes, StatusesInOrder
<1>7. QED BY <1>1, <1>3, <1>4, <1>5, <1>6 DEF QueueInv

-----------------------------------------------------------------------------
(* The inductive invariant.                                                 *)

LEMMA InvImpliesQueueInv == IInv => QueueInv
  BY DEF IInv, TypeOK, QueueInv, StatusTypes

THEOREM InvInit == Init => IInv
<1> SUFFICES ASSUME Init PROVE IInv
  OBVIOUS
<1> USE DEF Init
<1>1. TypeOK
  <2>1. posted \in Seq(Status)
    OBVIOUS
  <2>2. last_status_msg_ \in Status /\ published \in Status \cup {NoStatus}
    BY RankOfInitial
  <2>3. play_seq_id_ \in 0..MaxPlays /\ alsa_service_ \in 0..MaxPlays
    OBVIOUS
  <2>4. /\ file_id_ \in [Plays -> Files \cup {NoFile}]
        /\ thread \in [Plays -> ThreadLocations]
        /\ ios_stopped \in [Plays -> BOOLEAN]
        /\ start_time \in [Plays -> StartTimes \cup {NoTime}]
        /\ pcm_open \subseteq Plays
    BY DEF ThreadLocations
  <2>5. QED BY <2>1, <2>2, <2>3, <2>4 DEF TypeOK, MainLocations
<1>2. ThreadHasItsService /\ RequestInv /\ ServiceInv
  BY DEF ThreadHasItsService, RequestInv, ServiceInv, Alive
<1>3. UnpublishedStatusHasTimer /\ NoEffectMeansEnded
  BY DEF UnpublishedStatusHasTimer, NoEffectMeansEnded
<1>4. EveryStatusIsNews /\ StatusesInOrder
  BY RankOfInitial DEF EveryStatusIsNews, StatusesInOrder
<1>5. NewestInv
  BY RankOfInitial DEF NewestInv, Newest
<1>6. QED BY <1>1, <1>2, <1>3, <1>4, <1>5 DEF IInv

\* A step that leaves the messages alone keeps what is said of them.
LEMMA QueueUntouched ==
    ASSUME IInv, UNCHANGED <<statusVars, posted>>
    PROVE  /\ UnpublishedStatusHasTimer'
           /\ EveryStatusIsNews'
           /\ StatusesInOrder'
           /\ Newest' = Newest
  BY DEF IInv, statusVars, UnpublishedStatusHasTimer, EveryStatusIsNews,
         StatusesInOrder, Newest

\* The steps of the main thread inside a request.
LEMMA RequestKeepsInv ==
    ASSUME IInv,
           \/ InitializationFails \/ Start
           \/ \E f \in Files : BeginRequest("new", f)
           \/ BeginRequest("stop", NoFile)
           \/ ContinueRequest
    PROVE  IInv'
<1> DEFINE SvcInv == ThreadHasItsService /\ NoEffectMeansEnded
                       /\ RequestInv /\ ServiceInv
<1> USE DEF IInv, mainVars, controlVars, statusVars, serviceVars,
            MainLocations, ThreadLocations
<1>1. CASE InitializationFails \/ Start
  <2> USE DEF InitializationFails, Start
  <2>1. TypeOK'
    BY <1>1 DEF TypeOK
  <2>2. SvcInv'
    BY <1>1 DEF TypeOK, ThreadHasItsService, NoEffectMeansEnded,
                RequestInv, ServiceInv, Alive
  <2>3. NewestInv'
    BY <1>1, QueueUntouched DEF NewestInv
  <2>4. QED BY <1>1, <2>1, <2>2, <2>3, QueueUntouched
<1>2. ASSUME NEW o \in {"new", "stop"}, NEW f \in Files \cup {NoFile},
             o = "new" => f \in Files, BeginRequest(o, f)
      PROVE  IInv'
  <2>1. TypeOK'
    BY <1>2 DEF BeginRequest, TypeOK, WasPlaying
  <2>2. SvcInv'
    BY <1>2 DEF BeginRequest, TypeOK, ThreadHasItsService, WasPlaying,
                NoEffectMeansEnded, RequestInv, ServiceInv, Alive
  <2>3. NewestInv'
    BY <1>2, QueueUntouched DEF BeginRequest, NewestInv
  <2>4. QED BY <1>2, <2>1, <2>2, <2>3, QueueUntouched DEF BeginRequest
<1>3. CASE SignalStop
  <2>1. TypeOK'
    BY <1>3 DEF SignalStop, TypeOK
  <2>2. SvcInv'
    BY <1>3 DEF SignalStop, TypeOK, ThreadHasItsService,
                NoEffectMeansEnded, RequestInv, ServiceInv, Alive
  <2>3. NewestInv'
    BY <1>3, QueueUntouched DEF SignalStop, NewestInv
  <2>4. QED BY <1>3, <2>1, <2>2, <2>3, QueueUntouched DEF SignalStop
<1>4. CASE JoinAndDelete
  <2>1. TypeOK'
    BY <1>4 DEF JoinAndDelete, TypeOK
  <2>2. SvcInv'
    BY <1>4 DEF JoinAndDelete, TypeOK, ThreadHasItsService, Joined,
                NoEffectMeansEnded, RequestInv, ServiceInv, Alive
  <2>3. NewestInv'
    BY <1>4, QueueUntouched DEF JoinAndDelete, NewestInv
  <2>4. QED BY <1>4, <2>1, <2>2, <2>3, QueueUntouched DEF JoinAndDelete
<1>5. CASE AnswerStop
  <2>1. TypeOK'
    BY <1>5 DEF AnswerStop, TypeOK, AfterRequest
  <2>2. SvcInv'
    BY <1>5 DEF AnswerStop, AfterRequest, TypeOK, ThreadHasItsService,
                NoEffectMeansEnded, RequestInv, ServiceInv, Alive
  <2>3. NewestInv'
    BY <1>5, QueueUntouched DEF AnswerStop, NewestInv
  <2>4. QED BY <1>5, <2>1, <2>2, <2>3, QueueUntouched DEF AnswerStop
<1>6. CASE LoadFails \/ LoadFailsAfterOpen
  <2>1. TypeOK'
    <3>1. CASE LoadFails
      BY <3>1 DEF LoadFails, ServesNewSong, NextPlay, AfterRequest, TypeOK
    <3>2. CASE LoadFailsAfterOpen
      BY <3>2 DEF LoadFailsAfterOpen, ServesNewSong, NextPlay, AfterRequest,
                  TypeOK
    <3>3. QED BY <1>6, <3>1, <3>2
  <2>2. SvcInv'
    BY <1>6 DEF LoadFails, LoadFailsAfterOpen, ServesNewSong, NextPlay,
                AfterRequest, TypeOK, ThreadHasItsService,
                NoEffectMeansEnded, RequestInv, ServiceInv, Alive
  <2>3. UNCHANGED <<statusVars, posted, thread, start_time>>
        /\ play_seq_id_' = play_seq_id_ + 1
    BY <1>6 DEF LoadFails, LoadFailsAfterOpen, NextPlay
  <2>4. NewestInv'
    BY <2>3, QueueUntouched, NewestIsStatus, StatusFields
       DEF NewestInv, TypeOK
  <2>5. QED BY <2>1, <2>2, <2>3, <2>4, QueueUntouched
<1>7. ASSUME NEW started \in BOOLEAN, LoadAndPlay(started)
      PROVE  IInv'
  <2>1. TypeOK'
    BY <1>7 DEF LoadAndPlay, ServesNewSong, NextPlay, AfterRequest, TypeOK
  <2>2. SvcInv'
    BY <1>7 DEF LoadAndPlay, ServesNewSong, NextPlay, AfterRequest, TypeOK,
                ThreadHasItsService, NoEffectMeansEnded, RequestInv,
                ServiceInv, Alive
  <2>3. NewestInv'
    BY <1>7, QueueUntouched, NewestIsStatus, StatusFields
       DEF LoadAndPlay, ServesNewSong, NextPlay, NewestInv, TypeOK
  <2>4. QED BY <1>7, <2>1, <2>2, <2>3, QueueUntouched DEF LoadAndPlay
<1>8. QED BY <1>1, <1>2, <1>3, <1>4, <1>5, <1>6, <1>7 DEF ContinueRequest

\* The steps of a playback thread that post nothing.
LEMMA QuietThreadStepKeepsInv ==
    ASSUME IInv, NEW s \in Plays,
           \/ EnterHandler(s)
           \/ RunReturns(s)
           \/ HandlerContinues(s)
           \/ HandlerEnds(s)
           \/ ThreadExits(s)
    PROVE  IInv'
<1> USE DEF IInv, mainVars, controlVars, statusVars, serviceVars,
            MainLocations, ThreadLocations
<1> DEFINE SvcInv == ThreadHasItsService /\ NoEffectMeansEnded
                       /\ RequestInv /\ ServiceInv
<1>1. CASE EnterHandler(s) \/ RunReturns(s) \/ HandlerContinues(s)
  <2>1. TypeOK'
    BY <1>1 DEF EnterHandler, RunReturns, HandlerContinues, TypeOK
  <2> USE <1>1 DEF EnterHandler, RunReturns, HandlerContinues, TypeOK
  <2>2. SvcInv'
    <3>1. ThreadHasItsService'
      BY DEF ThreadHasItsService, Alive
    <3>2. NoEffectMeansEnded'
      BY DEF NoEffectMeansEnded, RequestInv
    <3>3. RequestInv'
      BY DEF RequestInv
    <3>4. ServiceInv'
      BY DEF ServiceInv, Alive
    <3>5. QED BY <3>1, <3>2, <3>3, <3>4
  <2>3. NewestInv'
    BY <1>1, QueueUntouched
       DEF EnterHandler, RunReturns, HandlerContinues, TypeOK, NewestInv
  <2>4. QED BY <1>1, <2>1, <2>2, <2>3, QueueUntouched
            DEF EnterHandler, RunReturns, HandlerContinues
<1>2. CASE HandlerEnds(s) \/ ThreadExits(s)
  <2>1. TypeOK'
    BY <1>2 DEF HandlerEnds, ThreadExits, TypeOK
  <2> USE <1>2 DEF HandlerEnds, ThreadExits, TypeOK
  <2>2. SvcInv'
    <3>1. ThreadHasItsService'
      BY DEF ThreadHasItsService, Alive
    <3>2. NoEffectMeansEnded'
      BY DEF NoEffectMeansEnded, RequestInv
    <3>3. RequestInv'
      BY DEF RequestInv
    <3>4. ServiceInv'
      BY DEF ServiceInv, Alive
    <3>5. QED BY <3>1, <3>2, <3>3, <3>4
  <2>3. NewestInv'
    BY <1>2, QueueUntouched DEF HandlerEnds, ThreadExits, TypeOK, NewestInv
  <2>4. QED BY <1>2, <2>1, <2>2, <2>3, QueueUntouched
            DEF HandlerEnds, ThreadExits
<1>3. QED BY <1>1, <1>2

\* A message is posted that is not earlier than the newest, and not the same.
PostsNews(st) ==
    /\ st \in Status
    /\ st # Newest
    /\ Rank(Newest) <= Rank(st)
    /\ posted' = Append(posted, st)
    /\ UNCHANGED statusVars

LEMMA NewsKeepsQueue ==
    ASSUME IInv, NEW st, PostsNews(st)
    PROVE  QueueInv' /\ Newest' = st
  BY InvImpliesQueueInv, PostKeepsQueue DEF PostsNews

\* A thread that may still post belongs to a play that has begun.
LEMMA AliveFacts ==
    ASSUME IInv, NEW s \in Plays, Alive(s)
    PROVE  file_id_[s] \in Files /\ s <= play_seq_id_
  BY DEF IInv, Alive, ServiceInv, TypeOK

\* A start time that is new to the service of the thread is new to the queue.
LEMMA ReportIsNews ==
    ASSUME IInv, NEW s \in Plays, NEW t \in StartTimes, HandlerReports(s, t)
    PROVE  PostsNews(PlayingStatus(file_id_[s], s, t))
<1> DEFINE st == PlayingStatus(file_id_[s], s, t)
<1>1. thread[s] = "handler" /\ file_id_[s] \in Files
  BY AliveFacts DEF HandlerReports, Alive
<1>2. /\ st \in Status /\ st.song_is_playing
      /\ Rank(st) = 2 * s
      /\ st.play_seq_id = s
      /\ st.start_time = t
  BY <1>1, RankOfPlaying
<1>3. Rank(Newest) <= Rank(st)
  BY <1>1, <1>2 DEF IInv, NewestInv
<1>4. start_time[s] # t
  BY DEF HandlerReports, NewStartTime, IInv, TypeOK
<1>5. st # Newest
  <2>1. st = Newest => start_time[s] = t
    BY <1>2 DEF IInv, NewestInv
  <2>2. QED BY <1>4, <2>1
<1>6. posted' = Append(posted, st) /\ UNCHANGED statusVars
  BY DEF HandlerReports
<1>7. QED BY <1>2, <1>3, <1>5, <1>6 DEF PostsNews

\* The end of a play is later than all that was reported of it.
LEMMA NoSongIsNews ==
    ASSUME IInv, NEW s \in Plays, PostNoSong(s)
    PROVE  PostsNews(StoppedStatus(file_id_[s], s))
<1> DEFINE st == StoppedStatus(file_id_[s], s)
<1>1. thread[s] = "leaving" /\ file_id_[s] \in Files
  BY AliveFacts DEF PostNoSong, Alive
<1>2. st \in Status /\ Rank(st) = 2 * s + 1
  BY <1>1, RankOfStopped
<1>3. Rank(Newest) <= 2 * s /\ Rank(Newest) \in Int
  BY <1>1, NewestIsStatus, RankIsInt DEF IInv, NewestInv, TypeOK
<1>4. Rank(Newest) <= Rank(st) /\ st # Newest
  BY <1>2, <1>3
<1>5. posted' = Append(posted, st) /\ UNCHANGED statusVars
  BY DEF PostNoSong
<1>6. QED BY <1>2, <1>4, <1>5 DEF PostsNews

\* The steps of a playback thread that post a message.
LEMMA PostingKeepsInv ==
    ASSUME IInv, NEW s \in Plays,
           PostNoSong(s) \/ \E t \in StartTimes : HandlerReports(s, t)
    PROVE  IInv'
<1> USE DEF IInv, mainVars, controlVars, statusVars, serviceVars,
            MainLocations, ThreadLocations
<1>1. PICK st : PostsNews(st)
  BY ReportIsNews, NoSongIsNews
<1>2. QueueInv' /\ Newest' = st
  BY <1>1, NewsKeepsQueue
<1>3. Alive(s) /\ s <= play_seq_id_
  BY AliveFacts DEF PostNoSong, HandlerReports, Alive
<1>4. TypeOK'
  <2>1. CASE PostNoSong(s)
    BY <1>2, <2>1 DEF PostNoSong, QueueInv, StatusTypes, TypeOK
  <2>2. CASE \E t \in StartTimes : HandlerReports(s, t)
    BY <1>2, <2>2 DEF HandlerReports, QueueInv, StatusTypes, TypeOK
  <2>3. QED BY <2>1, <2>2
<1>5. ThreadHasItsService' /\ NoEffectMeansEnded' /\ RequestInv' /\ ServiceInv'
  <2> USE DEF TypeOK, ThreadHasItsService, NoEffectMeansEnded, RequestInv,
              ServiceInv, Alive
  <2>1. CASE PostNoSong(s)
    BY <2>1 DEF PostNoSong
  <2>2. CASE \E t \in StartTimes : HandlerReports(s, t)
    BY <2>2 DEF HandlerReports
  <2>3. QED BY <2>1, <2>2
<1>6. NewestInv'
  <2>1. play_seq_id_' = play_seq_id_ /\ play_seq_id_ \in Nat
    BY DEF PostNoSong, HandlerReports, TypeOK
  <2>2. CASE PostNoSong(s)
    <3>1. \A q \in Plays : thread'[q] \notin {"run", "handler", "leaving"}
      BY <1>3, <2>2 DEF PostNoSong, ThreadHasItsService, Alive, TypeOK
    <3>2. Rank(Newest') = 2 * s + 1 /\ ~Newest'.song_is_playing
      BY <2>2, NoSongIsNews, NewsKeepsQueue, RankOfStopped, AliveFacts, <1>3
    <3>3. QED BY <1>3, <2>1, <3>1, <3>2 DEF NewestInv
  <2>3. ASSUME NEW t \in StartTimes, HandlerReports(s, t)
        PROVE  NewestInv'
    <3>1. \A q \in Plays : thread'[q] \in {"run", "handler", "leaving"} => q = s
      BY <1>3, <2>3 DEF HandlerReports, ThreadHasItsService, Alive, TypeOK
    <3>2. Newest' = PlayingStatus(file_id_[s], s, t)
      BY <2>3, ReportIsNews, NewsKeepsQueue
    <3>3. /\ Rank(Newest') = 2 * s
          /\ Newest'.play_seq_id = s
          /\ Newest'.start_time = t
      BY <3>2, RankOfPlaying, AliveFacts, <1>3
    <3>4. start_time'[s] = t
      BY <2>3 DEF HandlerReports, TypeOK
    <3>5. QED BY <1>3, <2>1, <3>1, <3>3, <3>4 DEF NewestInv
  <2>4. QED BY <2>2, <2>3
<1>7. UnpublishedStatusHasTimer'
  BY DEF PostNoSong, HandlerReports, UnpublishedStatusHasTimer
<1>8. QED BY <1>2, <1>4, <1>5, <1>6, <1>7 DEF QueueInv

\* The handlers of the main thread.
LEMMA MainHandlerKeepsInv ==
    ASSUME IInv, UpdateLastStatusMsg \/ ReportCurrentSongToServices
    PROVE  IInv'
<1> USE DEF IInv, mainVars, controlVars, serviceVars
<1>1. /\ ThreadHasItsService' /\ NoEffectMeansEnded'
      /\ RequestInv' /\ ServiceInv'
  BY DEF UpdateLastStatusMsg, ReportCurrentSongToServices,
         ThreadHasItsService, NoEffectMeansEnded, RequestInv, ServiceInv, Alive
<1>2. CASE UpdateLastStatusMsg
  <2>1. QueueInv' /\ Newest' = Newest /\ throttle_timer_set_' = TRUE
    BY <1>2, UpdateKeepsQueue, InvImpliesQueueInv
  <2>2. TypeOK'
    BY <1>2, <2>1 DEF UpdateLastStatusMsg, QueueInv, StatusTypes, TypeOK
  <2>3. NewestInv'
    BY <1>2, <2>1 DEF UpdateLastStatusMsg, NewestInv
  <2>4. UnpublishedStatusHasTimer'
    BY <2>1 DEF UnpublishedStatusHasTimer
  <2>5. QED BY <1>1, <2>1, <2>2, <2>3, <2>4 DEF QueueInv
<1>3. CASE ReportCurrentSongToServices
  <2>1. /\ published' = last_status_msg_
        /\ last_status_msg_' = last_status_msg_ /\ posted' = posted
        /\ Newest' = Newest
    BY <1>3 DEF ReportCurrentSongToServices, Newest
  <2>2. TypeOK'
    BY <1>3 DEF ReportCurrentSongToServices, TypeOK
  <2>3. Rank(last_status_msg_) \in Int
    BY RankIsInt DEF TypeOK
  <2>4. EveryStatusIsNews' /\ StatusesInOrder' /\ UnpublishedStatusHasTimer'
    BY <2>1, <2>3
       DEF EveryStatusIsNews, StatusesInOrder, UnpublishedStatusHasTimer
  <2>5. NewestInv'
    BY <1>3, <2>1 DEF ReportCurrentSongToServices, NewestInv
  <2>6. QED BY <1>1, <2>2, <2>4, <2>5
<1>4. QED BY <1>2, <1>3

LEMMA StutterKeepsInv ==
    ASSUME IInv, UNCHANGED vars
    PROVE  IInv'
<1> USE DEF vars, mainVars, controlVars, statusVars, serviceVars
<1>1. TypeOK' /\ RequestInv' /\ ServiceInv'
  BY DEF IInv, TypeOK, RequestInv, ServiceInv, Alive
<1>2. ThreadHasItsService' /\ NoEffectMeansEnded'
  BY DEF IInv, ThreadHasItsService, NoEffectMeansEnded, Alive
<1>3. NewestInv'
  BY DEF IInv, NewestInv, Newest
<1>4. QED BY <1>1, <1>2, <1>3, QueueUntouched DEF IInv

THEOREM InvNext == IInv /\ [Next]_vars => IInv'
<1> SUFFICES ASSUME IInv, [Next]_vars PROVE IInv'
  OBVIOUS
<1>1. CASE \/ InitializationFails \/ Start
           \/ \E f \in Files : BeginRequest("new", f)
           \/ BeginRequest("stop", NoFile)
           \/ ContinueRequest
  BY <1>1, RequestKeepsInv
<1>2. ASSUME NEW s \in Plays, ThreadStep(s) PROVE IInv'
  BY <1>2, QuietThreadStepKeepsInv, PostingKeepsInv
     DEF ThreadStep, HandlerStep
<1>3. CASE UpdateLastStatusMsg \/ ReportCurrentSongToServices
  BY <1>3, MainHandlerKeepsInv
<1>4. CASE Terminated \/ UNCHANGED vars
  BY <1>4, StutterKeepsInv DEF Terminated
<1>5. QED BY <1>1, <1>2, <1>3, <1>4 DEF Next, SilentStep

\* The inductive invariant holds in every reachable state.
THEOREM Invariant == Spec => []IInv
  BY InvInit, InvNext, PTL DEF Spec

-----------------------------------------------------------------------------
(* The properties.                                                          *)

\* Every variable of the controller, its services and its threads stays in its
\* type.
THEOREM TypeCorrect == Spec => []TypeOK
<1>1. IInv => TypeOK
  BY DEF IInv
<1>2. QED BY <1>1, Invariant, PTL

\* AlsaPlaybackService::Stop joins the thread before the service is deleted and
\* before the next one is created, however requests, handlers and the natural
\* end of a song interleave.
THEOREM ThreadsHaveTheirService == Spec => []ThreadHasItsService
<1>1. IInv => ThreadHasItsService
  BY DEF IInv
<1>2. QED BY <1>1, Invariant, PTL

\* The throttling of UpdateLastStatusMsg never forgets a message.
THEOREM ThrottlingForgetsNothing == Spec => []UnpublishedStatusHasTimer
<1>1. IInv => UnpublishedStatusHasTimer
  BY DEF IInv
<1>2. QED BY <1>1, Invariant, PTL

\* The test for a repeated message in UpdateLastStatusMsg never succeeds.
THEOREM NoRepeatedStatus == Spec => []EveryStatusIsNews
<1>1. IInv => EveryStatusIsNews
  BY DEF IInv
<1>2. QED BY <1>1, Invariant, PTL

\* "stop had no effect" is only answered when the song ended by itself.
THEOREM StopWithoutEffect == Spec => []NoEffectMeansEnded
<1>1. IInv => NoEffectMeansEnded
  BY DEF IInv
<1>2. QED BY <1>1, Invariant, PTL

\* What was posted is what a step can make the kept or published message.
LEMMA StatusStep ==
    IInv /\ [Next]_vars
        => \/ UNCHANGED <<last_status_msg_, published>>
           \/ UpdateLastStatusMsg
           \/ ReportCurrentSongToServices
<1> USE DEF vars, mainVars, controlVars, statusVars, serviceVars
<1> SUFFICES ASSUME [Next]_vars,
                    ~UpdateLastStatusMsg, ~ReportCurrentSongToServices
             PROVE  UNCHANGED <<last_status_msg_, published>>
  OBVIOUS
<1>1. CASE InitializationFails \/ Start \/ ContinueRequest
  BY <1>1 DEF InitializationFails, Start, ContinueRequest, SignalStop, JoinAndDelete, AnswerStop,
              LoadFails, LoadFailsAfterOpen, LoadAndPlay
<1>2. ASSUME NEW o, NEW f, BeginRequest(o, f)
      PROVE  UNCHANGED <<last_status_msg_, published>>
  BY <1>2 DEF BeginRequest
<1>3. ASSUME NEW s \in Plays, ThreadStep(s)
      PROVE  UNCHANGED <<last_status_msg_, published>>
  BY <1>3 DEF ThreadStep, HandlerStep, EnterHandler, RunReturns, HandlerEnds,
              HandlerContinues, HandlerReports, PostNoSong, ThreadExits
<1>4. CASE Terminated \/ UNCHANGED vars
  BY <1>4 DEF Terminated
<1>5. QED BY <1>1, <1>2, <1>3, <1>4 DEF Next, SilentStep

\* Listeners never see the player go back: no message of an earlier play after
\* one of a later play, none from the middle of a play after its end.
THEOREM HistoryIsMonotonic == Spec => StatusNeverGoesBack
<1>1. IInv /\ [Next]_vars
        => [/\ Rank(last_status_msg_) <= Rank(last_status_msg_')
            /\ Rank(published) <= Rank(published')]_<<last_status_msg_, published>>
  <2> SUFFICES ASSUME IInv, [Next]_vars,
                      ~UNCHANGED <<last_status_msg_, published>>
               PROVE  /\ Rank(last_status_msg_) <= Rank(last_status_msg_')
                      /\ Rank(published) <= Rank(published')
    OBVIOUS
  <2>1. Rank(last_status_msg_) \in Int /\ Rank(published) \in Int
    BY RankIsInt DEF IInv, TypeOK
  <2>2. CASE UpdateLastStatusMsg
    <3>1. posted # <<>> /\ last_status_msg_' = posted[1] /\ published' = published
      BY <2>2, UpdateKeepsQueue, InvImpliesQueueInv DEF UpdateLastStatusMsg
    <3>2. Rank(last_status_msg_) <= Rank(posted[1])
      BY <3>1 DEF IInv, TypeOK, StatusesInOrder
    <3>3. QED BY <2>1, <3>1, <3>2
  <2>3. CASE ReportCurrentSongToServices
    BY <2>1, <2>3 DEF ReportCurrentSongToServices, IInv, StatusesInOrder
  <2>4. QED BY <2>2, <2>3, StatusStep
<1>2. QED BY <1>1, Invariant, PTL DEF Spec, StatusNeverGoesBack

-----------------------------------------------------------------------------
(* The controller implements SongControl.                                   *)

\* The refinement mapping of CurrentSongController.
Song == IF Playing = {} THEN NoFile ELSE file_id_[CHOOSE s \in Playing : TRUE]

\* Only the thread of the service at hand plays, and always a file.
LEMMA OnePlays ==
    ASSUME IInv, NEW s \in Playing
    PROVE  /\ Playing = {s}
           /\ s = alsa_service_ /\ s \in Plays
           /\ Song = file_id_[s]
           /\ Song \in Files /\ Song # NoFile
<1>1. \A q \in Playing : q = alsa_service_ /\ file_id_[q] \in Files
  BY DEF IInv, ThreadHasItsService, ServiceInv, Alive, Playing
<1>2. Playing = {s}
  BY <1>1
<1>3. Song = file_id_[s]
  BY <1>2 DEF Song
<1>4. QED BY <1>1, <1>2, <1>3 DEF Playing

LEMMA SilentWithoutService ==
    ASSUME IInv, alsa_service_ = 0
    PROVE  Playing = {} /\ Song = NoFile
  BY OnePlays DEF Song

\* A thread that runs its last handler, or finds itself stopped, ends the song.
LEMMA LastHandlerEndsSong ==
    ASSUME IInv, NEW s \in Plays, HandlerEnds(s) \/ RunReturns(s)
    PROVE  Control!SongEnds
<1>1. thread[s] \in {"run", "handler"} /\ thread' = [thread EXCEPT ![s] = "leaving"]
  BY DEF HandlerEnds, RunReturns
<1>2. Playing = {s} /\ Song # NoFile
  BY <1>1, OnePlays DEF Playing
<1>3. Playing' = {}
  BY <1>1, <1>2 DEF Playing, IInv, TypeOK
<1>4. Song' = NoFile
  BY <1>3 DEF Song
<1>5. play_seq_id_' = play_seq_id_
  BY DEF HandlerEnds, RunReturns, controlVars
<1>6. QED BY <1>2, <1>4, <1>5, Zenon DEF Control!SongEnds, Song

\* The end of NewSongRequest is a play that succeeds or fails.
LEMMA RequestIsNewPlay ==
    ASSUME IInv,
           LoadFails \/ LoadFailsAfterOpen \/ \E started \in BOOLEAN : LoadAndPlay(started)
    PROVE  \E file_id \in Files, success \in BOOLEAN : Control!NewPlay(file_id, success)
<1>1. /\ alsa_service_ = 0 /\ op_file \in Files
      /\ play_seq_id_' = play_seq_id_ + 1
      /\ NextPlay \in Plays
  BY DEF LoadFails, LoadFailsAfterOpen, LoadAndPlay, ServesNewSong, NextPlay,
         IInv, RequestInv
<1>2. Playing = {} /\ Song = NoFile
  BY <1>1, SilentWithoutService
<1>3. CASE LoadFails \/ LoadFailsAfterOpen
  <2>1. Playing' = {}
    BY <1>2, <1>3 DEF LoadFails, LoadFailsAfterOpen, serviceVars, Playing
  <2>2. Song' = NoFile
    BY <2>1 DEF Song
  <2>3. Control!NewPlay(op_file, FALSE)
    BY <1>1, <1>2, <2>2, Zenon DEF Control!NewPlay, Control!TakeNumber, Song
  <2>4. QED BY <1>1, <2>3
<1>4. CASE LoadAndPlay(FALSE)
  <2>1. Playing' = {}
    BY <1>1, <1>2, <1>4 DEF LoadAndPlay, Playing, IInv, TypeOK
  <2>2. Song' = NoFile
    BY <2>1 DEF Song
  <2>3. Control!NewPlay(op_file, FALSE)
    BY <1>1, <1>2, <2>2, Zenon DEF Control!NewPlay, Control!TakeNumber, Song
  <2>4. QED BY <1>1, <2>3
<1>5. CASE LoadAndPlay(TRUE)
  <2>1. Playing' = {NextPlay}
    BY <1>1, <1>2, <1>5 DEF LoadAndPlay, Playing, IInv, TypeOK
  <2>2. file_id_'[NextPlay] = op_file
    BY <1>1, <1>5 DEF LoadAndPlay, IInv, TypeOK
  <2>3. Song' = op_file
    BY <2>1, <2>2 DEF Song
  <2>4. Control!NewPlay(op_file, TRUE)
    BY <1>1, <1>2, <2>3, Zenon DEF Control!NewPlay, Control!TakeNumber, Song
  <2>5. QED BY <1>1, <2>4
<1>6. QED BY <1>3, <1>4, <1>5

\* Every other step leaves the song and its number alone.
LEMMA OtherStepsLeaveSong ==
    ASSUME IInv, [Next]_vars,
           ~LoadFails, ~LoadFailsAfterOpen,
           \A started \in BOOLEAN : ~LoadAndPlay(started),
           \A s \in Plays : ~HandlerEnds(s) /\ ~RunReturns(s)
    PROVE  UNCHANGED <<Song, play_seq_id_>>
<1> SUFFICES Playing' = Playing /\ UNCHANGED <<file_id_, play_seq_id_>>
  BY DEF Song
<1> USE DEF vars, mainVars, controlVars, statusVars, serviceVars, Playing
<1>1. CASE InitializationFails \/ Start \/ ContinueRequest
  BY <1>1 DEF InitializationFails, Start, ContinueRequest, SignalStop,
              JoinAndDelete, AnswerStop
<1>2. ASSUME NEW o, NEW f, BeginRequest(o, f)
      PROVE  Playing' = Playing /\ UNCHANGED <<file_id_, play_seq_id_>>
  BY <1>2 DEF BeginRequest
<1>3. ASSUME NEW s \in Plays, ThreadStep(s)
      PROVE  Playing' = Playing /\ UNCHANGED <<file_id_, play_seq_id_>>
  BY <1>3 DEF ThreadStep, HandlerStep, EnterHandler, HandlerContinues,
              HandlerReports, PostNoSong, ThreadExits, IInv, TypeOK
<1>4. CASE \/ UpdateLastStatusMsg \/ ReportCurrentSongToServices
           \/ Terminated \/ UNCHANGED vars
  BY <1>4 DEF UpdateLastStatusMsg, ReportCurrentSongToServices, Terminated
<1>5. QED BY <1>1, <1>2, <1>3, <1>4 DEF Next, SilentStep

LEMMA ControlInitial == Init => Control!ControlInit
<1> SUFFICES ASSUME Init PROVE Control!ControlInit
  OBVIOUS
<1>1. Playing = {} /\ play_seq_id_ = 0
  BY DEF Init, Playing
<1>2. QED BY <1>1 DEF Control!ControlInit

LEMMA ControlStep == IInv /\ [Next]_vars => [Control!ControlNext]_(Control!controlVars)
<1> SUFFICES ASSUME IInv, [Next]_vars
             PROVE  \/ Control!SongEnds
                    \/ \E file_id \in Files, success \in BOOLEAN :
                           Control!NewPlay(file_id, success)
                    \/ UNCHANGED <<Song, play_seq_id_>>
  BY Zenon DEF Control!ControlNext, Control!controlVars, Song
<1>1. QED BY LastHandlerEndsSong, RequestIsNewPlay, OtherStepsLeaveSong

\* Those who ask for songs may take the controller, with all its threads, for a
\* SongControl: a song begins only in silence, and under a number of its own.
THEOREM ControllerImplementsSongControl == Spec => SongsAsControlled
  BY ControlInitial, ControlStep, Invariant, PTL
     DEF Spec, SongsAsControlled, Control!ControlSpec

-----------------------------------------------------------------------------
(* The controller implements the status feed: every step of the controller  *)
(* and of its threads is a step of the feed, or leaves the feed alone.      *)

\* Sequences that begin with one message.
LEMMA ConsFacts ==
    ASSUME NEW S, NEW x \in S, NEW q \in Seq(S)
    PROVE  /\ <<x>> \o q \in Seq(S)
           /\ Len(<<x>> \o q) = Len(q) + 1
           /\ (<<x>> \o q)[1] = x
           /\ \A i \in 1..Len(q) : (<<x>> \o q)[i + 1] = q[i]
<1>1. <<x>> \in Seq(S) /\ Len(<<x>>) = 1 /\ <<x>>[1] = x
  OBVIOUS
<1>2. QED BY <1>1, ConcatProperties, LenProperties

LEMMA TailOfCons ==
    ASSUME NEW S, NEW x \in S, NEW q \in Seq(S)
    PROVE  /\ Tail(<<x>> \o q) = q
           /\ SubSeq(<<x>> \o q, 2, Len(<<x>> \o q)) = q
<1> DEFINE c == <<x>> \o q
<1>1. c \in Seq(S) /\ c # <<>> /\ Len(c) = Len(q) + 1
      /\ \A i \in 1..Len(q) : c[i + 1] = q[i]
  BY ConsFacts, LenProperties, EmptySeq
<1> HIDE DEF c
<1>2. /\ Tail(c) \in Seq(S)
      /\ Len(Tail(c)) = Len(q)
      /\ \A i \in 1..Len(q) : Tail(c)[i] = q[i]
  BY <1>1, HeadTailProperties, LenProperties
<1>3. Tail(c) = q
  BY <1>2, SeqEqual
<1>4. SubSeq(c, 2, Len(c)) = q
  BY <1>1, <1>3, TailIsSubSeq
<1>5. QED BY <1>3, <1>4 DEF c

LEMMA ConsHeadTail ==
    ASSUME NEW S, NEW q \in Seq(S), q # <<>>
    PROVE  <<q[1]>> \o Tail(q) = q
<1>1. /\ q[1] \in S
      /\ Tail(q) \in Seq(S)
      /\ Len(Tail(q)) = Len(q) - 1
      /\ \A i \in 1..Len(Tail(q)) : Tail(q)[i] = q[i + 1]
      /\ Len(q) \in Nat \ {0}
  BY HeadTailProperties, EmptySeq, ElementOfSeq
<1> DEFINE c == <<q[1]>> \o Tail(q)
<1>2. /\ c \in Seq(S) /\ Len(c) = Len(q) /\ c[1] = q[1]
      /\ \A i \in 1..Len(Tail(q)) : c[i + 1] = q[i + 1]
  BY <1>1, ConsFacts
<1> HIDE DEF c
<1>3. ASSUME NEW i \in 1..Len(c) PROVE c[i] = q[i]
  <2>1. i = 1 \/ (i - 1 \in 1..Len(Tail(q)) /\ (i - 1) + 1 = i)
    BY <1>1, <1>2
  <2>2. QED BY <1>2, <2>1
<1>4. QED BY <1>2, <1>3, SeqEqual DEF c

LEMMA ConsAppend ==
    ASSUME NEW S, NEW x \in S, NEW y \in S, NEW q \in Seq(S)
    PROVE  <<x>> \o Append(q, y) = Append(<<x>> \o q, y)
<1>1. <<x>> \in Seq(S) /\ <<y>> \in Seq(S) /\ <<x>> \o q \in Seq(S)
  BY ConsFacts
<1>2. Append(q, y) = q \o <<y>> /\ Append(<<x>> \o q, y) = (<<x>> \o q) \o <<y>>
  BY <1>1, AppendIsConcat
<1>3. QED BY <1>1, <1>2, ConcatAssociative

-----------------------------------------------------------------------------

LEMMA PendingIs ==
    ASSUME StatusTypes
    PROVE  /\ ~throttle_timer_set_ => Pending = posted
           /\ throttle_timer_set_ => Pending = <<last_status_msg_>> \o posted
           /\ Pending \in Seq(Status)
  BY ConcatEmptySeq, ConsFacts DEF Pending, StatusTypes

LEMMA FeedNewest ==
    ASSUME StatusTypes, UnpublishedStatusHasTimer
    PROVE  Feed!Newest = Newest
<1>1. CASE ~throttle_timer_set_
  BY <1>1, PendingIs DEF Feed!Newest, Newest, Pending, StatusTypes, UnpublishedStatusHasTimer
<1>2. CASE throttle_timer_set_
  <2>1. Feed!Newest = (<<last_status_msg_>> \o posted)[Len(posted) + 1]
    BY <1>2, PendingIs, ConsFacts, EmptySeq, LenProperties
       DEF Feed!Newest, Pending, StatusTypes
  <2>2. CASE posted = <<>>
    BY <2>1, <2>2, ConsFacts DEF Newest, StatusTypes
  <2>3. CASE posted # <<>>
    BY <2>1, <2>3, ConsFacts, EmptySeq DEF Newest, StatusTypes
  <2>4. QED BY <2>2, <2>3
<1>3. QED BY <1>1, <1>2

\* A message posted by a playback thread advances the feed.
LEMMA PostAdvances ==
    ASSUME IInv, NEW st, PostsNews(st)
    PROVE  Feed!Advance(st)
<1>1. StatusTypes /\ UnpublishedStatusHasTimer
  BY InvImpliesQueueInv DEF QueueInv, IInv
<1>2. st # Feed!Newest /\ Rank(Feed!Newest) <= Rank(st) /\ st \in Status
  BY <1>1, FeedNewest DEF PostsNews
<1>3. Pending' = Append(Pending, st)
  BY <1>1, ConsAppend, ConcatEmptySeq, AppendProperties
     DEF PostsNews, Pending, StatusTypes, statusVars
<1>4. published' = published
  BY DEF PostsNews, statusVars
<1>5. Feed!Rank(Feed!Newest) <= Feed!Rank(st)
  BY <1>2 DEF Feed!Rank, Rank
<1>6. QED BY <1>2, <1>3, <1>4, <1>5, Zenon DEF Feed!Advance

\* The throttle timer publishes the oldest message of the feed.
LEMMA ReportPublishes ==
    ASSUME IInv, ReportCurrentSongToServices
    PROVE  /\ Feed!Publish
           /\ Head(Pending) = last_status_msg_
<1>1. StatusTypes
  BY InvImpliesQueueInv DEF QueueInv
<1>2. /\ throttle_timer_set_ /\ ~throttle_timer_set_'
      /\ published' = last_status_msg_ /\ posted' = posted
  BY DEF ReportCurrentSongToServices
<1>3. Pending' = posted
  BY <1>1, <1>2, ConcatEmptySeq DEF Pending, StatusTypes
<1>4. /\ Pending # <<>> /\ Pending \in Seq(Status)
      /\ Head(Pending) = last_status_msg_ /\ Tail(Pending) = posted
  BY <1>1, <1>2, PendingIs, ConsFacts, TailOfCons, EmptySeq, LenProperties,
     HeadTailProperties DEF StatusTypes
<1>5. QED BY <1>2, <1>3, <1>4, Zenon DEF Feed!Publish

\* Handling a posted message skips the one that waits for the timer, if there is one.
LEMMA UpdateSkips ==
    ASSUME IInv, UpdateLastStatusMsg
    PROVE  Feed!Skip \/ UNCHANGED <<Pending, published>>
<1>1. StatusTypes
  BY InvImpliesQueueInv DEF QueueInv
<1>2. /\ posted # <<>>
      /\ last_status_msg_' = posted[1] /\ posted' = Tail(posted)
      /\ throttle_timer_set_' = TRUE /\ published' = published
  BY InvImpliesQueueInv, UpdateKeepsQueue DEF UpdateLastStatusMsg
<1>3. Pending' = posted /\ Len(posted) \in Nat \ {0}
  BY <1>1, <1>2, ConsHeadTail, EmptySeq, LenProperties DEF Pending, StatusTypes
<1>4. CASE ~throttle_timer_set_
  BY <1>1, <1>2, <1>3, <1>4, PendingIs
<1>5. CASE throttle_timer_set_
  <2>1. Tail(Pending) = posted /\ Len(Pending) > 1
    BY <1>1, <1>3, <1>5, PendingIs, ConsFacts, TailOfCons DEF StatusTypes
  <2>2. QED BY <1>2, <1>3, <2>1, Zenon DEF Feed!Skip
<1>6. QED BY <1>4, <1>5

\* A step that touches no message leaves the feed alone.
LEMMA OtherStepsLeaveFeed ==
    ASSUME IInv, SilentStep \/ Terminated \/ UNCHANGED vars,
           ~UpdateLastStatusMsg,
           \A s \in Plays : /\ ~PostNoSong(s)
                             /\ \A t \in StartTimes : ~HandlerReports(s, t)
    PROVE  UNCHANGED <<Pending, published>>
<1> SUFFICES UNCHANGED <<statusVars, posted>>
  BY DEF Pending, statusVars
<1> USE DEF vars, mainVars, requestVars, controlVars, statusVars, serviceVars,
            outsideVars
<1>1. CASE InitializationFails \/ Start \/ ContinueRequest
  BY <1>1 DEF InitializationFails, Start, ContinueRequest, SignalStop, JoinAndDelete, AnswerStop,
              LoadFails, LoadFailsAfterOpen, LoadAndPlay
<1>2. ASSUME NEW o, NEW f, BeginRequest(o, f)
      PROVE  UNCHANGED <<statusVars, posted>>
  BY <1>2 DEF BeginRequest
<1>3. ASSUME NEW s \in Plays, ThreadStep(s)
      PROVE  UNCHANGED <<statusVars, posted>>
  BY <1>3 DEF ThreadStep, HandlerStep, EnterHandler, RunReturns, HandlerEnds,
              HandlerContinues, ThreadExits
<1>4. CASE Terminated \/ UNCHANGED vars
  BY <1>4 DEF Terminated
<1>5. QED BY <1>1, <1>2, <1>3, <1>4 DEF SilentStep

\* The initial state of the controller is that of the feed, and each of its
\* steps is a step of the feed or stutters.
LEMMA FeedInitial == Init => Feed!FeedInit
<1> SUFFICES ASSUME Init PROVE Feed!FeedInit
  OBVIOUS
<1>2. <<InitialStatus>> \o <<>> = <<InitialStatus>>
  BY ConcatEmptySeq, RankOfInitial
<1>3. /\ last_status_msg_ = InitialStatus /\ published = NoStatus
      /\ posted = <<>> /\ throttle_timer_set_
  BY DEF Init
<1>4. Feed!InitialStatus = InitialStatus /\ Feed!NoStatus = NoStatus
  BY DEF Feed!InitialStatus, Feed!NoStatus, InitialStatus, NoStatus,
         Feed!StoppedStatus, StoppedStatus, Feed!Message, Message, Feed!NoTime, NoTime
<1>5. Pending = <<Feed!InitialStatus>> /\ published = Feed!NoStatus
  BY <1>2, <1>3, <1>4 DEF Pending
<1>6. QED BY <1>5, Zenon DEF Feed!FeedInit

LEMMA FeedStatusIs == Feed!Status = Status
  BY DEF Feed!Status, Status, Feed!PlayingStatus, PlayingStatus,
         Feed!StoppedStatus, StoppedStatus, Feed!InitialStatus, InitialStatus,
         Feed!Message, Message, Feed!NoTime, NoTime, Feed!Plays, Plays

LEMMA FeedStep == IInv /\ [Next]_vars => [Feed!FeedNext]_(Feed!feedVars)
<1> SUFFICES ASSUME IInv, [Next]_vars
             PROVE  \/ \E st \in Status : Feed!Advance(st)
                    \/ Feed!Publish
                    \/ Feed!Skip
                    \/ UNCHANGED <<Pending, published>>
  BY FeedStatusIs, Zenon DEF Feed!FeedNext, Feed!feedVars
<1>1. CASE UpdateLastStatusMsg
  BY <1>1, UpdateSkips
<1>2. CASE ReportCurrentSongToServices
  BY <1>2, ReportPublishes
<1>3. ASSUME NEW s \in Plays,
             PostNoSong(s) \/ \E t \in StartTimes : HandlerReports(s, t)
      PROVE  \E st \in Status : Feed!Advance(st)
  <2>1. PICK st : PostsNews(st)
    BY <1>3, ReportIsNews, NoSongIsNews
  <2>2. st \in Status /\ Feed!Advance(st)
    BY <2>1, PostAdvances DEF PostsNews
  <2>3. QED BY <2>2
<1>4. QED BY <1>1, <1>2, <1>3, OtherStepsLeaveFeed DEF Next

\* Whatever the threads do and however requests interleave with them, MQTT and
\* the web sockets are given the statuses of the player in the order it went
\* through them, and only statuses a newer one has replaced are left out.
THEOREM ControllerImplementsFeed == Spec => FeedInOrder
  BY FeedInitial, FeedStep, Invariant, PTL
     DEF Spec, FeedInOrder, Feed!FeedSafety

-----------------------------------------------------------------------------
(* The threads are moved as PlaybackThread allows.                          *)

\* A thread is over only once its io_service is stopped.
EndedInv ==
    \A s \in Plays : thread[s] \in {"leaving", "posted"} => ios_stopped[s]

LEMMA ThreadStepPromised ==
    ASSUME IInv, EndedInv, [Next]_vars, NEW s \in Plays
    PROVE  /\ Thread(s)!ThreadNext \/ UNCHANGED Thread(s)!threadVars
           /\ thread'[s] \in {"leaving", "posted"} => ios_stopped'[s]
<1> USE DEF Thread!ThreadNext, Thread!threadVars
<1>1. /\ thread \in [Plays -> ThreadLocations]
      /\ ios_stopped \in [Plays -> BOOLEAN]
      /\ start_time \in [Plays -> StartTimes \cup {NoTime}]
    BY DEF IInv, TypeOK
<1>2. CASE UNCHANGED <<thread[s], ios_stopped[s], start_time[s]>>
    BY <1>2 DEF EndedInv
<1>3. CASE SignalStop
    <2>1. /\ UNCHANGED <<thread, start_time>>
          /\ ios_stopped'[s] = TRUE \/ ios_stopped'[s] = ios_stopped[s]
        BY <1>1, <1>3 DEF SignalStop
    <2>2. CASE ios_stopped'[s] = TRUE
        BY <2>1, <2>2 DEF Thread!BeStopped
    <2>3. CASE ios_stopped'[s] = ios_stopped[s]
        BY <1>2, <2>1, <2>3
    <2> QED BY <2>1, <2>2, <2>3
<1>4. ASSUME NEW started \in BOOLEAN, LoadAndPlay(started)
      PROVE  /\ Thread(s)!ThreadNext \/ UNCHANGED Thread(s)!threadVars
             /\ thread'[s] \in {"leaving", "posted"} => ios_stopped'[s]
    <2>1. /\ UNCHANGED <<ios_stopped, start_time>>
          /\ thread' = [thread EXCEPT ![NextPlay] = IF started THEN "run" ELSE "none"]
        BY <1>4 DEF LoadAndPlay
    <2>2. CASE s # NextPlay
        BY <1>1, <1>2, <2>1, <2>2
    <2>3. CASE s = NextPlay
        <3>1. thread[s] = "none" /\ ~ios_stopped[s]
            BY <2>3 DEF IInv, TypeOK, ServiceInv, NextPlay
        <3>2. CASE started
            BY <1>1, <2>1, <2>3, <3>1, <3>2 DEF Thread!Begin
        <3>3. CASE ~started
            BY <1>1, <1>2, <2>1, <2>3, <3>1, <3>3
        <3> QED BY <3>2, <3>3
    <2> QED BY <2>2, <2>3
<1>5. ASSUME NEW q \in Plays, ThreadStep(q)
      PROVE  /\ Thread(s)!ThreadNext \/ UNCHANGED Thread(s)!threadVars
             /\ thread'[s] \in {"leaving", "posted"} => ios_stopped'[s]
    <2> USE DEF HandlerStep, ThreadStep
    <2>1. CASE q # s
        <3>1. UNCHANGED <<thread[s], ios_stopped[s], start_time[s]>>
            BY <1>1, <1>5, <2>1
               DEF EnterHandler, RunReturns, HandlerContinues, HandlerReports,
                   HandlerEnds, PostNoSong, ThreadExits
        <3> QED BY <1>2, <3>1
    <2>2. CASE q = s
        <3>1. CASE EnterHandler(s) \/ HandlerContinues(s)
            BY <1>1, <3>1 DEF EnterHandler, HandlerContinues
        <3>2. CASE RunReturns(s)
            BY <1>1, <3>2 DEF RunReturns
        <3>3. ASSUME NEW t \in StartTimes, HandlerReports(s, t)
              PROVE  Thread(s)!ReportStart /\ thread'[s] = "run"
            BY <1>1, <3>3 DEF HandlerReports, NewStartTime, Thread!ReportStart
        <3>4. CASE HandlerEnds(s)
            BY <1>1, <3>4 DEF HandlerEnds, Thread!BeStopped
        <3>5. CASE PostNoSong(s)
            BY <1>1, <3>5 DEF PostNoSong, EndedInv, Thread!ReportEnd
        <3>6. CASE ThreadExits(s)
            BY <1>1, <3>6 DEF ThreadExits, EndedInv, Thread!Exit
        <3> QED BY <1>5, <2>2, <3>1, <3>2, <3>3, <3>4, <3>5, <3>6
    <2> QED BY <2>1, <2>2
<1>6. CASE UNCHANGED <<thread, ios_stopped, start_time>>
    BY <1>2, <1>6
<1>7. \/ SignalStop
      \/ \E started \in BOOLEAN : LoadAndPlay(started)
      \/ \E q \in Plays : ThreadStep(q)
      \/ UNCHANGED <<thread, ios_stopped, start_time>>
    BY DEF Next, SilentStep, ContinueRequest, InitializationFails, Start, BeginRequest, JoinAndDelete,
           AnswerStop, LoadFails, LoadFailsAfterOpen, UpdateLastStatusMsg,
           ReportCurrentSongToServices, Terminated, vars, serviceVars
<1> QED BY <1>3, <1>4, <1>5, <1>6, <1>7

\* The controller moves each of its threads as AlsaPlaybackService is shown to.
THEOREM ThreadsMoveAsPromised == Spec => ThreadsAsPromised
<1>1. Init => EndedInv
    BY DEF Init, EndedInv
<1>2. IInv /\ EndedInv /\ [Next]_vars => EndedInv'
    BY ThreadStepPromised DEF EndedInv
<1>3. IInv /\ EndedInv /\ [Next]_vars =>
        [\A s \in Plays :
            Thread(s)!ThreadNext \/ UNCHANGED Thread(s)!threadVars]_serviceVars
    BY ThreadStepPromised
<1> QED BY <1>1, <1>2, <1>3, Invariant, PTL DEF Spec, ThreadsAsPromised

-----------------------------------------------------------------------------
(* The player moves its controller and its services as they are modelled.   *)

LEMMA PlayerStep == [PlayerNext]_playerVars => [Next]_vars
<1> SUFFICES ASSUME [PlayerNext]_playerVars PROVE Next \/ UNCHANGED vars
  OBVIOUS
<1>1. CASE Silently(SilentStep)
  BY <1>1 DEF Silently, Next
<1>2. CASE Report
  BY <1>2 DEF Report, Next
<1>3. CASE \/ ClientStep \/ MqttInitialize \/ MqttHandler
           \/ BrokerTakes \/ LinkBreaks \/ UNCHANGED playerVars
  BY <1>3 DEF ClientStep, MqttInitialize, MqttHandler, BrokerTakes, LinkBreaks, playerVars
<1>4. QED BY <1>1, <1>2, <1>3 DEF PlayerNext

\* All that was proved of the controller holds of the player: neither the services nor
\* their clients move it otherwise than it is modelled alone.
THEOREM PlayerRunsController == PlayerSpec => Spec
  BY PlayerStep, PTL DEF PlayerSpec, PlayerInit, Spec

LEMMA ReportIsStatus == IInv => last_status_msg_ \in Status
  BY DEF IInv, TypeOK

LEMMA WebSocketsStep == IInv /\ [PlayerNext]_playerVars => [WS!Next]_(WS!vars)
<1> SUFFICES ASSUME IInv, [PlayerNext]_playerVars
             PROVE  WS!Next \/ UNCHANGED wsVars
  BY DEF WS!vars, wsVars
<1>1. CASE Report
  BY <1>1, ReportIsStatus DEF Report, ToServices, WS!Next
<1>2. CASE ClientStep
  BY <1>2 DEF ClientStep, WS!Next
<1>3. CASE \/ Silently(SilentStep) \/ MqttInitialize \/ MqttHandler
           \/ BrokerTakes \/ LinkBreaks \/ UNCHANGED playerVars
  BY <1>3 DEF Silently, MqttInitialize, MqttHandler, BrokerTakes, LinkBreaks, playerVars
<1>4. QED BY <1>1, <1>2, <1>3 DEF PlayerNext

LEMMA MqttStep == IInv /\ [PlayerNext]_playerVars => [Mqtt!Next]_(Mqtt!vars)
<1> SUFFICES ASSUME IInv, [PlayerNext]_playerVars
             PROVE  Mqtt!Next \/ UNCHANGED mqttVars
  BY DEF Mqtt!vars, Mqtt!connVars, mqttVars
<1>1. CASE Report
  BY <1>1, ReportIsStatus DEF Report, ToServices, Mqtt!Next
<1>2. CASE MqttInitialize \/ MqttHandler \/ BrokerTakes \/ LinkBreaks
  BY <1>2 DEF MqttInitialize, MqttHandler, BrokerTakes, LinkBreaks, Mqtt!Next, Mqtt!LinkStep
<1>3. CASE Silently(SilentStep) \/ ClientStep \/ UNCHANGED playerVars
  BY <1>3 DEF Silently, ClientStep, playerVars
<1>4. QED BY <1>1, <1>2, <1>3 DEF PlayerNext

\* So does all that was proved of the services: the controller hands them nothing but
\* statuses, and nothing else of the player touches what they keep.
THEOREM PlayerRunsServices == PlayerSpec => WS!Spec /\ Mqtt!Spec
<1>1. PlayerSpec => []IInv
  BY PlayerRunsController, Invariant
<1>2. QED BY <1>1, WebSocketsStep, MqttStep, PTL
          DEF PlayerSpec, PlayerInit, WS!Spec, Mqtt!Spec

-----------------------------------------------------------------------------

\* The theorems about the services and their listeners, as they apply to the player.
WSTheorems == INSTANCE WebSocketsApi_proofs WITH
    Messages <- Status, connections_ <- ws_connections,
    last_status_msg_ <- ws_message, thrown <- ws_thrown

MqttTheorems == INSTANCE MqttApi_proofs WITH
    Messages <- Status, last_status_msg_ <- mqtt_message, thrown <- mqtt_thrown

ListenersTheorems == INSTANCE StatusListeners_proofs WITH
    pending <- Pending, MaxPending <- MaxBacklog + MaxPlays + 1

LEMMA WebSocketsFacts == PlayerSpec => []WS!OpenClientsAreUpToDate
<1>1. WS!Init => WSTheorems!Init
  BY DEF WS!Init, WSTheorems!Init
<1>2. [WS!Next]_(WS!vars) => [WSTheorems!Next]_(WSTheorems!vars)
  BY DEF WS!Next, WS!vars, WS!ReportCurrentSong, WS!ClientStep, WS!OnOpen, WS!OnOpenThrows,
         WS!SessionEnds, WS!OnClose, WS!Refuses, WS!Give, WS!Greet, WS!OtherConnections,
         WSTheorems!Next, WSTheorems!vars, WSTheorems!ReportCurrentSong,
         WSTheorems!ClientStep, WSTheorems!OnOpen, WSTheorems!OnOpenThrows,
         WSTheorems!SessionEnds, WSTheorems!OnClose, WSTheorems!Refuses, WSTheorems!Give,
         WSTheorems!Greet, WSTheorems!OtherConnections
<1>3. WSTheorems!Spec => []WSTheorems!OpenClientsAreUpToDate
  BY WSTheorems!ClientsAreUpToDate, NoMessagesAssumption
<1>4. WSTheorems!OpenClientsAreUpToDate => WS!OpenClientsAreUpToDate
  BY DEF WS!OpenClientsAreUpToDate, WSTheorems!OpenClientsAreUpToDate
<1>5. QED BY <1>1, <1>2, <1>3, <1>4, PlayerRunsServices, PTL DEF WS!Spec, WSTheorems!Spec

LEMMA MqttFacts == PlayerSpec => []Mqtt!LastMessageIsOnItsWay
<1>1. Mqtt!Init => MqttTheorems!Init
  BY DEF Mqtt!Init, MqttTheorems!Init
<1>2. [Mqtt!Next]_(Mqtt!vars) => [MqttTheorems!Next]_(MqttTheorems!vars)
  BY DEF Mqtt!Next, Mqtt!vars, Mqtt!connVars, Mqtt!Fail, Mqtt!OnError, Mqtt!WriteIsLost,
         Mqtt!IsMessage, Mqtt!PublishCurrentSong, Mqtt!Connect, Mqtt!ConnectInVain,
         Mqtt!ResolveThrows, Mqtt!Initialize, Mqtt!Keep, Mqtt!ReportCurrentSong,
         Mqtt!Connected, Mqtt!ConnectFails, Mqtt!MessageOnConnAck, Mqtt!OnConnAck,
         Mqtt!OnConnAckRefused, Mqtt!Breaks, Mqtt!ReadFails, Mqtt!Reconnect,
         Mqtt!BrokerTakes, Mqtt!HandlerStep, Mqtt!LinkStep, MqttTheorems!Next,
         MqttTheorems!vars, MqttTheorems!connVars, MqttTheorems!Fail,
         MqttTheorems!OnError, MqttTheorems!WriteIsLost, MqttTheorems!IsMessage,
         MqttTheorems!PublishCurrentSong, MqttTheorems!Connect,
         MqttTheorems!ConnectInVain, MqttTheorems!ResolveThrows, MqttTheorems!Initialize,
         MqttTheorems!Keep, MqttTheorems!ReportCurrentSong, MqttTheorems!Connected,
         MqttTheorems!ConnectFails, MqttTheorems!MessageOnConnAck, MqttTheorems!OnConnAck,
         MqttTheorems!OnConnAckRefused, MqttTheorems!Breaks, MqttTheorems!ReadFails,
         MqttTheorems!Reconnect, MqttTheorems!BrokerTakes, MqttTheorems!HandlerStep,
         MqttTheorems!LinkStep
<1>3. MqttTheorems!Spec => []MqttTheorems!LastMessageIsOnItsWay
  BY MqttTheorems!NothingOvertakesLastMessage, NoMessagesAssumption, LinkBoundsAssumption
<1>4. MqttTheorems!LastMessageIsOnItsWay => Mqtt!LastMessageIsOnItsWay
  BY DEF Mqtt!LastMessageIsOnItsWay, MqttTheorems!LastMessageIsOnItsWay
<1>5. QED BY <1>1, <1>2, <1>3, <1>4, PlayerRunsServices, PTL DEF Mqtt!Spec, MqttTheorems!Spec

-----------------------------------------------------------------------------
(* The queue of the main io_service, and the newest message in it.          *)

\* A thread whose end is not posted yet.
Unfinished(s) == thread[s] \in {"run", "handler", "leaving"}

\* Beyond what the threads report, at most one message for each play waits: its end.
BacklogInv ==
    /\ Len(posted) <= MaxBacklog + play_seq_id_
    /\ \A s \in Plays : Unfinished(s) => Len(posted) < MaxBacklog + play_seq_id_

\* The newest message speaks of a song only as long as its thread has not posted the end.
NewestIsTrue == Newest.song_is_playing => Unfinished(Newest.play_seq_id)

PlayerInv == IInv /\ BacklogInv /\ NewestIsTrue

LEMMA PlayerInvInit == Init => PlayerInv
<1> SUFFICES ASSUME Init PROVE PlayerInv
  OBVIOUS
<1>1. posted = <<>> /\ last_status_msg_ = InitialStatus /\ play_seq_id_ = 0
      /\ \A s \in Plays : thread[s] = "none"
  BY DEF Init
<1>2. BacklogInv
  BY <1>1 DEF BacklogInv, Unfinished
<1>3. NewestIsTrue
  BY <1>1, RankOfInitial DEF NewestIsTrue, Newest
<1>4. QED BY <1>2, <1>3, InvInit DEF PlayerInv

\* A step that posts nothing and ends no play.
QuietStep ==
    /\ Len(posted') <= Len(posted)
    /\ Newest' = Newest
    /\ play_seq_id_' \in {play_seq_id_, play_seq_id_ + 1}
    /\ \A s \in Plays :
          /\ Unfinished(s) => Unfinished(s)'
          /\ Unfinished(s)' => Unfinished(s) \/ play_seq_id_' # play_seq_id_

LEMMA QuietStepKeepsPlayerInv ==
    ASSUME PlayerInv, QuietStep
    PROVE  BacklogInv' /\ NewestIsTrue'
<1>1. /\ posted \in Seq(Status) /\ play_seq_id_ \in Nat /\ Newest \in Status
      /\ Len(posted) \in Nat
  BY NewestIsStatus DEF PlayerInv, IInv, TypeOK
<1>2. BacklogInv'
  BY <1>1 DEF PlayerInv, BacklogInv, QuietStep
<1>3. NewestIsTrue'
  BY <1>1, StatusFields DEF PlayerInv, NewestIsTrue, QuietStep
<1>4. QED BY <1>2, <1>3

\* A request takes its number, and a thread begins with it, or none does.
LEMMA RequestIsQuiet ==
    ASSUME PlayerInv,
           \/ InitializationFails \/ Start
           \/ \E f \in Files : BeginRequest("new", f)
           \/ BeginRequest("stop", NoFile)
           \/ ContinueRequest
    PROVE  QuietStep
<1> USE DEF mainVars, controlVars, statusVars, serviceVars, Unfinished
<1>1. /\ posted \in Seq(Status) /\ Len(posted) \in Nat
      /\ thread \in [Plays -> ThreadLocations] /\ play_seq_id_ \in Nat
  BY DEF PlayerInv, IInv, TypeOK
<1>2. UNCHANGED <<statusVars, posted>>
  BY DEF InitializationFails, Start, BeginRequest, ContinueRequest, SignalStop,
         JoinAndDelete, AnswerStop, LoadFails, LoadFailsAfterOpen, LoadAndPlay
<1>3. Len(posted') <= Len(posted) /\ Newest' = Newest
  BY <1>1, <1>2 DEF Newest
<1>4. CASE UNCHANGED <<thread, play_seq_id_>>
  BY <1>3, <1>4 DEF QuietStep
<1>5. CASE UNCHANGED thread /\ play_seq_id_' = play_seq_id_ + 1
  BY <1>3, <1>5 DEF QuietStep
<1>6. ASSUME NEW started \in BOOLEAN, LoadAndPlay(started) PROVE QuietStep
  <2>1. /\ play_seq_id_' = play_seq_id_ + 1
        /\ thread' = [thread EXCEPT ![play_seq_id_ + 1] = IF started THEN "run" ELSE "none"]
    BY <1>6 DEF LoadAndPlay, NextPlay
  <2>2. \A s \in Plays : Unfinished(s) => s # play_seq_id_ + 1
    BY <1>1 DEF PlayerInv, IInv, ServiceInv
  <2>3. \A s \in Plays : Unfinished(s) => Unfinished(s)'
    BY <1>1, <2>1, <2>2
  <2>4. QED BY <1>1, <1>3, <2>1, <2>3 DEF QuietStep
<1>7. \/ UNCHANGED <<thread, play_seq_id_>>
      \/ UNCHANGED thread /\ play_seq_id_' = play_seq_id_ + 1
      \/ \E started \in BOOLEAN : LoadAndPlay(started)
  BY DEF InitializationFails, Start, BeginRequest, ContinueRequest, SignalStop,
         JoinAndDelete, AnswerStop, LoadFails, LoadFailsAfterOpen, NextPlay
<1>8. QED BY <1>4, <1>5, <1>6, <1>7

\* A thread goes on, and the main thread handles what was posted.
LEMMA HandlerIsQuiet ==
    ASSUME PlayerInv,
           \/ \E s \in Plays : \/ EnterHandler(s) \/ RunReturns(s) \/ HandlerContinues(s)
                               \/ HandlerEnds(s) \/ ThreadExits(s)
           \/ UpdateLastStatusMsg \/ ReportCurrentSongToServices
           \/ Terminated \/ UNCHANGED vars
    PROVE  QuietStep
<1> USE DEF vars, mainVars, controlVars, statusVars, serviceVars
<1>1. /\ posted \in Seq(Status) /\ Len(posted) \in Nat
      /\ thread \in [Plays -> ThreadLocations] /\ play_seq_id_ \in Nat
  BY DEF PlayerInv, IInv, TypeOK
<1>2. play_seq_id_' = play_seq_id_
  BY DEF EnterHandler, RunReturns, HandlerContinues, HandlerEnds, ThreadExits,
         UpdateLastStatusMsg, ReportCurrentSongToServices, Terminated
<1>3. \A s \in Plays : Unfinished(s)' <=> Unfinished(s)
  BY <1>1 DEF Unfinished, EnterHandler, RunReturns, HandlerContinues, HandlerEnds, ThreadExits,
         UpdateLastStatusMsg, ReportCurrentSongToServices, Terminated
<1>4. CASE UpdateLastStatusMsg
  <2>1. Newest' = Newest
    BY <1>4, InvImpliesQueueInv, UpdateKeepsQueue DEF PlayerInv
  <2>2. posted # <<>> /\ posted' = Tail(posted)
    BY <1>4 DEF UpdateLastStatusMsg
  <2>3. Len(posted') <= Len(posted)
    BY <1>1, <2>2
  <2>4. QED BY <1>2, <1>3, <2>1, <2>3 DEF QuietStep
<1>5. CASE UNCHANGED <<last_status_msg_, posted>>
  BY <1>1, <1>2, <1>3, <1>5 DEF QuietStep, Newest
<1>6. UpdateLastStatusMsg \/ UNCHANGED <<last_status_msg_, posted>>
  BY DEF EnterHandler, RunReturns, HandlerContinues, HandlerEnds, ThreadExits,
         ReportCurrentSongToServices, Terminated
<1>7. QED BY <1>4, <1>5, <1>6

\* Only the thread of the service at hand posts.
LEMMA OneIsUnfinished ==
    ASSUME PlayerInv, NEW s \in Plays, Unfinished(s)
    PROVE  /\ \A q \in Plays : Unfinished(q) => q = s
           /\ s <= play_seq_id_ /\ Len(posted) < MaxBacklog + play_seq_id_
  BY AliveFacts DEF PlayerInv, IInv, ThreadHasItsService, BacklogInv, Unfinished, Alive

LEMMA PostingKeepsPlayerInv ==
    ASSUME PlayerInv, NEW s \in Plays,
           PostNoSong(s) \/ \E t \in StartTimes : HandlerReports(s, t)
    PROVE  BacklogInv' /\ NewestIsTrue'
<1> USE DEF mainVars, controlVars, statusVars
<1>1. /\ posted \in Seq(Status) /\ Len(posted) \in Nat
      /\ thread \in [Plays -> ThreadLocations] /\ play_seq_id_ \in Nat
      /\ play_seq_id_' = play_seq_id_
  BY DEF PlayerInv, IInv, TypeOK, PostNoSong, HandlerReports
<1>2. Unfinished(s)
  BY DEF PostNoSong, HandlerReports, Unfinished
<1>3. CASE PostNoSong(s)
  <2>1. \A q \in Plays : ~Unfinished(q)'
    BY <1>1, <1>2, <1>3, OneIsUnfinished DEF PostNoSong, Unfinished
  <2>2. Len(posted') = Len(posted) + 1
    BY <1>1, <1>3, AppendProperties, NoSongIsNews DEF PostNoSong, PostsNews, PlayerInv
  <2>3. ~Newest'.song_is_playing
    BY <1>2, <1>3, NoSongIsNews, NewsKeepsQueue, RankOfStopped, AliveFacts
       DEF PlayerInv, Unfinished, Alive
  <2>4. QED BY <1>1, <1>2, <2>1, <2>2, <2>3, OneIsUnfinished DEF BacklogInv, NewestIsTrue
<1>4. ASSUME NEW t \in StartTimes, HandlerReports(s, t) PROVE BacklogInv' /\ NewestIsTrue'
  <2>1. thread'[s] = "run"
    BY <1>1, <1>4 DEF HandlerReports
  <2>2. Len(posted) < MaxBacklog /\ Len(posted') = Len(posted) + 1
    BY <1>1, <1>4, AppendProperties, ReportIsNews DEF HandlerReports, PostsNews, PlayerInv
  <2>3. Newest'.play_seq_id = s
    BY <1>2, <1>4, ReportIsNews, NewsKeepsQueue, RankOfPlaying, AliveFacts
       DEF PlayerInv, Unfinished, Alive
  <2>4. play_seq_id_ >= 1
    BY <1>1, <1>2, OneIsUnfinished
  <2>5. QED BY <1>1, <2>1, <2>2, <2>3, <2>4 DEF BacklogInv, NewestIsTrue, Unfinished
<1>5. QED BY <1>3, <1>4

LEMMA PlayerInvNext == PlayerInv /\ [Next]_vars => PlayerInv'
<1> SUFFICES ASSUME PlayerInv, [Next]_vars PROVE BacklogInv' /\ NewestIsTrue'
  BY InvNext DEF PlayerInv
<1>1. CASE QuietStep
  BY <1>1, QuietStepKeepsPlayerInv
<1>2. ASSUME NEW s \in Plays,
             PostNoSong(s) \/ \E t \in StartTimes : HandlerReports(s, t)
      PROVE  BacklogInv' /\ NewestIsTrue'
  BY <1>2, PostingKeepsPlayerInv
<1>3. \/ QuietStep
      \/ \E s \in Plays : PostNoSong(s) \/ \E t \in StartTimes : HandlerReports(s, t)
  BY RequestIsQuiet, HandlerIsQuiet DEF Next, SilentStep, ThreadStep, HandlerStep
<1>4. QED BY <1>1, <1>2, <1>3

LEMMA PlayerInvariant == PlayerSpec => []PlayerInv
  BY PlayerRunsController, PlayerInvInit, PlayerInvNext, PTL DEF Spec

-----------------------------------------------------------------------------
(* The player implements StatusListeners: behind the services and those who *)
(* listen to them, its controller cannot be told from a status feed.        *)

LEMMA SameFeed ==
    /\ Listeners!Status = Status
    /\ Feed!FeedInit => Listeners!FeedInit
    /\ \A st : Feed!Advance(st) => Listeners!Advance(st)
    /\ Feed!Publish => Listeners!Publish
    /\ Feed!Skip => Listeners!Skip
<1>1. Listeners!InitialStatus = Feed!InitialStatus /\ Listeners!NoStatus = Feed!NoStatus
  BY DEF Listeners!InitialStatus, Feed!InitialStatus, Listeners!NoStatus, Feed!NoStatus,
         Listeners!StoppedStatus, Feed!StoppedStatus, Listeners!Message, Feed!Message,
         Listeners!NoTime, Feed!NoTime
<1>2. Listeners!Status = Status
  BY DEF Listeners!Status, Status, Listeners!PlayingStatus, PlayingStatus,
         Listeners!StoppedStatus, StoppedStatus, Listeners!InitialStatus, InitialStatus,
         Listeners!Message, Message, Listeners!NoTime, NoTime, Listeners!Plays, Plays
<1>3. QED BY <1>1, <1>2, Zenon
          DEF Listeners!FeedInit, Feed!FeedInit, Listeners!Publish, Feed!Publish,
              Listeners!Skip, Feed!Skip, Listeners!Advance, Feed!Advance,
              Listeners!Newest, Feed!Newest, Listeners!Rank, Feed!Rank

LEMMA SameServices ==
    /\ WS!Init => Listeners!WS!Init
    /\ Mqtt!Init => Listeners!Mqtt!Init
    /\ \A message : WS!ReportCurrentSong(message) => Listeners!WS!ReportCurrentSong(message)
    /\ \A message : Mqtt!ReportCurrentSong(message)
                       => Listeners!Mqtt!ReportCurrentSong(message)
    /\ \A c : WS!ClientStep(c) => Listeners!WS!ClientStep(c)
    /\ Mqtt!LinkStep => Listeners!Mqtt!LinkStep
    /\ Mqtt!Breaks => Listeners!Mqtt!Breaks
<1>1. /\ WS!Init => Listeners!WS!Init
      /\ \A message : WS!ReportCurrentSong(message)
                         => Listeners!WS!ReportCurrentSong(message)
      /\ \A c : WS!ClientStep(c) => Listeners!WS!ClientStep(c)
  BY DEF WS!Init, Listeners!WS!Init, WS!ReportCurrentSong,
         Listeners!WS!ReportCurrentSong, WS!Give, Listeners!WS!Give, WS!Refuses,
         Listeners!WS!Refuses, WS!OnOpen, Listeners!WS!OnOpen, WS!Greet,
         Listeners!WS!Greet, WS!OnOpenThrows, Listeners!WS!OnOpenThrows, WS!SessionEnds,
         Listeners!WS!SessionEnds, WS!OtherConnections, Listeners!WS!OtherConnections,
         WS!OnClose, Listeners!WS!OnClose, WS!ClientStep, Listeners!WS!ClientStep
<1>2. /\ Mqtt!Init => Listeners!Mqtt!Init
      /\ \A message : Mqtt!ReportCurrentSong(message)
                         => Listeners!Mqtt!ReportCurrentSong(message)
      /\ Mqtt!LinkStep => Listeners!Mqtt!LinkStep
      /\ Mqtt!Breaks => Listeners!Mqtt!Breaks
  BY DEF Mqtt!Init, Listeners!Mqtt!Init, Mqtt!Fail, Listeners!Mqtt!Fail, Mqtt!OnError,
         Listeners!Mqtt!OnError, Mqtt!WriteIsLost, Listeners!Mqtt!WriteIsLost,
         Mqtt!IsMessage, Listeners!Mqtt!IsMessage, Mqtt!PublishCurrentSong,
         Listeners!Mqtt!PublishCurrentSong, Mqtt!Connect, Mqtt!ConnectInVain,
         Mqtt!ResolveThrows, Listeners!Mqtt!Connect, Listeners!Mqtt!ConnectInVain,
         Listeners!Mqtt!ResolveThrows, Mqtt!Initialize, Listeners!Mqtt!Initialize,
         Mqtt!Keep, Listeners!Mqtt!Keep, Mqtt!ReportCurrentSong,
         Listeners!Mqtt!ReportCurrentSong, Mqtt!Connected, Listeners!Mqtt!Connected,
         Mqtt!ConnectFails, Listeners!Mqtt!ConnectFails, Mqtt!MessageOnConnAck,
         Listeners!Mqtt!MessageOnConnAck, Mqtt!OnConnAck, Listeners!Mqtt!OnConnAck,
         Mqtt!OnConnAckRefused, Listeners!Mqtt!OnConnAckRefused, Mqtt!Breaks,
         Listeners!Mqtt!Breaks, Mqtt!ReadFails, Listeners!Mqtt!ReadFails, Mqtt!Reconnect,
         Listeners!Mqtt!Reconnect, Mqtt!BrokerTakes, Listeners!Mqtt!BrokerTakes,
         Mqtt!HandlerStep, Listeners!Mqtt!HandlerStep, Mqtt!LinkStep,
         Listeners!Mqtt!LinkStep
<1>3. QED BY <1>1, <1>2

\* What a thread posts finds room among the statuses that wait.
LEMMA AdvanceHasRoom ==
    ASSUME PlayerInv, NEW s \in Plays,
           PostNoSong(s) \/ \E t \in StartTimes : HandlerReports(s, t)
    PROVE  /\ Len(Pending) < MaxBacklog + MaxPlays + 1
           /\ \E st \in Status : Listeners!Advance(st)
<1>1. /\ posted \in Seq(Status) /\ Len(posted) \in Nat /\ play_seq_id_ \in 0..MaxPlays
      /\ last_status_msg_ \in Status /\ StatusTypes /\ IInv
  BY InvImpliesQueueInv DEF PlayerInv, IInv, TypeOK, QueueInv
<1>2. Len(posted) < MaxBacklog + play_seq_id_
  BY OneIsUnfinished DEF PostNoSong, HandlerReports, Unfinished
<1>3. Len(Pending) <= Len(posted) + 1 /\ Len(Pending) \in Nat
  BY <1>1, PendingIs, ConsFacts
<1>4. PICK st : PostsNews(st)
  BY <1>1, ReportIsNews, NoSongIsNews
<1>5. st \in Status /\ Listeners!Advance(st)
  BY <1>1, <1>4, PostAdvances, SameFeed DEF PostsNews
<1>6. QED BY <1>1, <1>2, <1>3, <1>5

LEMMA SilentStepMovesFeed ==
    ASSUME PlayerInv, Silently(SilentStep)
    PROVE  Listeners!FeedChanges \/ UNCHANGED <<Pending, published, wsVars, mqttVars>>
<1>1. SilentStep /\ UNCHANGED <<wsVars, mqttVars>> /\ IInv
  BY DEF Silently, PlayerInv
<1>2. UNCHANGED Listeners!wsVars /\ UNCHANGED Listeners!mqttVars
  BY <1>1 DEF wsVars, mqttVars, Listeners!wsVars, Listeners!mqttVars
<1>3. CASE UpdateLastStatusMsg
  <2>1. Listeners!Skip \/ UNCHANGED <<Pending, published>>
    BY <1>1, <1>3, UpdateSkips, SameFeed
  <2>2. QED BY <1>1, <1>2, <2>1, Zenon DEF Listeners!FeedChanges
<1>4. ASSUME NEW s \in Plays,
             PostNoSong(s) \/ \E t \in StartTimes : HandlerReports(s, t)
      PROVE  Listeners!FeedChanges
  BY <1>2, <1>4, AdvanceHasRoom, SameFeed, Zenon DEF Listeners!FeedChanges
<1>5. CASE UNCHANGED <<Pending, published>>
  BY <1>1, <1>5
<1>6. QED BY <1>1, <1>3, <1>4, <1>5, OtherStepsLeaveFeed

LEMMA ListenersInitial == PlayerInit => Listeners!Init
  BY FeedInitial, SameFeed, SameServices DEF PlayerInit, Listeners!Init

LEMMA ListenersStep == PlayerInv /\ [PlayerNext]_playerVars => [Listeners!Next]_(Listeners!vars)
<1> SUFFICES ASSUME PlayerInv, [PlayerNext]_playerVars
             PROVE  Listeners!Next \/ UNCHANGED <<Pending, published, wsVars, mqttVars>>
  BY DEF Listeners!vars, Listeners!feedVars, Listeners!wsVars, Listeners!mqttVars,
         wsVars, mqttVars
<1>1. UNCHANGED vars => UNCHANGED <<Pending, published>>
  BY DEF vars, statusVars, Pending
<1> SUFFICES ASSUME PlayerNext
             PROVE  Listeners!Next \/ UNCHANGED <<Pending, published, wsVars, mqttVars>>
  BY <1>1 DEF playerVars
<1>2. Listeners!Running
  BY DEF PlayerNext, Running, Listeners!Running
<1> USE DEF Listeners!feedVars, Listeners!wsVars, Listeners!mqttVars, wsVars, mqttVars
<1>3. CASE Silently(SilentStep)
  BY <1>2, <1>3, SilentStepMovesFeed DEF Listeners!Next
<1>4. CASE Report
  <2>1. Listeners!Publish /\ Head(Pending) = last_status_msg_
    BY <1>4, ReportPublishes, SameFeed DEF Report, PlayerInv
  <2>2. Listeners!ToServices(Head(Pending))
    BY <1>4, <2>1, SameServices DEF Report, ToServices, Listeners!ToServices
  <2>3. QED BY <1>2, <2>1, <2>2 DEF Listeners!Next, Listeners!ReportCurrentSongToServices
<1>5. CASE ClientStep
  BY <1>1, <1>2, <1>5, SameServices DEF ClientStep, Listeners!ClientStep, Listeners!Next
<1>6. CASE MqttInitialize \/ MqttHandler \/ BrokerTakes
  <2>1. Mqtt!LinkStep /\ UNCHANGED <<vars, wsVars>>
    BY <1>6 DEF MqttInitialize, MqttHandler, BrokerTakes, Mqtt!LinkStep
  <2>2. QED BY <1>1, <1>2, <2>1, SameServices DEF Listeners!LinkStep, Listeners!Next
<1>7. CASE LinkBreaks
  BY <1>1, <1>2, <1>7, SameServices DEF LinkBreaks, Listeners!LinkBreaks, Listeners!Next
<1>8. QED BY <1>3, <1>4, <1>5, <1>6, <1>7 DEF PlayerNext

\* Whatever the threads, the requests, the clients and the broker do, and in whatever
\* order, the services and those who listen to them go through a behaviour of
\* StatusListeners: the controller may be replaced by the feed it implements.
THEOREM PlayerImplementsListeners == PlayerSpec => ListenersAsComposed
  BY ListenersInitial, ListenersStep, PlayerInvariant, PTL
     DEF PlayerSpec, ListenersAsComposed, Listeners!Spec

-----------------------------------------------------------------------------
(* What the player inherits from StatusListeners.                           *)

LEMMA ListenersOfPlayer == PlayerSpec => ListenersTheorems!Spec
<1>1. /\ Listeners!Status = ListenersTheorems!Status
      /\ Listeners!InitialStatus = ListenersTheorems!InitialStatus
      /\ Listeners!NoStatus = ListenersTheorems!NoStatus
  BY DEF Listeners!InitialStatus, ListenersTheorems!InitialStatus, Listeners!NoStatus,
         ListenersTheorems!NoStatus, Listeners!StoppedStatus,
         ListenersTheorems!StoppedStatus, Listeners!PlayingStatus,
         ListenersTheorems!PlayingStatus, Listeners!Message, ListenersTheorems!Message,
         Listeners!NoTime, ListenersTheorems!NoTime, Listeners!Plays,
         ListenersTheorems!Plays, Listeners!Status, ListenersTheorems!Status
<1>2. /\ Listeners!FeedInit => ListenersTheorems!FeedInit
      /\ \A st : Listeners!Advance(st) => ListenersTheorems!Advance(st)
      /\ Listeners!Publish => ListenersTheorems!Publish
      /\ Listeners!Skip => ListenersTheorems!Skip
  BY <1>1 DEF Listeners!FeedInit, ListenersTheorems!FeedInit, Listeners!Rank,
         ListenersTheorems!Rank, Listeners!Newest, ListenersTheorems!Newest,
         Listeners!Advance, ListenersTheorems!Advance, Listeners!Publish,
         ListenersTheorems!Publish, Listeners!Skip, ListenersTheorems!Skip
<1>3. /\ Listeners!WS!Init => ListenersTheorems!WS!Init
      /\ \A message : Listeners!WS!ReportCurrentSong(message)
                         => ListenersTheorems!WS!ReportCurrentSong(message)
      /\ \A c : Listeners!WS!ClientStep(c) => ListenersTheorems!WS!ClientStep(c)
  BY DEF Listeners!WS!Init, ListenersTheorems!WS!Init, Listeners!WS!ReportCurrentSong,
         ListenersTheorems!WS!ReportCurrentSong, Listeners!WS!Give,
         ListenersTheorems!WS!Give, Listeners!WS!Refuses, ListenersTheorems!WS!Refuses,
         Listeners!WS!OnOpen, ListenersTheorems!WS!OnOpen, Listeners!WS!Greet,
         ListenersTheorems!WS!Greet, Listeners!WS!OnOpenThrows,
         ListenersTheorems!WS!OnOpenThrows, Listeners!WS!SessionEnds,
         ListenersTheorems!WS!SessionEnds, Listeners!WS!OtherConnections,
         ListenersTheorems!WS!OtherConnections, Listeners!WS!OnClose,
         ListenersTheorems!WS!OnClose, Listeners!WS!ClientStep,
         ListenersTheorems!WS!ClientStep
<1>4. /\ Listeners!Mqtt!Init => ListenersTheorems!Mqtt!Init
      /\ \A message : Listeners!Mqtt!ReportCurrentSong(message)
                         => ListenersTheorems!Mqtt!ReportCurrentSong(message)
      /\ Listeners!Mqtt!LinkStep => ListenersTheorems!Mqtt!LinkStep
      /\ Listeners!Mqtt!Breaks => ListenersTheorems!Mqtt!Breaks
  BY DEF Listeners!Mqtt!Init, ListenersTheorems!Mqtt!Init, Listeners!Mqtt!Fail,
         ListenersTheorems!Mqtt!Fail, Listeners!Mqtt!OnError,
         ListenersTheorems!Mqtt!OnError, Listeners!Mqtt!WriteIsLost,
         ListenersTheorems!Mqtt!WriteIsLost, Listeners!Mqtt!IsMessage,
         ListenersTheorems!Mqtt!IsMessage, Listeners!Mqtt!PublishCurrentSong,
         ListenersTheorems!Mqtt!PublishCurrentSong, Listeners!Mqtt!Connect,
         Listeners!Mqtt!ConnectInVain, Listeners!Mqtt!ResolveThrows,
         ListenersTheorems!Mqtt!Connect, ListenersTheorems!Mqtt!ConnectInVain,
         ListenersTheorems!Mqtt!ResolveThrows, Listeners!Mqtt!Initialize,
         ListenersTheorems!Mqtt!Initialize, Listeners!Mqtt!Keep,
         ListenersTheorems!Mqtt!Keep, Listeners!Mqtt!ReportCurrentSong,
         ListenersTheorems!Mqtt!ReportCurrentSong, Listeners!Mqtt!Connected,
         ListenersTheorems!Mqtt!Connected, Listeners!Mqtt!ConnectFails,
         ListenersTheorems!Mqtt!ConnectFails, Listeners!Mqtt!MessageOnConnAck,
         ListenersTheorems!Mqtt!MessageOnConnAck, Listeners!Mqtt!OnConnAck,
         ListenersTheorems!Mqtt!OnConnAck, Listeners!Mqtt!OnConnAckRefused,
         ListenersTheorems!Mqtt!OnConnAckRefused, Listeners!Mqtt!Breaks,
         ListenersTheorems!Mqtt!Breaks, Listeners!Mqtt!ReadFails,
         ListenersTheorems!Mqtt!ReadFails, Listeners!Mqtt!Reconnect,
         ListenersTheorems!Mqtt!Reconnect, Listeners!Mqtt!BrokerTakes,
         ListenersTheorems!Mqtt!BrokerTakes, Listeners!Mqtt!HandlerStep,
         ListenersTheorems!Mqtt!HandlerStep, Listeners!Mqtt!LinkStep,
         ListenersTheorems!Mqtt!LinkStep
<1>5. /\ Listeners!Init => ListenersTheorems!Init
      /\ [Listeners!Next]_(Listeners!vars)
            => [ListenersTheorems!Next]_(ListenersTheorems!vars)
  BY <1>1, <1>2, <1>3, <1>4
     DEF Listeners!Init, ListenersTheorems!Init, Listeners!feedVars,
         ListenersTheorems!feedVars, Listeners!wsVars, ListenersTheorems!wsVars,
         Listeners!mqttVars, ListenersTheorems!mqttVars, Listeners!vars,
         ListenersTheorems!vars, Listeners!Running, ListenersTheorems!Running,
         Listeners!ToServices, ListenersTheorems!ToServices,
         Listeners!ReportCurrentSongToServices,
         ListenersTheorems!ReportCurrentSongToServices, Listeners!FeedChanges,
         ListenersTheorems!FeedChanges, Listeners!ClientStep,
         ListenersTheorems!ClientStep, Listeners!LinkStep, ListenersTheorems!LinkStep,
         Listeners!LinkBreaks, ListenersTheorems!LinkBreaks, Listeners!Next,
         ListenersTheorems!Next
<1>6. QED BY <1>5, PlayerImplementsListeners, PTL
          DEF ListenersAsComposed, Listeners!Spec, ListenersTheorems!Spec

LEMMA ListenersStatusIs == ListenersTheorems!Status = Status
  BY DEF Status, PlayingStatus, StoppedStatus, InitialStatus, Message, NoTime, Plays,
         ListenersTheorems!InitialStatus, ListenersTheorems!NoStatus,
         ListenersTheorems!StoppedStatus, ListenersTheorems!PlayingStatus,
         ListenersTheorems!Message, ListenersTheorems!NoTime, ListenersTheorems!Plays,
         ListenersTheorems!Status

\* Neither a client nor the broker ever sees the player go back: StatusListeners shows it
\* for any status feed, and so it holds of the controller with its threads and requests.
THEOREM PlayerNeverGoesBack == PlayerSpec => ListenersSeeHistoryInOrder
<1>1. ListenersTheorems!Spec => ListenersTheorems!ListenersSeeHistoryInOrder
  BY ListenersTheorems!NobodySeesPlayerGoBack, ListenersStatusIs, NoMessagesAssumption,
     LinkBoundsAssumption
<1>2. \A message : ListenersTheorems!Moment(message) = Moment(message)
  BY ListenersStatusIs DEF ListenersTheorems!Moment, Moment, ListenersTheorems!Rank, Rank
<1>3. [/\ \A c \in Clients :
             ListenersTheorems!Moment(given[c]) <= ListenersTheorems!Moment(given'[c])
       /\ ListenersTheorems!Moment(retained)
             <= ListenersTheorems!Moment(retained')]_<<given, retained>>
      => [/\ \A c \in Clients : Moment(given[c]) <= Moment(given'[c])
          /\ Moment(retained) <= Moment(retained')]_<<given, retained>>
  BY <1>2
<1>4. QED BY <1>1, <1>3, ListenersOfPlayer, PTL
          DEF ListenersSeeHistoryInOrder, ListenersTheorems!ListenersSeeHistoryInOrder

\* Only the throttle timer publishes.
LEMMA PublishesNothing == SilentStep => UNCHANGED published
<1> USE DEF statusVars
<1>1. InitializationFails \/ Start \/ ContinueRequest => UNCHANGED published
  BY DEF InitializationFails, Start, ContinueRequest, SignalStop, JoinAndDelete, AnswerStop,
         LoadFails, LoadFailsAfterOpen, LoadAndPlay
<1>2. \A o, f : BeginRequest(o, f) => UNCHANGED published
  BY DEF BeginRequest
<1>3. \A s \in Plays : ThreadStep(s) => UNCHANGED published
  BY DEF ThreadStep, HandlerStep, EnterHandler, RunReturns, HandlerEnds, HandlerContinues,
         HandlerReports, PostNoSong, ThreadExits
<1>4. UpdateLastStatusMsg => UNCHANGED published
  BY DEF UpdateLastStatusMsg
<1>5. QED BY <1>1, <1>2, <1>3, <1>4 DEF SilentStep

\* MQTT and the web sockets of the player keep the message published last.
LEMMA PublishedIsKept ==
    PlayerSpec => [](ws_message = mqtt_message
                     /\ (published # NoStatus => mqtt_message = published))
<1> DEFINE Kept == ws_message = mqtt_message
                   /\ (published # NoStatus => mqtt_message = published)
<1>1. PlayerInit => Kept
  BY DEF PlayerInit, Init, WS!Init, Mqtt!Init
<1>2. Kept /\ [PlayerNext]_playerVars => Kept'
  <2> SUFFICES ASSUME Kept, [PlayerNext]_playerVars PROVE Kept'
    OBVIOUS
  <2>1. CASE Report
    BY <2>1 DEF Report, ToServices, ReportCurrentSongToServices, WS!ReportCurrentSong,
                Mqtt!ReportCurrentSong, Mqtt!Keep
  <2>2. CASE UNCHANGED <<published, ws_message, mqtt_message>>
    BY <2>2
  <2>3. CASE Silently(SilentStep) \/ ClientStep \/ UNCHANGED playerVars
    BY <2>2, <2>3, PublishesNothing
       DEF Silently, ClientStep, wsVars, mqttVars, playerVars, vars, statusVars, WS!ClientStep,
           WS!OnOpen, WS!OnOpenThrows, WS!SessionEnds, WS!OnClose
  <2>4. CASE MqttInitialize \/ MqttHandler \/ BrokerTakes \/ LinkBreaks
    BY <2>2, <2>4
       DEF MqttInitialize, MqttHandler, BrokerTakes, LinkBreaks, wsVars, vars, statusVars,
           Mqtt!Initialize, Mqtt!HandlerStep, Mqtt!Connected, Mqtt!ConnectFails,
           Mqtt!OnConnAck, Mqtt!OnConnAckRefused, Mqtt!ReadFails, Mqtt!Reconnect,
           Mqtt!BrokerTakes, Mqtt!Breaks
  <2>5. QED BY <2>1, <2>3, <2>4 DEF PlayerNext
<1>3. QED BY <1>1, <1>2, PTL DEF PlayerSpec

\* Nobody who listens to the player is left with the word that a song is played once its
\* thread has ended, if nothing is on its way any more.
THEOREM NobodyIsLeftWithAGhost == PlayerSpec => []NoGhostSong
<1> DEFINE Kept == ws_message = mqtt_message
                   /\ (published # NoStatus => mqtt_message = published)
<1>1. ASSUME PlayerInv, Kept, WS!OpenClientsAreUpToDate, Mqtt!LastMessageIsOnItsWay
      PROVE  NoGhostSong
  <2> SUFFICES ASSUME NEW s \in Plays, Running, Settled, ~Alive(s)
               PROVE  /\ \A c \in Clients : session[c] = "open" => ~SaysPlayed(given[c], s)
                      /\ link = "up" /\ channel = <<>> => ~SaysPlayed(retained, s)
    BY DEF NoGhostSong
  <2>1. /\ last_status_msg_ \in Status /\ Newest = last_status_msg_
        /\ published = last_status_msg_
    BY <1>1 DEF PlayerInv, IInv, TypeOK, UnpublishedStatusHasTimer, Settled, Newest
  <2>2. published # NoStatus /\ published # Empty
    BY <2>1, StatusFields, RankOfInitial, NoMessagesAssumption
  <2>3. ws_message = Newest /\ mqtt_message = Newest
    BY <1>1, <2>1, <2>2
  <2>4. ~SaysPlayed(Newest, s)
    <3>1. SUFFICES ASSUME NEW f \in Files, NEW t \in StartTimes,
                          Newest = PlayingStatus(f, s, t)
                   PROVE  FALSE
      BY DEF SaysPlayed
    <3>2. Newest.song_is_playing /\ Newest.play_seq_id = s
      BY <3>1, RankOfPlaying
    <3>3. QED BY <1>1, <3>2 DEF PlayerInv, NewestIsTrue, Unfinished, Alive
  <2>5. \A c \in Clients : session[c] = "open" => given[c] = Newest
    BY <1>1, <2>3 DEF WS!OpenClientsAreUpToDate, Running
  <2>6. link = "up" /\ channel = <<>> => retained = Newest
    BY <1>1, <2>1, <2>2, <2>3 DEF Mqtt!LastMessageIsOnItsWay
  <2>7. QED BY <2>4, <2>5, <2>6
<1>2. QED BY <1>1, PlayerInvariant, PublishedIsKept, WebSocketsFacts, MqttFacts, PTL

=============================================================================
