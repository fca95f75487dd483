----------------------- MODULE CurrentSongController -----------------------
(***************************************************************************)
(* The controller of the current song, with the threads it runs in:        *)
(*                                                                         *)
(*   - the main thread, which serves the HTTP requests, the handlers       *)
(*     posted to the main io_service and the throttle timer, one at a time;*)
(*   - one playback thread for each play, started by                       *)
(*     AlsaPlaybackService::Play and joined by AlsaPlaybackService::Stop,  *)
(*     which runs the handlers of an io_service of its own and posts       *)
(*     status messages to the main one.                                    *)
(*                                                                         *)
(* What a handler of the playback thread does to the sound card is modelled*)
(* in AlsaPlaybackService; here a handler may go on, report a start time,  *)
(* or be the last one.  Services are named by the play_seq_id they were    *)
(* created with, 0 being the null pointer.                                 *)
(***************************************************************************)
EXTENDS StatusMsg, Sequences

CONSTANTS InitialFile,  \* the file named on the command line, or NoFile
          MaxBacklog    \* bound: messages waiting in the main io_service
                        \* when a playback thread reports one more start time

ASSUME InitialFileAssumption == InitialFile \in Files \cup {NoFile}
ASSUME MaxBacklogAssumption == MaxBacklog \in Nat

VARIABLES
    \* ---- main thread
    main,                \* where the main thread is inside a request
    op,                  \* the request it serves: "new", "stop" or "initial"
    op_file,             \* the file of a "new" or "initial" request
    was_playing,         \* result of the last AlsaPlaybackService::Stop
    \* ---- CurrentSongController
    play_seq_id_,
    alsa_service_,       \* the play whose service is held, 0 for nullptr
    last_status_msg_,
    throttle_timer_set_,
    \* ---- the AlsaPlaybackService of each play
    file_id_,
    thread,              \* where the playback thread of the service is
    ios_stopped,         \* ios_.stopped() of the service's own io_service
    start_time,          \* audio_start_time_ms_since_epoch_
    pcm_open,            \* the plays whose ALSA handle is open
    \* ---- between the threads, and beyond
    posted,              \* UpdateLastStatusMsg handlers in the main io_service
    published            \* the message last handed to MQTT and web sockets

requestVars == <<op, op_file, was_playing>>
mainVars    == <<main, requestVars>>
controlVars == <<play_seq_id_, alsa_service_>>
statusVars  == <<last_status_msg_, throttle_timer_set_, published>>
serviceVars == <<file_id_, thread, ios_stopped, start_time, pcm_open>>
vars        == <<mainVars, controlVars, statusVars, serviceVars, posted>>

\* What a playback thread never writes.
outsideVars == <<mainVars, controlVars, statusVars, file_id_, pcm_open>>

MainLocations == {"boot", "idle", "stopping", "joining", "released", "exit"}
ThreadLocations ==
    {"none", "run", "handler", "leaving", "posted", "exited"}

TypeOK ==
    /\ main \in MainLocations
    /\ op \in {"none", "new", "stop", "initial"}
    /\ op_file \in Files \cup {NoFile}
    /\ was_playing \in BOOLEAN
    /\ play_seq_id_ \in 0..MaxPlays
    /\ alsa_service_ \in 0..MaxPlays
    /\ last_status_msg_ \in Status
    /\ throttle_timer_set_ \in BOOLEAN
    /\ file_id_ \in [Plays -> Files \cup {NoFile}]
    /\ thread \in [Plays -> ThreadLocations]
    /\ ios_stopped \in [Plays -> BOOLEAN]
    /\ start_time \in [Plays -> StartTimes \cup {NoTime}]
    /\ pcm_open \subseteq Plays
    /\ posted \in Seq(Status)
    /\ published \in Status \cup {NoStatus}

\* The state InitializeComponents leaves when it succeeds: Initialize of the
\* controller has stored the first message and armed the timer, which fires once
\* the main io_service runs.
Init ==
    /\ main = "boot" /\ op = "none" /\ op_file = NoFile /\ was_playing = FALSE
    /\ play_seq_id_ = 0
    /\ alsa_service_ = 0
    /\ last_status_msg_ = InitialStatus
    /\ throttle_timer_set_ = TRUE
    /\ file_id_ = [s \in Plays |-> NoFile]
    /\ thread = [s \in Plays |-> "none"]
    /\ ios_stopped = [s \in Plays |-> FALSE]
    /\ start_time = [s \in Plays |-> NoTime]
    /\ pcm_open = {}
    /\ posted = <<>>
    /\ published = NoStatus

-----------------------------------------------------------------------------
(* The main thread: the requests.                                           *)

\* What the main thread does once a request of kind o is over: a request that
\* came over HTTP is answered, the failure of the initial file ends the process.
AfterRequest(o, success) ==
    IF o = "initial" /\ ~success THEN "exit" ELSE "idle"

\* InitializeComponents, or what comes before it, fails: a port is taken, a logger
\* cannot be created, the configuration is wrong.  The process ends.
InitializationFails ==
    /\ main = "boot"
    /\ main' = "exit"
    /\ UNCHANGED <<requestVars, controlVars, statusVars, serviceVars, posted>>

\* WavPlayerAlsa::Start: the initial file is asked for before the main
\* io_service runs; there is no service to stop yet.
Start ==
    /\ main = "boot"
    /\ IF InitialFile = NoFile
       THEN main' = "idle" /\ UNCHANGED <<op, op_file>>
       ELSE main' = "released" /\ op' = "initial" /\ op_file' = InitialFile
    /\ UNCHANGED <<was_playing, controlVars, statusVars, serviceVars, posted>>

\* Faulty variant: ios_.stopped() is read after ios_.stop().
WasPlayingReadLate(s) == FALSE

\* A service whose thread runs handlers is playing.
WasPlaying(s) == thread[s] # "none" /\ ~ios_stopped[s]

\* A request arrives: with a service at hand AlsaPlaybackService::Stop is
\* entered, and reads whether it was playing.
BeginRequest(o, f) ==
    /\ main = "idle"
    /\ o = "new" => play_seq_id_ < MaxPlays
    /\ op' = o
    /\ op_file' = f
    /\ IF alsa_service_ = 0
       THEN main' = "released" /\ was_playing' = FALSE
       ELSE main' = "stopping" /\ was_playing' = WasPlaying(alsa_service_)
    /\ UNCHANGED <<controlVars, statusVars, serviceVars, posted>>

\* Faulty variant: the io_service of the thread is not stopped.
TimerCancelledOnly(s) == ios_stopped

IosStop(s) == [ios_stopped EXCEPT ![s] = TRUE]

\* Stop, the two calls after that: the timer is cancelled and the io_service of
\* the thread stopped.  The handler of the cancelled timer returns at once, so
\* whether the thread runs it between the two calls makes no difference.
SignalStop ==
    /\ main = "stopping"
    /\ ios_stopped' = IosStop(alsa_service_)
    /\ main' = "joining"
    /\ UNCHANGED <<requestVars, controlVars, statusVars, file_id_, thread,
                   start_time, pcm_open, posted>>

\* Faulty variant: the thread is detached instead of joined.
JoinedWithoutWaiting(s) == thread[s] \in ThreadLocations

\* Faulty variant: the end of the song counts as the end of the thread.
JoinedOnceReported(s) == thread[s] \in {"none", "posted", "exited"}

\* Stop returns once the thread, if one was started, has ended; the service is
\* deleted, which closes its ALSA handle.
Joined(s) == thread[s] \in {"none", "exited"}

JoinAndDelete ==
    /\ main = "joining"
    /\ Joined(alsa_service_)
    /\ pcm_open' = pcm_open \ {alsa_service_}
    /\ alsa_service_' = 0
    /\ main' = "released"
    /\ UNCHANGED <<requestVars, play_seq_id_, statusVars,
                   file_id_, thread, ios_stopped, start_time, posted>>

\* The rest of StopPlayRequest only words the answer.
AnswerStop ==
    /\ main = "released" /\ op = "stop"
    /\ main' = AfterRequest(op, TRUE)
    /\ UNCHANGED <<requestVars, controlVars, statusVars, serviceVars, posted>>

\* Faulty variant: the id of the previous play is used again.
NextPlayReused == play_seq_id_ + (IF play_seq_id_ = 0 THEN 1 ELSE 0)

\* NewSongRequest takes the next play_seq_id before it tries to load the file,
\* so that a failed request uses one up too.
NextPlay == play_seq_id_ + 1

ServesNewSong ==
    /\ main = "released"
    /\ op \in {"new", "initial"}
    /\ NextPlay \in Plays

\* canonical, InitSndFile or snd_pcm_open throws: there is no service.
LoadFails ==
    /\ ServesNewSong
    /\ play_seq_id_' = NextPlay
    /\ main' = AfterRequest(op, FALSE)
    /\ UNCHANGED <<requestVars, alsa_service_, statusVars,
                   serviceVars, posted>>

\* InitAlsa throws once the ALSA handle is open.  The object is not complete,
\* its destructor never runs, and nobody closes the handle.
LoadFailsAfterOpen ==
    /\ ServesNewSong
    /\ play_seq_id_' = NextPlay
    /\ pcm_open' = pcm_open \cup {NextPlay}
    /\ main' = AfterRequest(op, FALSE)
    /\ UNCHANGED <<requestVars, alsa_service_, statusVars,
                   file_id_, thread, ios_stopped, start_time, posted>>

\* The service is created, and Play starts its thread or, when no thread can be
\* created, fails.  The service is kept in both cases.
LoadAndPlay(started) ==
    /\ ServesNewSong
    /\ play_seq_id_' = NextPlay
    /\ alsa_service_' = NextPlay
    /\ pcm_open' = pcm_open \cup {NextPlay}
    /\ file_id_' = [file_id_ EXCEPT ![NextPlay] = op_file]
    /\ thread' = [thread EXCEPT ![NextPlay] = IF started THEN "run" ELSE "none"]
    /\ main' = AfterRequest(op, started)
    /\ UNCHANGED <<requestVars, statusVars, ios_stopped,
                   start_time, posted>>

-----------------------------------------------------------------------------
(* The playback thread of play s.                                           *)

Goto(s, location) == thread' = [thread EXCEPT ![s] = location]

\* ios_.run() takes the next handler, or finds the io_service stopped.
EnterHandler(s) ==
    /\ thread[s] = "run" /\ ~ios_stopped[s]
    /\ Goto(s, "handler")
    /\ UNCHANGED <<outsideVars, ios_stopped, start_time, posted>>

RunReturns(s) ==
    /\ thread[s] = "run" /\ ios_stopped[s]
    /\ Goto(s, "leaving")
    /\ UNCHANGED <<outsideVars, ios_stopped, start_time, posted>>

\* FramesToPcmTransferLoop or PcmDrainLoop has arranged for the next handler.
HandlerContinues(s) ==
    /\ thread[s] = "handler"
    /\ Goto(s, "run")
    /\ UNCHANGED <<outsideVars, ios_stopped, start_time, posted>>

\* Faulty variant: every start time is reported.
AnyStartTime(s, t) == t # NoTime

\* CheckSongStartTime ignores a start time within a millisecond of the last one.
NewStartTime(s, t) == t - start_time[s] > 1 \/ start_time[s] - t > 1

\* As above, and CheckSongStartTime has found a new start time: NewSongStatus
\* posts it, and it is remembered.
HandlerReports(s, t) ==
    /\ thread[s] = "handler"
    /\ Len(posted) < MaxBacklog
    /\ NewStartTime(s, t)
    /\ posted' = Append(posted, PlayingStatus(file_id_[s], s, t))
    /\ start_time' = [start_time EXCEPT ![s] = t]
    /\ Goto(s, "run")
    /\ UNCHANGED <<outsideVars, ios_stopped>>

\* The last handler: the drain is over, ALSA reports an error that the handler
\* throws, or the timer was cancelled.  No work is left, so run() stops the
\* io_service before it returns or lets the exception through.
HandlerEnds(s) ==
    /\ thread[s] = "handler"
    /\ ios_stopped' = [ios_stopped EXCEPT ![s] = TRUE]
    /\ Goto(s, "leaving")
    /\ UNCHANGED <<outsideVars, start_time, posted>>

\* Faulty variant: the end of the play is not posted.
NothingPosted(s) == UNCHANGED posted

PostEnd(s) == posted' = Append(posted, StoppedStatus(file_id_[s], s))

\* PlayingThreadMain after run(), whichever way it was left: the device is told
\* to drop its frames, and NoSongPlayingStatus posts the end of the play.
PostNoSong(s) ==
    /\ thread[s] = "leaving"
    /\ PostEnd(s)
    /\ Goto(s, "posted")
    /\ UNCHANGED <<outsideVars, ios_stopped, start_time>>

\* The last lines of PlayingThreadMain.
ThreadExits(s) ==
    /\ thread[s] = "posted"
    /\ ios_stopped' = [ios_stopped EXCEPT ![s] = TRUE]
    /\ Goto(s, "exited")
    /\ UNCHANGED <<outsideVars, start_time, posted>>

-----------------------------------------------------------------------------
(* The main thread: its handlers, between two requests.                     *)

\* Faulty variant: what comes while the timer runs is dropped.
RepeatedOrThrottled(message) == message = last_status_msg_ \/ throttle_timer_set_

Repeated(message) == message = last_status_msg_

\* Faulty variant: the timer is not set.
TimerForgotten == UNCHANGED throttle_timer_set_

SetThrottleTimer == throttle_timer_set_' = TRUE

\* The handler that NewSongStatus and NoSongPlayingStatus post: the message is
\* kept, and the throttle timer set unless it runs already.
UpdateLastStatusMsg ==
    /\ main = "idle"
    /\ posted # <<>>
    /\ posted' = Tail(posted)
    /\ IF Repeated(Head(posted))
       THEN UNCHANGED <<last_status_msg_, throttle_timer_set_>>
       ELSE last_status_msg_' = Head(posted) /\ SetThrottleTimer
    /\ UNCHANGED <<mainVars, controlVars, serviceVars, published>>

\* The throttle timer expires: MQTT and the web sockets are given the message.
\* The timer is never cancelled, so the error branch is never taken.
ReportCurrentSongToServices ==
    /\ main = "idle"
    /\ throttle_timer_set_
    /\ throttle_timer_set_' = FALSE
    /\ published' = last_status_msg_
    /\ UNCHANGED <<mainVars, controlVars, serviceVars, last_status_msg_, posted>>

-----------------------------------------------------------------------------

\* exit(EXIT_FAILURE) was called: nothing happens any more.
Terminated == main = "exit" /\ UNCHANGED vars

ContinueRequest ==
    \/ SignalStop
    \/ JoinAndDelete
    \/ AnswerStop
    \/ LoadFails
    \/ LoadFailsAfterOpen
    \/ \E started \in BOOLEAN : LoadAndPlay(started)

HandlerStep(s) ==
    \/ HandlerContinues(s)
    \/ \E t \in StartTimes : HandlerReports(s, t)
    \/ HandlerEnds(s)

ThreadStep(s) ==
    \/ EnterHandler(s)
    \/ RunReturns(s)
    \/ HandlerStep(s)
    \/ PostNoSong(s)
    \/ ThreadExits(s)

\* All that MQTT and the web sockets do not notice.
SilentStep ==
    \/ InitializationFails
    \/ Start
    \/ \E f \in Files : BeginRequest("new", f)
    \/ BeginRequest("stop", NoFile)
    \/ ContinueRequest
    \/ \E s \in Plays : ThreadStep(s)
    \/ UpdateLastStatusMsg

Next ==
    \/ SilentStep
    \/ ReportCurrentSongToServices
    \/ Terminated

Spec == Init /\ [][Next]_vars

\* The operating system runs every thread.  The handlers of the main io_service
\* wait in one FIFO, together with those of the requests: however many requests
\* keep coming, a posted handler and an expired timer get their turn.
Fairness ==
    /\ WF_vars(Start)
    /\ WF_vars(ContinueRequest)
    /\ \A s \in Plays : WF_vars(ThreadStep(s))
    /\ SF_vars(UpdateLastStatusMsg)
    /\ SF_vars(ReportCurrentSongToServices)

FairSpec == Spec /\ Fairness

-----------------------------------------------------------------------------
(* Properties.                                                              *)

Alive(s) == thread[s] \notin {"none", "exited"}

\* A playback thread uses the members of its service and its ALSA handle until
\* it ends: while it is alive, the controller holds that service and its handle
\* is open.  So at most one thread plays, and none outlives its service.
ThreadHasItsService ==
    \A s \in Plays : Alive(s) => alsa_service_ = s /\ s \in pcm_open

\* What was not handed to the services yet will be: the timer is set.
UnpublishedStatusHasTimer ==
    last_status_msg_ # published => throttle_timer_set_

\* Messages that follow each other are different: the comparison that opens
\* UpdateLastStatusMsg never finds two equal ones.
EveryStatusIsNews ==
    /\ posted # <<>> => posted[1] # last_status_msg_
    /\ \A i \in 1..(Len(posted) - 1) : posted[i] # posted[i + 1]

\* A request that found nothing playing ("stop had no effect") did not cut a
\* song short: the thread had ended its last handler by itself, or never began.
NoEffectMeansEnded ==
    (main \in {"stopping", "joining"} /\ ~was_playing)
        => thread[alsa_service_] \notin {"run", "handler"}

\* The messages kept, waiting and still to come are in the order of the history
\* of the player.
StatusesInOrder ==
    /\ Rank(published) <= Rank(last_status_msg_)
    /\ \A i \in 1..Len(posted) : Rank(last_status_msg_) <= Rank(posted[i])
    /\ \A i, j \in 1..Len(posted) : i <= j => Rank(posted[i]) <= Rank(posted[j])

\* Neither the message kept nor the one handed to the services ever goes back in
\* the history of the player: not to an earlier play, and not from the end of a
\* play to its middle.
StatusNeverGoesBack ==
    [][/\ Rank(last_status_msg_) <= Rank(last_status_msg_')
       /\ Rank(published) <= Rank(published')]_<<last_status_msg_, published>>

-----------------------------------------------------------------------------
(* The inductive invariant behind the safety properties.                    *)

\* What the main thread knows between two steps of a request.
RequestInv ==
    /\ op \in {"new", "initial"} => op_file \in Files
    /\ alsa_service_ <= play_seq_id_
    /\ main \in {"boot", "released"} => alsa_service_ = 0
    /\ main \in {"stopping", "joining"} => alsa_service_ # 0
    /\ alsa_service_ # 0 => alsa_service_ \in pcm_open

\* What holds of the services that are to come, and of the threads that play.
ServiceInv ==
    \A s \in Plays :
        /\ s > play_seq_id_ => thread[s] = "none" /\ ~ios_stopped[s]
        /\ Alive(s) => file_id_[s] \in Files
        /\ (ios_stopped[s] /\ thread[s] \in {"run", "handler"})
               => main = "joining" /\ alsa_service_ = s

\* The last status the player entered, wherever it is.
Newest == IF posted = <<>> THEN last_status_msg_ ELSE posted[Len(posted)]

\* What the next message to be posted relies on: nothing posted so far is later
\* than what a live thread may post, and the newest message, if it reports a
\* start time, reports the one its service remembers.
NewestInv ==
    /\ Rank(Newest) <= 2 * play_seq_id_ + 1
    /\ \A s \in Plays :
          thread[s] \in {"run", "handler", "leaving"} => Rank(Newest) <= 2 * s
    /\ Newest.song_is_playing
          => start_time[Newest.play_seq_id] = Newest.start_time

IInv ==
    /\ TypeOK
    /\ ThreadHasItsService
    /\ UnpublishedStatusHasTimer
    /\ EveryStatusIsNews
    /\ NoEffectMeansEnded
    /\ StatusesInOrder
    /\ RequestInv
    /\ ServiceInv
    /\ NewestInv

-----------------------------------------------------------------------------
(* Liveness, and the promise made to the listeners.                         *)

\* Stop joins the playback thread on the only thread that serves requests: the
\* main thread always comes back from a request.
RequestsAreAnswered == (main # "idle") ~> (main \in {"idle", "exit"})

\* The end of every play, however it came about, is eventually known to the
\* services, or a later play is.
EndIsPublished ==
    \A s \in Plays :
        (thread[s] = "exited") ~> (Rank(published) > 2 * s)

\* The message that waits for the timer, if there is one, and the queue of the main
\* io_service are a status feed.
Pending == (IF throttle_timer_set_ THEN <<last_status_msg_>> ELSE <<>>) \o posted

Feed == INSTANCE StatusFeed WITH pending <- Pending

\* What the listeners are given is what the feed promises: statuses of the player
\* in the order it went through them, where only superseded ones are missing.
FeedInOrder == Feed!FeedSafety

\* And unless the initial file ends the process, the feed never dries up: the
\* newest status is published as soon as the player rests.
FeedKeepsUp == <>(main = "exit") \/ Feed!FeedFairness

\* The plays whose threads run handlers, and so move frames to ALSA.
Playing == {s \in Plays : thread[s] \in {"run", "handler"}}

\* What those know of the controller who ask it for songs.
Control == INSTANCE SongControl WITH
    Songs <- Files,
    NoSong <- NoFile,
    song <- (IF Playing = {} THEN NoFile ELSE file_id_[CHOOSE s \in Playing : TRUE]),
    play_seq_id <- play_seq_id_

\* A song begins only when the thread of the one before it runs no handler any more,
\* and every attempt takes a number of its own, however the threads and the requests
\* interleave.  The HTTP interface is modelled on top of this promise.
SongsAsControlled == Control!ControlSpec

\* The playback thread of a play, as its service promises it.
Thread(s) == INSTANCE PlaybackThread WITH
    phase <- CASE thread[s] \in {"none", "exited"} -> thread[s]
               [] thread[s] = "posted" -> "over"
               [] OTHER -> "playing",
    stopped <- ios_stopped[s],
    start_time <- start_time[s]

\* The controller counts on nothing else than what AlsaPlaybackService, with its
\* handlers, its file and the sound card, is shown to implement.
ThreadsAsPromised ==
    [][\A s \in Plays :
          Thread(s)!ThreadNext \/ UNCHANGED Thread(s)!threadVars]_serviceVars

=============================================================================
