------------------------ MODULE AlsaPlaybackService ------------------------
(***************************************************************************)
(* One AlsaPlaybackService from Play to the end of its thread: the handlers*)
(* that move frames from the file to ALSA, wait for ALSA to play the last  *)
(* of them and compute when the song has started, with a call of Stop that *)
(* may come at any moment.                                                 *)
(*                                                                         *)
(* ALSA (external) is a ring buffer that starts to play at the first write *)
(* (start threshold 0), plays a frame at each tick of the clock, and is in *)
(* the state XRUN once it has played them all.  The clock of the model     *)
(* counts in frames; the program asks it for milliseconds.  Frames are     *)
(* numbered from the start of the file; negative positions are the silence *)
(* before it.                                                              *)
(***************************************************************************)
EXTENDS Integers, Sequences

CONSTANTS
    Total,        \* total_frame_in_file_
    FrameRate,    \* frame_rate_, in frames per second
    Offsets,      \* milliseconds: the positions Play may be asked to start from
    Capacity,     \* frames_capacity_in_buffer_
    BufferSize,   \* frames in the ring buffer of ALSA
    MinDelay,     \* 4096: with less delay no start time is computed
    Now,          \* the time when the service is created
    MaxClock      \* bound: the clock of a device that does not play stops here

ASSUME TotalAssumption == Total \in Nat
ASSUME FrameRateAssumption == FrameRate \in Nat \ {0}
ASSUME OffsetsAssumption == Offsets \subseteq Int
ASSUME CapacityAssumption == Capacity \in Nat \ {0}
ASSUME BufferSizeAssumption == BufferSize \in Nat \ {0}
ASSUME MinDelayAssumption == MinDelay \in Nat \ {0}
ASSUME ClockAssumption == Now \in Nat /\ MaxClock \in Nat

VARIABLES
    pc,           \* where the playback thread is
    next,         \* the handler its io_service holds: "transfer", "drain", "none"
    ios_stopped,  \* ios_.stopped()
    curr_position_frames_,
    cursor,       \* where snd_file_ reads next
    chunk,        \* local: the frames given to snd_pcm_writei
    delay,        \* local: the answer of snd_pcm_delay
    audio_start_time_ms_since_epoch_,
    delivered,    \* the frames ALSA has accepted
    heard,        \* how many of them it has played
    device,       \* the state of the pcm
    now,          \* the time, in frames
    true_start    \* when frame 0 is, or would have been, heard

fileVars   == <<curr_position_frames_, cursor, chunk>>
reportVars == <<delay, audio_start_time_ms_since_epoch_>>
alsaVars   == <<delivered, heard, device, now, true_start>>
dataVars   == <<fileVars, reportVars, alsaVars>>
vars       == <<pc, next, ios_stopped, dataVars>>

Silence  == -1   \* a frame of zeros
Leftover == -2   \* whatever the transfer buffer held before
Frames   == {Silence, Leftover} \cup 0..(Total - 1)

MinOf(a, b) == IF a <= b THEN a ELSE b

TypeOK ==
    /\ pc \in {"none", "run", "write", "delay", "clock", "drop", "leaving",
               "posted", "exited"}
    /\ next \in {"transfer", "drain", "none"}
    /\ ios_stopped \in BOOLEAN
    /\ curr_position_frames_ \in Int
    /\ cursor \in 0..Total
    /\ chunk \in Seq(Frames)
    /\ delay \in 0..BufferSize
    /\ audio_start_time_ms_since_epoch_ \in Int
    /\ delivered \in Seq(Frames)
    /\ heard \in 0..Len(delivered)
    /\ device \in {"prepared", "running", "xrun", "failed", "setup"}
    /\ now \in Nat
    /\ true_start \in Int

\* Division as C++ has it, which cuts toward zero.
Cut(a, b) == IF a >= 0 THEN a \div b ELSE -((-a) \div b)

\* The frames of an offset in milliseconds, by way of a double, which may fall just
\* short of a whole number of frames (9 ms at 48 kHz are cut to 431 frames).
FramesOf(offset_in_ms) ==
    LET scaled == offset_in_ms * FrameRate
        exact  == Cut(scaled, 1000)
    IN  {exact} \cup IF scaled % 1000 # 0 \/ scaled = 0 THEN {}
                     ELSE {IF scaled > 0 THEN exact - 1 ELSE exact + 1}

\* A position, or the clock, in milliseconds.
MillisecondsOf(frames) == Cut(frames * 1000, FrameRate)

\* A service as its constructor leaves it.
Init ==
    /\ pc = "none" /\ next = "none" /\ ios_stopped = FALSE
    /\ curr_position_frames_ = 0 /\ cursor = 0 /\ chunk = <<>>
    /\ delay = 0 /\ audio_start_time_ms_since_epoch_ = 0
    /\ delivered = <<>> /\ heard = 0 /\ device = "prepared"
    /\ now = Now /\ true_start = 0

-----------------------------------------------------------------------------
(* The thread of the controller.                                            *)

\* Play: a start after the end is a start at the end, a start in the future
\* leaves the file at its first frame.  The thread posts its first handler.
Play(offset_in_ms) ==
    /\ pc = "none" /\ ~ios_stopped
    /\ \E position \in FramesOf(offset_in_ms) :
          curr_position_frames_' = MinOf(position, Total)
    /\ cursor' = IF curr_position_frames_' >= 0 THEN curr_position_frames_' ELSE 0
    /\ pc' = "run" /\ next' = "transfer"
    /\ UNCHANGED <<ios_stopped, chunk, reportVars, alsaVars>>

\* Stop, up to the join.
Stop ==
    /\ ~ios_stopped
    /\ ios_stopped' = TRUE
    /\ UNCHANGED <<pc, next, dataVars>>

-----------------------------------------------------------------------------
(* ALSA.                                                                    *)

Buffered == Len(delivered) - heard

\* The time of a frame passes.
Tick ==
    /\ device = "running" \/ now < MaxClock
    /\ now' = now + 1
    /\ IF device = "running"
       THEN /\ heard' = heard + 1
            /\ device' = IF heard' = Len(delivered) THEN "xrun" ELSE "running"
       ELSE UNCHANGED <<heard, device>>
    /\ UNCHANGED <<pc, next, ios_stopped, fileVars, reportVars, delivered, true_start>>

Healthy == device \in {"prepared", "running"}

\* The device is unplugged or suspended.
DeviceFails ==
    /\ Healthy
    /\ device' = "failed"
    /\ UNCHANGED <<pc, next, ios_stopped, fileVars, reportVars, delivered, heard,
                   now, true_start>>

-----------------------------------------------------------------------------
(* The playback thread.                                                     *)

InHandler(handler) == pc = "run" /\ next = handler /\ ~ios_stopped

\* snd_pcm_avail_update, snd_pcm_writei or snd_pcm_delay reports an error and the
\* handler throws: its io_service is left without work, and PlayingThreadMain
\* catches the exception behind the call of PcmDrop.
AlsaFails ==
    /\ InHandler("transfer") \/ pc \in {"write", "delay"}
    /\ ~Healthy
    /\ pc' = "leaving" /\ next' = "none" /\ ios_stopped' = TRUE
    /\ UNCHANGED dataVars

\* Without room in the ring buffer the handler comes back after 5 ms.
TransferLoop == InHandler("transfer") /\ Healthy /\ Buffered < BufferSize

\* Faulty variant: the room in the ring buffer is not asked for.
FramesToDeliverIgnoringRoom == Capacity

FramesToDeliver == MinOf(BufferSize - Buffered, Capacity)

\* Faulty variant: the silence runs on into the song.
SilenceTooLong == FramesToDeliver

SilenceToDeliver == MinOf(FramesToDeliver, -curr_position_frames_)

\* Faulty variant: a short read is taken for the end of the file.
LessRead == cursor + FramesToDeliver > Total

NothingRead == cursor = Total

\* FramesToPcmTransferLoop, the transfer buffer is filled: before the start of
\* the file with silence, then from the file.  readRaw moves the cursor by what it
\* has read, which may be less than was asked for.
PrepareChunk ==
    /\ TransferLoop
    /\ \/ /\ curr_position_frames_ >= 0
          /\ ~NothingRead
          /\ cursor' = MinOf(cursor + FramesToDeliver, Total)
          /\ chunk' = [i \in 1..FramesToDeliver |->
                         IF cursor + i <= Total THEN cursor + i - 1 ELSE Leftover]
       \/ /\ curr_position_frames_ < 0
          /\ chunk' = [i \in 1..SilenceToDeliver |-> Silence]
          /\ UNCHANGED cursor
    /\ pc' = "write"
    /\ UNCHANGED <<next, ios_stopped, curr_position_frames_, reportVars, alsaVars>>

\* ... nothing is left to read: the drain begins.
EndOfFile ==
    /\ TransferLoop
    /\ curr_position_frames_ >= 0 /\ NothingRead
    /\ next' = "drain"
    /\ UNCHANGED <<pc, ios_stopped, dataVars>>

\* snd_file_.seek: the file stays where it is when asked to go past its end.
SeekTo(p) == cursor' = IF p <= Total THEN p ELSE cursor

\* Faulty variant: the file is moved back after the silence only.
SeekAfterSilence(written) == curr_position_frames_ < 0

\* The file is moved to the current position when the silence ends, and when
\* fewer frames were written than read.
SeekNeeded(written) == curr_position_frames_ < 0 \/ written # Len(chunk)

\* ... snd_pcm_writei accepts some of the frames, which starts the device.
WriteI(written) ==
    /\ pc = "write" /\ Healthy
    /\ delivered' = delivered \o SubSeq(chunk, 1, written)
    /\ device' = "running"
    /\ true_start' = IF device = "prepared"
                     THEN now - curr_position_frames_ ELSE true_start
    /\ curr_position_frames_' = curr_position_frames_ + written
    /\ IF curr_position_frames_' >= 0 /\ SeekNeeded(written)
       THEN SeekTo(curr_position_frames_')
       ELSE UNCHANGED cursor
    /\ chunk' = <<>>
    /\ pc' = "delay"
    /\ UNCHANGED <<next, ios_stopped, reportVars, heard, now>>

\* CheckSongStartTime: with a small delay nothing is computed, otherwise the clock
\* is read next.
QueryDelay ==
    /\ pc = "delay" /\ Healthy
    /\ IF Buffered < MinDelay
       THEN pc' = "run" /\ UNCHANGED delay
       ELSE pc' = "clock" /\ delay' = Buffered
    /\ UNCHANGED <<next, ios_stopped, fileVars, audio_start_time_ms_since_epoch_,
                   alsaVars>>

\* Faulty variant: the frames that wait in the buffer are taken for heard.
StartTimeIgnoringDelay == MillisecondsOf(now) - MillisecondsOf(curr_position_frames_)

\* The time when frame 0 was heard, if the frame heard now is the one that the
\* delay says.
StartTime == MillisecondsOf(now) - MillisecondsOf(curr_position_frames_ - delay)

\* Faulty variant: a start time is reported whenever it differs.
NoDifference(diff) == diff = 0

\* ... "there might be small jittering, we don't want to update the value often".
SmallJittering(diff) == diff \in -1..1

\* ... a start time within a millisecond of the last one is not reported.
ReadClock ==
    /\ pc = "clock"
    /\ audio_start_time_ms_since_epoch_' =
          IF SmallJittering(StartTime - audio_start_time_ms_since_epoch_)
          THEN audio_start_time_ms_since_epoch_
          ELSE StartTime
    /\ delay' = 0
    /\ pc' = "run"
    /\ UNCHANGED <<next, ios_stopped, fileVars, alsaVars>>

\* Faulty variant: a device that has not started counts as playing, as it did in
\* an earlier version of the code.
IsPlayingWhenPrepared == device \in {"running", "prepared"}

IsAlsaStatePlaying == device = "running"

\* PcmDrainLoop: while ALSA plays, the start time is checked and the handler
\* comes back after 5 ms; then no handler is left, and run() returns.
PcmDrainLoop ==
    /\ InHandler("drain")
    /\ IF IsAlsaStatePlaying
       THEN pc' = "delay" /\ UNCHANGED <<next, ios_stopped>>
       ELSE pc' = "drop" /\ next' = "none" /\ ios_stopped' = TRUE
    /\ UNCHANGED dataVars

\* run() returns since the io_service was stopped.
RunReturns ==
    /\ pc = "run" /\ ios_stopped
    /\ pc' = "drop" /\ next' = "none"
    /\ UNCHANGED <<ios_stopped, dataVars>>

\* Faulty variant: the device is left to play what it holds.
NotDropped == device

Dropped == IF device = "failed" THEN "failed" ELSE "setup"

\* snd_pcm_drop; its failure is logged.
PcmDrop ==
    /\ pc = "drop"
    /\ device' = Dropped
    /\ pc' = "leaving"
    /\ UNCHANGED <<next, ios_stopped, fileVars, reportVars, delivered, heard, now,
                   true_start>>

\* Faulty variant: the call waits for the thread of the controller, which waits
\* in Stop for this thread.
NoSongPlayingWaits ==
    pc = "leaving" /\ ~ios_stopped /\ pc' = "posted"
                   /\ UNCHANGED <<next, ios_stopped, dataVars>>

\* PlayerEventsIfc::NoSongPlayingStatus, which posts the message and returns.
NoSongPlaying ==
    pc = "leaving" /\ pc' = "posted" /\ UNCHANGED <<next, ios_stopped, dataVars>>

ThreadExits ==
    /\ pc = "posted"
    /\ pc' = "exited" /\ ios_stopped' = TRUE
    /\ UNCHANGED <<next, dataVars>>

ThreadStep ==
    \/ PrepareChunk
    \/ EndOfFile
    \/ \E written \in 1..Len(chunk) : WriteI(written)
    \/ QueryDelay
    \/ ReadClock
    \/ PcmDrainLoop
    \/ AlsaFails
    \/ RunReturns
    \/ PcmDrop
    \/ NoSongPlaying
    \/ ThreadExits

Next ==
    \/ \E offset_in_ms \in Offsets : Play(offset_in_ms)
    \/ Stop
    \/ Tick
    \/ DeviceFails
    \/ ThreadStep

Spec == Init /\ [][Next]_vars

\* The operating system runs the thread, and a device that plays goes on playing.
FairSpec == Spec /\ WF_vars(ThreadStep) /\ WF_vars(Tick)

-----------------------------------------------------------------------------
(* Properties.                                                              *)

FirstPosition == curr_position_frames_ - Len(delivered)

FrameAt(position) == IF position < 0 THEN Silence ELSE position

\* Whatever is read short, written in part, or changed from silence to song:
\* ALSA is given the silence asked for and then every frame of the file, each
\* once and in its place.
FramesInOrder ==
    \A i \in 1..Len(delivered) :
        LET position == FirstPosition + i - 1
        IN  position < Total => delivered[i] = FrameAt(position)

\* Between two handlers the file is where the next frame to deliver is.
FileFollowsPosition ==
    pc \in {"run", "delay", "clock"} =>
        cursor = IF curr_position_frames_ < 0 THEN 0
                 ELSE MinOf(curr_position_frames_, Total)

\* What ALSA is given to play are the frames of the file, after the silence of a
\* start in the future: "read raw frames from the file, and give it to ALSA".
OnlyFramesOfFile == \A i \in 1..Len(delivered) : delivered[i] # Leftover

\* A song that ended by itself, and not because the device failed or Stop was
\* called, was heard to its last frame.
HeardToTheEnd ==
    (next = "drain" /\ device \in {"prepared", "xrun"})
        => FirstPosition + heard >= Total

\* When the listeners are told that no song plays, none does.
NoSongMeansSilence == pc \in {"posted", "exited"} => device # "running"

\* A start time that is reported may be late, by the time that passed between
\* the query of the delay and the reading of the clock, but it is early by no more
\* than the roundings of the clock and of the position, which together stay below
\* two milliseconds.
StartTimeNeverEarly ==
    audio_start_time_ms_since_epoch_ # 0
        => (audio_start_time_ms_since_epoch_ + 2) * FrameRate > true_start * 1000

\* Every song that is started ends, and its thread with it, also when there was
\* nothing to play.
EverySongEnds == (pc = "run") ~> (pc = "exited")

\* A song that was heard to its end was announced: the listeners are notified
\* "when a new audio file is played".
SongIsAnnounced ==
    (pc = "exited" /\ heard > 0 /\ FirstPosition + heard >= Total)
        => audio_start_time_ms_since_epoch_ # 0

Thread == INSTANCE PlaybackThread WITH
    phase <- CASE pc \in {"none", "exited"} -> pc
               [] pc = "posted" -> "over"
               [] OTHER -> "playing",
    stopped <- ios_stopped,
    start_time <- audio_start_time_ms_since_epoch_

\* The service and its thread behave as the controller assumes.
ThreadAsPromised == Thread!ThreadSafety

ThreadEndsAsPromised == Thread!ThreadEnds

=============================================================================
