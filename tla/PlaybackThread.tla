--------------------------- MODULE PlaybackThread ---------------------------
(***************************************************************************)
(* What the controller may rely on from one AlsaPlaybackService and its    *)
(* playback thread, whatever the sound card does: it reports start times   *)
(* that differ by more than the jitter, then, once, that no song is        *)
(* playing, and nothing afterwards; and it ends when it is told to.        *)
(***************************************************************************)
EXTENDS Integers

VARIABLES phase,       \* "none", "playing", "over" (the end was reported), "exited"
          stopped,     \* the io_service of the thread is stopped
          start_time   \* the start time last reported, 0 before the first

threadVars == <<phase, stopped, start_time>>

ThreadInit == phase = "none" /\ stopped = FALSE /\ start_time = 0

Begin ==
    /\ phase = "none" /\ ~stopped
    /\ phase' = "playing"
    /\ UNCHANGED <<stopped, start_time>>

ReportStart ==
    /\ phase = "playing"
    /\ start_time' - start_time > 1 \/ start_time - start_time' > 1
    /\ UNCHANGED <<phase, stopped>>

\* Told from outside, or because no handler is left.
BeStopped == stopped' = TRUE /\ UNCHANGED <<phase, start_time>>

ReportEnd ==
    /\ phase = "playing" /\ stopped
    /\ phase' = "over"
    /\ UNCHANGED <<stopped, start_time>>

Exit ==
    /\ phase = "over"
    /\ phase' = "exited"
    /\ UNCHANGED <<stopped, start_time>>

ThreadNext ==
    \/ Begin
    \/ ReportStart
    \/ BeStopped
    \/ ReportEnd
    \/ Exit

ThreadSafety == ThreadInit /\ [][ThreadNext]_threadVars

\* A thread that was told to end does, and then its service can be deleted.
ThreadEnds == (phase # "none" /\ stopped) ~> (phase = "exited")

=============================================================================
