----------------------------- MODULE StatusMsg -----------------------------
(***************************************************************************)
(* The status message of the player: the JSON object that the controller   *)
(* builds in NewSongStatus, NoSongPlayingStatus and Initialize, completes  *)
(* in UpdateLastStatusMsg with the play_seq_id, and hands to MQTT and to   *)
(* the web sockets.  The uuid and the speed (always 1.0) never vary during *)
(* a run and are left out.                                                 *)
(***************************************************************************)
EXTENDS Integers

CONSTANTS Files,       \* the file ids a request may name
          NoFile,      \* the absent "stopped_file_id" of the first message
          StartTimes,  \* the values of "start_time_millis_since_epoch"
          MaxPlays     \* bound: the play_seq_ids given out in one run

ASSUME MaxPlaysAssumption == MaxPlays \in Nat
ASSUME StartTimesAssumption == StartTimes \subseteq Nat \ {0}
ASSUME NoFileAssumption == NoFile \notin Files

Plays == 1..MaxPlays

\* Before the first start time is computed audio_start_time_ms_since_epoch_ is 0.
NoTime == 0

Message(playing, file, start, seq) ==
    [song_is_playing |-> playing, file_id |-> file, start_time |-> start,
     play_seq_id |-> seq]

PlayingStatus(file, seq, start) == Message(TRUE, file, start, seq)
StoppedStatus(file, seq)        == Message(FALSE, file, NoTime, seq)

\* The message stored by Initialize, before any song was asked for.
InitialStatus == StoppedStatus(NoFile, 0)

\* The empty string: nothing was ever handed to the services.
NoStatus == StoppedStatus(NoFile, -1)

Status ==
    {PlayingStatus(f, s, t) : f \in Files, s \in Plays, t \in StartTimes}
        \cup {StoppedStatus(f, s) : f \in Files, s \in Plays}
        \cup {InitialStatus}

\* The place of a message in the history of the player: every play comes after
\* the plays with smaller ids, and its end comes after its start.
Rank(st) == 2 * st.play_seq_id + (IF st.song_is_playing THEN 0 ELSE 1)

=============================================================================
