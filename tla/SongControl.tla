---------------------------- MODULE SongControl ----------------------------
(***************************************************************************)
(* CurrentSongActionsIfc as those see it who ask for songs: what is played *)
(* and the number of the last play.  A new song is taken up only when the  *)
(* one before it is silent, and every attempt, also one that fails, takes  *)
(* the next number.                                                        *)
(***************************************************************************)
EXTENDS Naturals

CONSTANTS Songs,    \* the file ids that may be asked for
          NoSong    \* nothing is played

VARIABLES song,         \* the file id that is played, or NoSong
          play_seq_id   \* the number of the last play of this run

controlVars == <<song, play_seq_id>>

ControlInit == song = NoSong /\ play_seq_id = 0

\* The song comes to its end, is stopped, or its device fails.
SongEnds ==
    /\ song # NoSong
    /\ song' = NoSong
    /\ UNCHANGED play_seq_id

\* Faulty variant: only a play that succeeds takes a number.
NumberOfSuccess(success) ==
    play_seq_id' = IF success THEN play_seq_id + 1 ELSE play_seq_id

TakeNumber(success) == play_seq_id' = play_seq_id + 1

NewPlay(file_id, success) ==
    /\ song = NoSong
    /\ TakeNumber(success)
    /\ song' = IF success THEN file_id ELSE NoSong

ControlNext ==
    \/ SongEnds
    \/ \E file_id \in Songs, success \in BOOLEAN : NewPlay(file_id, success)

ControlSpec == ControlInit /\ [][ControlNext]_controlVars

=============================================================================
