---------------------- MODULE MCCurrentSongController ----------------------
(***************************************************************************)
(* Instances of CurrentSongController for TLC.  Start times are more than  *)
(* a millisecond apart or adjacent, so that the jitter test matters.       *)
(***************************************************************************)
EXTENDS CurrentSongController

\* 11 is within the jitter of 10, 20 is not.
JitteryStartTimes == {10, 11, 20}

=============================================================================
