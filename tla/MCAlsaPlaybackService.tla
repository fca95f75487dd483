----------------------- MODULE MCAlsaPlaybackService -----------------------
(***************************************************************************)
(* Instances of AlsaPlaybackService for TLC.                               *)
(***************************************************************************)
EXTENDS AlsaPlaybackService

\* At 1500 frames a second: before the file (four frames and a half), its start, its
\* middle (three frames, or two), and beyond its end, which Play moves to its end.
SomeOffsets == {-3, 0, 2, 9}

=============================================================================
