----------------------------- MODULE MCAlsaSetup -----------------------------
(***************************************************************************)
(* Instances of AlsaSetup for TLC: what libsndfile may say of a file.      *)
(***************************************************************************)
EXTENDS AlsaSetup

\* Of the types that are not supported one or two stand for all.
SomeMajorTypes == {"WAV", "AIFF", "W64"}
SomeMinorTypes == DOMAIN SampleOf \cup {"PCM_U8", "ULAW"}
=============================================================================
