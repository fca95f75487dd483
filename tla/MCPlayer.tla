------------------------------ MODULE MCPlayer ------------------------------
(***************************************************************************)
(* Instances of Player for TLC.                                            *)
(***************************************************************************)
EXTENDS Player

OneStartTime == {7}

=============================================================================
