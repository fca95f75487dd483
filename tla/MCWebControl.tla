---------------------------- MODULE MCWebControl ----------------------------
(***************************************************************************)
(* Instances of WebControl for TLC: a file in a directory of its own, and  *)
(* a wav directory that is named with and without a slash at its end.      *)
(***************************************************************************)
EXTENDS WebControl

SomeNames == {"wav", "d", "a"}
OneFile == {<<"d", "/", "a">>}
OneDirTwoWays == {<<"wav">>, <<"wav", "/">>}

TwoIds == UNION {QueryFiles(wav_dir) : wav_dir \in OneDirTwoWays}
Nothing == {<<>>}

\* A field of a wrong type, and the name of a file.
SomeBodies == {Body(NotText), Body(<<"d", "/", "a">>)}

=============================================================================
