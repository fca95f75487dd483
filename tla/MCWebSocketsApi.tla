--------------------------- MODULE MCWebSocketsApi ---------------------------
(***************************************************************************)
(* Instances of WebSocketsApi for TLC.                                     *)
(***************************************************************************)
EXTENDS WebSocketsApi, TLC

\* No handle is special, and no property is about the order of the messages.
HandlesAndMessages == Permutations(Clients) \cup Permutations(Messages)

=============================================================================
