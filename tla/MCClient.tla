------------------------------ MODULE MCClient ------------------------------
(***************************************************************************)
(* An instance of Client for TLC: two bytes of the session id differ from  *)
(* zero and from each other, and the name's characters are the two that    *)
(* the server still takes.                                                 *)
(***************************************************************************)
EXTENDS Client

MCSessionId == 258
MCPlayerName == <<33, 126>>
=============================================================================
