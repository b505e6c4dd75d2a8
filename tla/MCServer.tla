------------------------------ MODULE MCServer ------------------------------
(***************************************************************************)
(* Instances of Server for TLC: client n has address n and name n, in its  *)
(* only session.                                                           *)
(***************************************************************************)
EXTENDS Server

MCClients == {[addr |-> a, id |-> 1, name |-> a] : a \in Addrs}
MCSessions == {[id |-> 1, name |-> s] : s \in Names}
MCEventSize == [type \in EventTypes |->
                  CASE type = "NEW_GAME" -> 3 [] type = "PIXEL" -> 2 [] OTHER -> 1]
=============================================================================
