------------------------------- MODULE MCLobby -------------------------------
(***************************************************************************)
(* Instances of Lobby for TLC: addresses are model values and symmetric.   *)
(***************************************************************************)
EXTENDS Lobby, TLC

Session(id, name) == [id |-> id, name |-> name]

\* Three players' names in a first session; a second session that takes the
\* name of one of them, or only observes.
MCSessions ==
  {Session(1, 1), Session(1, 2), Session(1, 3), Session(2, 1), Session(2, NoName)}

AddrSymmetry == Permutations(Addrs)
=============================================================================
