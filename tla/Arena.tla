-------------------------------- MODULE Arena --------------------------------
(***************************************************************************)
(* What a game promises to everything built around it: a log of events     *)
(* which begins with NEW_GAME, in which only players still standing claim  *)
(* pixels or fall, and which ends with GAME_OVER at the moment the last    *)
(* but one player falls.  Game implements it; Server is composed with it.  *)
(***************************************************************************)
EXTENDS Integers, Sequences, FiniteSets

CONSTANT MaxPlayers      \* players a game may have

VARIABLES
  standing,              \* the players not eliminated yet
  log                    \* the events of the current game

arenaVars == <<standing, log>>

Entry(type, player) == [type |-> type, player |-> player]
Nobody == -1

Over == Cardinality(standing) = 1
Running == standing # {} /\ ~Over

ArenaInit == standing = {} /\ log = <<>>

Begin(n) ==
  /\ ~Running
  /\ standing' = 0..(n - 1)
  /\ log' = <<Entry("NEW_GAME", Nobody)>>

Claim(p) ==
  /\ Running /\ p \in standing
  /\ log' = Append(log, Entry("PIXEL", p))
  /\ UNCHANGED standing

Fall(p) ==
  /\ Running /\ p \in standing
  /\ standing' = standing \ {p}
  /\ log' = Append(log, Entry("PLAYER_ELIMINATED", p)) \o
              (IF Cardinality(standing') = 1
                 THEN <<Entry("GAME_OVER", Nobody)>> ELSE <<>>)

ArenaNext ==
  \/ \E n \in 2..MaxPlayers : Begin(n)
  \/ \E p \in standing : Claim(p) \/ Fall(p)

ArenaSpec == ArenaInit /\ [][ArenaNext]_arenaVars
=============================================================================
