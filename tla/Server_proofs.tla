---------------------------- MODULE Server_proofs ----------------------------
(***************************************************************************)
(* Theorems about the server put together from its parts: it plays by the  *)
(* rules of the lobby and of the arena, so that what is proved of them     *)
(* holds of the server, and the parts agree with each other.               *)
(***************************************************************************)
EXTENDS Server, FiniteSetTheorems, TLAPS

\* What is proved of the lobby.
Players == INSTANCE Lobby_proofs

-----------------------------------------------------------------------------
(* The lobby that is proved about is the lobby of the server. *)

LEMMA PlayersParameters ==
  /\ Players!NamesAssumption /\ Players!SessionsAssumption
  /\ Players!TurnsAssumption /\ Players!LobbyAssumption
  BY LobbyParameters
  DEF Lobby!NamesAssumption, Players!NamesAssumption, Lobby!SessionsAssumption,
      Players!SessionsAssumption, Lobby!TurnsAssumption,
      Players!TurnsAssumption, Lobby!LobbyAssumption, Players!LobbyAssumption,
      Lobby!NoName, Players!NoName, Lobby!IsFiniteSet, Players!IsFiniteSet

LEMMA OneCardinality ==
  \A S : /\ Arena!Cardinality(S) = Cardinality(S)
         /\ Lobby!Cardinality(S) = Cardinality(S)
         /\ Players!Cardinality(S) = Cardinality(S)
  BY DEF Arena!Cardinality, Lobby!Cardinality, Players!Cardinality, Cardinality

LEMMA SameLobby ==
  /\ Lobby!LobbyInit <=> Players!LobbyInit
  /\ Lobby!LobbyNext <=> Players!LobbyNext
  /\ Lobby!lobbyVars = Players!lobbyVars
  BY DEF Lobby!LobbyInit, Players!LobbyInit, Lobby!LobbyNext,
         Players!LobbyNext, Lobby!lobbyVars, Players!lobbyVars, Lobby!Expire,
         Players!Expire, Lobby!CheckForIdleClients,
         Players!CheckForIdleClients, Lobby!UpdateGame, Players!UpdateGame,
         Lobby!WaitReceive, Players!WaitReceive, Lobby!RunReceive,
         Players!RunReceive, Lobby!NothingReceived, Players!NothingReceived,
         Lobby!GameReady, Players!GameReady, Lobby!GameOver, Players!GameOver,
         Lobby!Rank, Players!Rank, Lobby!Ranked, Players!Ranked, Lobby!Holder,
         Players!Holder, Lobby!KeyOf, Players!KeyOf, Lobby!Steers,
         Players!Steers, Lobby!NamesWaiting, Players!NamesWaiting,
         Lobby!ReadyLeft, Players!ReadyLeft, Lobby!NamesAfter,
         Players!NamesAfter, Lobby!ClientsAfter, Players!ClientsAfter,
         Lobby!Put, Players!Put, Lobby!Ignored, Players!Ignored, Lobby!Adds,
         Players!Adds, Lobby!Full, Players!Full, Lobby!NamesLeft,
         Players!NamesLeft, Lobby!Removes, Players!Removes, Lobby!Without,
         Players!Without, Lobby!Joins, Players!Joins, Lobby!Renamed,
         Players!Renamed, Lobby!Old, Players!Old, Lobby!KnowsName,
         Players!KnowsName, Lobby!KnowsAddr, Players!KnowsAddr, Lobby!CanStart,
         Players!CanStart, Lobby!LoopGoesOn, Players!LoopGoesOn,
         Lobby!InIteration, Players!InIteration, Lobby!Messages,
         Players!Messages, Lobby!NoName, Players!NoName, Lobby!STRAIGHT,
         Players!STRAIGHT, Lobby!NAMES_DEFAULT, Players!NAMES_DEFAULT,
         Lobby!Cardinality, Players!Cardinality, Lobby!Restrict,
         Players!Restrict

\* A step of the server is a step of the lobby, or leaves the lobby alone.
LEMMA LobbyStep == [ServerNext]_vars => [Players!LobbyNext]_(Players!lobbyVars)
<1> SUFFICES ASSUME [ServerNext]_vars
             PROVE  Lobby!LobbyNext \/ UNCHANGED lobby
  BY SameLobby DEF Players!lobbyVars, lobby
<1>1. CASE StartRound \/ PassWorm \/ RoundMove \/ StartRefresh \/ Spawn \/ Abort
  BY <1>1 DEF StartRound, PassWorm, RoundMove, StartRefresh, Spawn, Abort
<1>2. CASE FinishRound
  BY <1>2 DEF FinishRound, Lobby!LobbyNext
<1>3. CASE FinishRefresh
  BY <1>3 DEF FinishRefresh, Lobby!LobbyNext
<1>4. CASE GameOver
  BY <1>4 DEF GameOver, Lobby!LobbyNext
<1>5. CASE \E a \in Addrs : Expire(a)
  BY <1>5 DEF Expire, Lobby!LobbyNext
<1>6. CASE CheckForIdleClients
  BY <1>6 DEF CheckForIdleClients, Lobby!LobbyNext
<1>7. CASE \E outcome \in Outbox!Outcomes : Send(outcome)
  BY <1>7 DEF Send
<1>8. CASE \E client \in Clients, turn \in TurnValues, ev_no \in AskFrom :
             Receive(Message(client, turn), ev_no)
  <2>1. PICK client \in Clients, turn \in TurnValues, ev_no \in AskFrom :
               Receive(Message(client, turn), ev_no)
    BY <1>8
  <2>2. Message(client, turn) \in Lobby!Messages
    <3>1. PICK s \in Sessions : s.id = client.id /\ s.name = client.name
      BY ServerAssumption
    <3>2. Message(client, turn) =
            [addr |-> client.addr, id |-> s.id, name |-> s.name, turn |-> turn]
      BY <3>1 DEF Message
    <3>3. client.addr \in Addrs /\ turn \in TurnValues
      BY ServerAssumption
    <3> QED
      BY <3>2, <3>3 DEF Lobby!Messages
  <2> QED
    BY <2>1, <2>2 DEF Receive, Lobby!LobbyNext
<1>9. CASE NothingReceived
  BY <1>9 DEF NothingReceived, Lobby!LobbyNext
<1>10. CASE UNCHANGED vars
  BY <1>10 DEF vars
<1> QED
  BY <1>1, <1>2, <1>3, <1>4, <1>5, <1>6, <1>7, <1>8, <1>9, <1>10 DEF ServerNext

\* The loops of the server do to the players what the lobby allows, in an order
\* that the lobby allows: every theorem about the lobby is one about the server.
THEOREM ServerIsALobby == ServerSpec => Players!LobbySpec
<1>1. ServerInit => Players!LobbyInit
  BY SameLobby DEF ServerInit
<1> QED
  BY <1>1, LobbyStep, PTL DEF ServerSpec, Players!LobbySpec

LEMMA PlayersAlways == ServerSpec => []Players!NamesInv
  BY ServerIsALobby, Players!NamesAlways, PlayersParameters, PTL

\* In the server, then: the names are those of the connected players, who are
\* not too many; a game starts when all of them have turned; and a worm turns
\* only by its owner's messages, although rounds and sending come in between.
THEOREM PlayersInTheServer ==
  ServerSpec => /\ []Lobby!NamesMatchClients /\ []Lobby!AtMostMaxPlayers
                /\ []Lobby!StartsWhenAllReady
                /\ Lobby!OnlyOwnerSteers
<1>1. /\ Lobby!NamesMatchClients <=> Players!NamesMatchClients
      /\ Lobby!AtMostMaxPlayers <=> Players!AtMostMaxPlayers
      /\ Lobby!StartsWhenAllReady <=> Players!StartsWhenAllReady
  BY DEF Lobby!NamesMatchClients, Players!NamesMatchClients,
         Lobby!AtMostMaxPlayers, Players!AtMostMaxPlayers,
         Lobby!StartsWhenAllReady, Players!StartsWhenAllReady, Lobby!CanStart,
         Players!CanStart, Lobby!NoName, Players!NoName, Lobby!Cardinality,
         Players!Cardinality
<1>2. ServerSpec => /\ []Players!NamesMatchClients /\ []Players!AtMostMaxPlayers
                    /\ []Players!StartsWhenAllReady
  BY ServerIsALobby, Players!NamesAgree, Players!LimitIsKept, Players!StartIsRight,
     PlayersParameters, PTL
<1>3. ServerSpec => Players!OnlyOwnerSteers
  BY ServerIsALobby, Players!OwnersSteer, PlayersParameters
<1>4. Lobby!OnlyOwnerSteers <=> Players!OnlyOwnerSteers
  BY DEF Lobby!OnlyOwnerSteers, Players!OnlyOwnerSteers, Lobby!lobbyVars,
         Players!lobbyVars, Lobby!Messages, Players!Messages, Lobby!Sender,
         Players!Sender, Lobby!RunReceive, Players!RunReceive,
         Lobby!InIteration, Players!InIteration, Lobby!LoopGoesOn,
         Players!LoopGoesOn, Lobby!CanStart, Players!CanStart,
         Lobby!Cardinality, Players!Cardinality, Lobby!NamesAfter,
         Players!NamesAfter, Lobby!ClientsAfter, Players!ClientsAfter,
         Lobby!Steers, Players!Steers, Lobby!Put, Players!Put, Lobby!Ignored,
         Players!Ignored, Lobby!Adds, Players!Adds, Lobby!Full, Players!Full,
         Lobby!NamesLeft, Players!NamesLeft, Lobby!Removes, Players!Removes,
         Lobby!Without, Players!Without, Lobby!Joins, Players!Joins,
         Lobby!Renamed, Players!Renamed, Lobby!Old, Players!Old,
         Lobby!KnowsName, Players!KnowsName, Lobby!KnowsAddr,
         Players!KnowsAddr, Lobby!NoName, Players!NoName, Lobby!NAMES_DEFAULT,
         Players!NAMES_DEFAULT, Lobby!Restrict, Players!Restrict
<1> QED
  BY <1>1, <1>2, <1>3, <1>4, PTL

-----------------------------------------------------------------------------
(* Where the loops are. *)

\* A round is played in a game that goes on; refresh() runs between the loops;
\* and once the game is over no further iteration begins.
LoopInv ==
  /\ worker \in {"none", "round", "refresh"} /\ i \in Nat
  /\ phase \in {"wait", "play"}
  /\ worker = "round" => phase = "play" /\ ~over /\ stage # "round"
  /\ worker = "refresh" => phase = "wait" /\ stage = "test" /\ Lobby!CanStart
  /\ phase = "play" /\ over => stage # "idle"

LEMMA LoopInit == ServerInit => LoopInv
  BY DEF ServerInit, Lobby!LobbyInit, LoopInv

LEMMA LoopStep == LoopInv /\ [ServerNext]_vars => LoopInv'
<1> SUFFICES ASSUME LoopInv, [ServerNext]_vars PROVE LoopInv'
  OBVIOUS
<1>1. CASE StartRound
  BY <1>1 DEF StartRound, LoopInv, Idle, AtWork, lobby, Lobby!InIteration,
              Lobby!LoopGoesOn
<1>2. CASE PassWorm \/ RoundMove
  BY <1>2 DEF PassWorm, RoundMove, LoopInv, lobby
<1>3. CASE FinishRound
  BY <1>3 DEF FinishRound, LoopInv, Lobby!UpdateGame
<1>4. CASE StartRefresh
  BY <1>4 DEF StartRefresh, LoopInv, lobby, Lobby!CanStart
<1>5. CASE Spawn
  BY <1>5 DEF Spawn, LoopInv, lobby, Lobby!CanStart
<1>6. CASE FinishRefresh
  BY <1>6 DEF FinishRefresh, LoopInv, Lobby!GameReady
<1>7. CASE GameOver
  BY <1>7 DEF GameOver, LoopInv, Idle, AtWork, loop, Lobby!GameOver
<1>8. CASE \E a \in Addrs : Expire(a)
  BY <1>8 DEF Expire, LoopInv, Idle, AtWork, loop, Lobby!Expire
<1>9. CASE CheckForIdleClients
  BY <1>9 DEF CheckForIdleClients, LoopInv, Idle, AtWork, loop,
              Lobby!CheckForIdleClients, Lobby!LoopGoesOn
<1>10. CASE (\E outcome \in Outbox!Outcomes : Send(outcome)) \/ Abort
  BY <1>10 DEF Send, Abort, LoopInv, loop, lobby, Lobby!CanStart
<1>11. CASE \E client \in Clients, turn \in TurnValues, ev_no \in AskFrom :
              Receive(Message(client, turn), ev_no)
  BY <1>11 DEF Receive, LoopInv, Idle, AtWork, loop, Lobby!WaitReceive, Lobby!RunReceive
<1>12. CASE NothingReceived
  BY <1>12 DEF NothingReceived, LoopInv, Idle, AtWork, loop, lobby,
               Lobby!NothingReceived
<1>13. CASE UNCHANGED vars
  BY <1>13 DEF vars, LoopInv, loop, lobby, Lobby!CanStart
<1> QED
  BY <1>1, <1>2, <1>3, <1>4, <1>5, <1>6, <1>7, <1>8, <1>9, <1>10, <1>11, <1>12, <1>13
     DEF ServerNext

LEMMA LoopAlways == ServerSpec => []LoopInv
  BY LoopInit, LoopStep, PTL DEF ServerSpec

-----------------------------------------------------------------------------
(* The arena. *)

LEMMA Starters ==
  ASSUME Players!NamesInv, Lobby!CanStart
  PROVE  Cardinality(DOMAIN names) \in 2..MaxPlayers
<1>1. Cardinality(DOMAIN names) \in Nat /\ Cardinality(DOMAIN names) <= MaxPlayers
  BY Players!NamesFinite, PlayersParameters, OneCardinality
     DEF Players!NamesInv, Players!AtMostMaxPlayers
<1>2. Cardinality(DOMAIN names) >= 2
  BY OneCardinality DEF Lobby!CanStart
<1>3. MaxPlayers \in Nat
  BY PlayersParameters DEF Players!LobbyAssumption
<1> QED
  BY <1>1, <1>2, <1>3

LEMMA ArenaStep ==
  Players!NamesInv /\ [ServerNext]_vars => [Arena!ArenaNext]_(Arena!arenaVars)
<1> SUFFICES ASSUME Players!NamesInv, [ServerNext]_vars
             PROVE  Arena!ArenaNext \/ UNCHANGED arena
  BY DEF Arena!arenaVars, arena
<1>1. CASE StartRefresh
  <2>1. /\ Arena!Begin(Cardinality(DOMAIN names))
        /\ Cardinality(DOMAIN names) \in 2..MaxPlayers
    BY <1>1, Starters DEF StartRefresh
  <2> QED
    BY <2>1 DEF Arena!ArenaNext
<1>2. CASE RoundMove
  BY <1>2 DEF RoundMove, Arena!Claim, Arena!Fall, Arena!ArenaNext
<1>3. CASE Spawn
  BY <1>3 DEF Spawn, Arena!Claim, Arena!Fall, Arena!ArenaNext
<1>4. CASE \/ StartRound \/ PassWorm \/ FinishRound \/ FinishRefresh \/ GameOver
           \/ \E a \in Addrs : Expire(a)
           \/ CheckForIdleClients
           \/ \E outcome \in Outbox!Outcomes : Send(outcome)
           \/ Abort
           \/ \E client \in Clients, turn \in TurnValues, ev_no \in AskFrom :
                Receive(Message(client, turn), ev_no)
           \/ NothingReceived
           \/ UNCHANGED vars
  BY <1>4 DEF StartRound, PassWorm, FinishRound, FinishRefresh, GameOver, Expire,
              CheckForIdleClients, Send, Abort, Receive, NothingReceived, vars
<1> QED
  BY <1>1, <1>2, <1>3, <1>4 DEF ServerNext

\* The server begins a game only when none is running and for as many players
\* as a game may have, and moves only worms that stand: every game that Game
\* would play is one that the server asks for.
THEOREM ServerIsAnArena == ServerSpec => Arena!ArenaSpec
<1>1. ServerInit => Arena!ArenaInit
  BY DEF ServerInit
<1> QED
  BY <1>1, ArenaStep, PlayersAlways, PTL DEF ServerSpec, Arena!ArenaSpec

-----------------------------------------------------------------------------
(* The parts agree. *)

LEMMA SameNamesAfter ==
  /\ \A m : Lobby!NamesAfter(m) = Players!NamesAfter(m)
  /\ \A s : Lobby!Rank(s) = Players!Rank(s)
  BY DEF Lobby!Rank, Players!Rank,
         Lobby!NamesAfter, Players!NamesAfter, Lobby!Put, Players!Put,
         Lobby!Adds, Players!Adds, Lobby!Full, Players!Full, Lobby!NamesLeft,
         Players!NamesLeft, Lobby!Removes, Players!Removes, Lobby!Without,
         Players!Without, Lobby!Joins, Players!Joins, Lobby!Renamed,
         Players!Renamed, Lobby!Old, Players!Old, Lobby!KnowsName,
         Players!KnowsName, Lobby!KnowsAddr, Players!KnowsAddr, Lobby!NoName,
         Players!NoName, Lobby!NAMES_DEFAULT, Players!NAMES_DEFAULT,
         Lobby!Cardinality, Players!Cardinality, Lobby!Restrict,
         Players!Restrict

\* Who stands, or still steers a worm, in a game that has this many worms.
GameInv ==
  /\ worker = "refresh" => standing \subseteq 0..(Cardinality(DOMAIN names) - 1)
  /\ phase = "play" =>
       /\ standing \subseteq DOMAIN turns
       /\ \A s \in DOMAIN names : names[s] \in DOMAIN turns \cup {Lobby!NAMES_DEFAULT}
  /\ phase = "play" /\ over => Arena!Over
  /\ phase = "wait" /\ worker = "none" => ~Arena!Running

LEMMA GameInit == ServerInit => GameInv
  BY DEF ServerInit, Lobby!LobbyInit, Arena!ArenaInit, Arena!Running, GameInv

\* A name has the worm it had, or none.
LEMMA NamesRestricted ==
  ASSUME NEW n, NEW S,
         \A s \in DOMAIN names : names[s] \in DOMAIN turns \cup {Lobby!NAMES_DEFAULT},
         n = Lobby!Without(names, S)
  PROVE  \A s \in DOMAIN n : n[s] \in DOMAIN turns \cup {Lobby!NAMES_DEFAULT}
  BY DEF Lobby!Without, Lobby!Restrict

LEMMA FallsOrClaims ==
  ASSUME Arena!Claim(i) \/ Arena!Fall(i)
  PROVE  standing' \subseteq standing
  BY DEF Arena!Claim, Arena!Fall

LEMMA GameReadyAgrees ==
  ASSUME Players!NamesInv, LoopInv, GameInv, FinishRefresh
  PROVE  GameInv'
<1>1. /\ worker' = "none" /\ phase' = "play" /\ UNCHANGED arena
      /\ over' = Arena!Over
      /\ names' = [s \in DOMAIN names |-> Lobby!Rank(s)]
      /\ DOMAIN turns' = 0..(Cardinality(DOMAIN names) - 1)
      /\ standing \subseteq 0..(Cardinality(DOMAIN names) - 1)
  BY OneCardinality DEF FinishRefresh, Lobby!GameReady, Done, GameInv
<1>2. \A s \in DOMAIN names : Lobby!Rank(s) \in 0..(Cardinality(DOMAIN names) - 1)
  BY Players!RankFacts, PlayersParameters, SameNamesAfter, OneCardinality
<1>3. Arena!Over' <=> Arena!Over
  BY <1>1 DEF arena, Arena!Over
<1> QED
  BY <1>1, <1>2, <1>3 DEF GameInv, arena

LEMMA ReceiveAgrees ==
  ASSUME Players!NamesInv, LoopInv, GameInv,
         NEW client \in Clients, NEW turn \in TurnValues, NEW ev_no,
         Receive(Message(client, turn), ev_no)
  PROVE  GameInv'
<1> DEFINE m == Message(client, turn)
<1>1. m \in Players!Messages
  <2>1. PICK s \in Sessions : s.id = client.id /\ s.name = client.name
    BY ServerAssumption
  <2>2. m = [addr |-> client.addr, id |-> s.id, name |-> s.name, turn |-> turn]
    BY <2>1 DEF Message
  <2>3. client.addr \in Addrs
    BY ServerAssumption
  <2> QED
    BY <2>2, <2>3 DEF Players!Messages
<1>2. /\ worker = "none" /\ UNCHANGED <<arena, loop>>
      /\ Lobby!WaitReceive(m) \/ Lobby!RunReceive(m)
  BY DEF Receive, Idle, AtWork
<1> HIDE DEF m
<1>3. (Arena!Over' <=> Arena!Over) /\ (Arena!Running' <=> Arena!Running)
  BY <1>2 DEF arena, Arena!Over, Arena!Running
<1>4. CASE Lobby!WaitReceive(m)
  BY <1>2, <1>3, <1>4 DEF Lobby!WaitReceive, GameInv, arena, loop
<1>5. CASE Lobby!RunReceive(m)
  <2>1. /\ phase = "play" /\ UNCHANGED <<phase, over>>
        /\ names' = Players!NamesAfter(m) /\ DOMAIN turns' = DOMAIN turns
    BY <1>5, SameNamesAfter DEF Lobby!RunReceive
  <2>2. \A s \in DOMAIN names' :
          names'[s] = Lobby!NAMES_DEFAULT \/ (s \in DOMAIN names /\ names'[s] = names[s])
    BY <1>1, <2>1, Players!NamesAfterFacts, PlayersParameters
       DEF Lobby!NAMES_DEFAULT, Players!NAMES_DEFAULT
  <2> QED
    BY <1>2, <1>3, <2>1, <2>2 DEF GameInv, arena, loop
<1> QED
  BY <1>2, <1>4, <1>5

LEMMA GameStep ==
  Players!NamesInv /\ LoopInv /\ GameInv /\ [ServerNext]_vars => GameInv'
<1> SUFFICES ASSUME Players!NamesInv, LoopInv, GameInv, [ServerNext]_vars PROVE GameInv'
  OBVIOUS
<1>0. ASSUME UNCHANGED <<arena, names, turns, worker, phase, over>> PROVE GameInv'
  BY <1>0 DEF GameInv, arena, Arena!Over, Arena!Running
<1>1. CASE StartRound
  BY <1>1 DEF StartRound, GameInv, lobby, arena, Arena!Over
<1>2. CASE PassWorm
  BY <1>0, <1>2 DEF PassWorm, lobby
<1>3. CASE RoundMove
  <2>1. worker = "round" /\ UNCHANGED <<worker, lobby>> /\ standing' \subseteq standing
    BY <1>3, FallsOrClaims DEF RoundMove
  <2>2. phase = "play" /\ ~over
    BY <2>1 DEF LoopInv
  <2> QED
    BY <2>1, <2>2 DEF GameInv, lobby
<1>4. CASE FinishRound
  <2>1. /\ worker = "round" /\ worker' = "none" /\ over' = Arena!Over /\ phase = "play"
        /\ UNCHANGED <<arena, names, turns, phase>>
    BY <1>4 DEF FinishRound, Lobby!UpdateGame, Done
  <2>2. Arena!Over' <=> Arena!Over
    BY <2>1 DEF arena, Arena!Over
  <2> QED
    BY <2>1, <2>2 DEF GameInv, arena
<1>5. CASE StartRefresh
  <2>1. /\ standing' = 0..(Cardinality(DOMAIN names) - 1)
        /\ phase = "wait" /\ UNCHANGED lobby /\ worker' = "refresh"
    BY <1>5 DEF StartRefresh, Arena!Begin
  <2> QED
    BY <2>1 DEF GameInv, lobby
<1>6. CASE Spawn
  <2>1. /\ worker = "refresh" /\ UNCHANGED <<worker, lobby>>
        /\ standing' \subseteq standing
    BY <1>6, FallsOrClaims DEF Spawn
  <2>2. phase = "wait"
    BY <2>1 DEF LoopInv
  <2> QED
    BY <2>1, <2>2 DEF GameInv, lobby
<1>7. CASE FinishRefresh
  BY <1>7, GameReadyAgrees
<1>8. CASE GameOver
  <2>1. /\ worker = "none" /\ phase = "play" /\ over /\ phase' = "wait"
        /\ UNCHANGED <<arena, loop>>
    BY <1>8 DEF GameOver, Idle, AtWork, Lobby!GameOver
  <2>2. ~Arena!Running /\ (Arena!Running' <=> Arena!Running)
    BY <2>1 DEF GameInv, arena, Arena!Over, Arena!Running
  <2> QED
    BY <2>1, <2>2 DEF GameInv, loop
<1>9. CASE \E a \in Addrs : Expire(a)
  BY <1>0, <1>9 DEF Expire, Lobby!Expire, loop
<1>10. CASE CheckForIdleClients
  <2>1. /\ UNCHANGED <<arena, loop, turns, phase, over>>
        /\ \E S : names' = Lobby!Without(names, S)
    BY <1>10 DEF CheckForIdleClients, Lobby!CheckForIdleClients
  <2>2. /\ phase = "play" =>
             \A s \in DOMAIN names' : names'[s] \in DOMAIN turns \cup {Lobby!NAMES_DEFAULT}
        /\ worker # "refresh"
    BY <1>10, <2>1, NamesRestricted DEF GameInv, CheckForIdleClients, Idle, AtWork
  <2>3. (Arena!Over' <=> Arena!Over) /\ (Arena!Running' <=> Arena!Running)
    BY <2>1 DEF arena, Arena!Over, Arena!Running
  <2> QED
    BY <2>1, <2>2, <2>3 DEF GameInv, arena, loop
<1>11. CASE (\E outcome \in Outbox!Outcomes : Send(outcome)) \/ Abort
  BY <1>0, <1>11 DEF Send, Abort, lobby, loop
<1>12. CASE \E client \in Clients, turn \in TurnValues, ev_no \in AskFrom :
              Receive(Message(client, turn), ev_no)
  BY <1>12, ReceiveAgrees
<1>13. CASE NothingReceived
  BY <1>0, <1>13 DEF NothingReceived, Lobby!NothingReceived, lobby, loop
<1>14. CASE UNCHANGED vars
  BY <1>0, <1>14 DEF vars, lobby, loop
<1> QED
  BY <1>1, <1>2, <1>3, <1>4, <1>5, <1>6, <1>7, <1>8, <1>9, <1>10, <1>11, <1>12, <1>13,
     <1>14 DEF ServerNext

\* The worm indices, computed from the players there are when a game begins,
\* stay those of worms of the game while players come and go, and the server
\* waits for the next game only when this one has ended.
THEOREM PartsAlwaysAgree == ServerSpec => []PartsAgree
<1>1. GameInv => PartsAgree
  BY DEF GameInv, PartsAgree
<1> QED
  BY <1>1, GameInit, GameStep, LoopAlways, PlayersAlways, PTL DEF ServerSpec

-----------------------------------------------------------------------------
(* Broadcasts. *)

Entries ==
  [type : {"NEW_GAME", "PIXEL", "PLAYER_ELIMINATED", "GAME_OVER"}, player : Int]

LogInv == log \in Seq(Entries)

\* Before this event everything since refresh() has been broadcast.
AnnouncedTo == IF first_inserted = None THEN Len(log) ELSE first_inserted

AnnounceInv ==
  /\ first_inserted \in Nat \cup {None} /\ opening \in Nat
  /\ worker # "round" => first_inserted = None
  /\ worker = "refresh" => announced = {}
  /\ worker # "refresh" =>
       /\ opening <= AnnouncedTo /\ AnnouncedTo <= Len(log)
       /\ announced = opening..(AnnouncedTo - 1)

LEMMA EventsAdded ==
  ASSUME LogInv, i \in Nat, Arena!Claim(i) \/ Arena!Fall(i)
  PROVE  LogInv' /\ Len(log') > Len(log)
<1>1. /\ Arena!Entry("PIXEL", i) \in Entries
      /\ Arena!Entry("PLAYER_ELIMINATED", i) \in Entries
      /\ Arena!Entry("GAME_OVER", Arena!Nobody) \in Entries
  BY DEF Arena!Entry, Arena!Nobody, Entries
<1>2. CASE Arena!Claim(i)
  BY <1>1, <1>2 DEF Arena!Claim, LogInv
<1>3. CASE Arena!Fall(i)
  <2>1. \/ log' = Append(log, Arena!Entry("PLAYER_ELIMINATED", i)) \o
                    <<Arena!Entry("GAME_OVER", Arena!Nobody)>>
        \/ log' = Append(log, Arena!Entry("PLAYER_ELIMINATED", i)) \o <<>>
    BY <1>3 DEF Arena!Fall
  <2>2. /\ Append(log, Arena!Entry("PLAYER_ELIMINATED", i)) \in Seq(Entries)
        /\ Len(Append(log, Arena!Entry("PLAYER_ELIMINATED", i))) = Len(log) + 1
    BY <1>1 DEF LogInv
  <2>3. <<Arena!Entry("GAME_OVER", Arena!Nobody)>> \in Seq(Entries)
        /\ <<>> \in Seq(Entries) /\ Len(<<>>) = 0
        /\ Len(<<Arena!Entry("GAME_OVER", Arena!Nobody)>>) = 1
    BY <1>1
  <2>4. Len(log) \in Nat
    BY DEF LogInv
  <2>5. PICK fallen \in Seq(Entries), end \in Seq(Entries) :
          /\ log' = fallen \o end /\ Len(fallen) = Len(log) + 1
          /\ Len(end) = 0 \/ Len(end) = 1
    BY <2>1, <2>2, <2>3
  <2>6. log' \in Seq(Entries) /\ Len(log') = Len(fallen) + Len(end)
    BY <2>5
  <2> QED
    BY <2>4, <2>5, <2>6 DEF LogInv
<1> QED
  BY <1>2, <1>3

LEMMA AnnounceInit == ServerInit => LogInv /\ AnnounceInv
<1> SUFFICES ASSUME ServerInit PROVE LogInv /\ AnnounceInv
  OBVIOUS
<1>1. log = <<>> /\ Len(log) = 0
  BY DEF ServerInit, Arena!ArenaInit
<1> QED
  BY <1>1 DEF ServerInit, LogInv, AnnounceInv, AnnouncedTo, None

LEMMA AnnounceStep ==
  LoopInv /\ LogInv /\ AnnounceInv /\ [ServerNext]_vars => LogInv' /\ AnnounceInv'
<1> SUFFICES ASSUME LoopInv, LogInv, AnnounceInv, [ServerNext]_vars
             PROVE  LogInv' /\ AnnounceInv'
  OBVIOUS
<1>1. Len(log) \in Nat /\ i \in Nat
  BY DEF LogInv, LoopInv
<1>2. ASSUME UNCHANGED <<arena, worker, first_inserted, announced, opening>>
      PROVE  LogInv' /\ AnnounceInv'
  BY <1>2 DEF LogInv, AnnounceInv, AnnouncedTo, arena
<1>3. CASE StartRound
  BY <1>3 DEF StartRound, Idle, AtWork, LogInv, AnnounceInv, AnnouncedTo, arena, aux, None
<1>4. CASE PassWorm
  BY <1>2, <1>4 DEF PassWorm, aux
<1>5. CASE RoundMove
  <2>1. /\ LogInv' /\ Len(log') > Len(log) /\ worker = "round"
        /\ UNCHANGED <<worker, announced, opening>> /\ first_inserted' = AnnouncedTo
    BY <1>1, <1>5, EventsAdded DEF RoundMove, aux, AnnouncedTo
  <2>2. Len(log') \in Nat /\ AnnouncedTo \in Nat
    BY <1>1, <2>1 DEF LogInv, AnnounceInv, AnnouncedTo
  <2>3. AnnouncedTo' = AnnouncedTo
    BY <2>1, <2>2 DEF AnnouncedTo, None
  <2> QED
    BY <1>1, <2>1, <2>2, <2>3 DEF AnnounceInv
<1>6. CASE FinishRound
  <2>1. /\ UNCHANGED <<arena, opening>> /\ worker = "round" /\ worker' = "none"
        /\ first_inserted' = None
        /\ announced' = IF first_inserted >= 0
                          THEN announced \cup (first_inserted..(Len(log) - 1))
                          ELSE announced
    BY <1>6 DEF FinishRound, BroadcastFrom
  <2>2. AnnouncedTo' = Len(log) /\ Len(log') = Len(log) /\ LogInv'
    BY <2>1 DEF AnnouncedTo, arena, LogInv
  <2>3. /\ opening \in Nat /\ opening <= AnnouncedTo /\ AnnouncedTo <= Len(log)
        /\ announced = opening..(AnnouncedTo - 1)
    BY <2>1 DEF AnnounceInv
  <2>4. announced' = opening..(Len(log) - 1)
    <3>1. CASE first_inserted = None
      BY <2>1, <2>3, <3>1 DEF AnnouncedTo, None
    <3>2. CASE first_inserted \in Nat
      <4>1. announced' = (opening..(first_inserted - 1)) \cup
                           (first_inserted..(Len(log) - 1))
        BY <2>1, <2>3, <3>2 DEF AnnouncedTo, None
      <4>2. opening <= first_inserted /\ first_inserted <= Len(log)
        BY <2>3, <3>2 DEF AnnouncedTo, None
      <4> QED
        BY <1>1, <2>3, <3>2, <4>1, <4>2
    <3> QED
      BY <3>1, <3>2 DEF AnnounceInv
  <2>5. opening <= Len(log)
    <3>1. AnnouncedTo \in Nat
      BY <1>1 DEF AnnounceInv, AnnouncedTo
    <3> QED
      BY <1>1, <2>3, <3>1
  <2>6. /\ opening' \in Nat /\ opening' <= AnnouncedTo' /\ AnnouncedTo' <= Len(log')
        /\ announced' = opening'..(AnnouncedTo' - 1)
    <3>1. opening' = opening
      BY <2>1
    <3>2. opening <= AnnouncedTo' /\ AnnouncedTo' <= Len(log')
      BY <1>1, <2>2, <2>5
    <3> QED
      BY <2>2, <2>3, <2>4, <3>1, <3>2
  <2> QED
    BY <2>1, <2>2, <2>6 DEF AnnounceInv
<1>7. CASE StartRefresh
  <2>1. /\ log' = <<Arena!Entry("NEW_GAME", Arena!Nobody)>> /\ worker' = "refresh"
        /\ UNCHANGED first_inserted /\ announced' = {} /\ opening' = 0 /\ worker = "none"
    BY <1>7 DEF StartRefresh, Arena!Begin, Idle, AtWork
  <2>2. LogInv'
    BY <2>1 DEF LogInv, Entries, Arena!Entry, Arena!Nobody
  <2> QED
    BY <2>1, <2>2 DEF AnnounceInv
<1>8. CASE Spawn
  <2>1. LogInv' /\ worker = "refresh"
        /\ UNCHANGED <<worker, first_inserted, announced, opening>>
    BY <1>1, <1>8, EventsAdded DEF Spawn, aux
  <2> QED
    BY <2>1 DEF AnnounceInv
<1>9. CASE FinishRefresh
  <2>1. /\ UNCHANGED <<arena, first_inserted, announced>> /\ opening' = Len(log)
        /\ worker = "refresh" /\ worker' = "none"
    BY <1>9 DEF FinishRefresh
  <2>2. first_inserted = None /\ announced = {}
    BY <2>1 DEF AnnounceInv
  <2> QED
    BY <1>1, <2>1, <2>2 DEF LogInv, AnnounceInv, AnnouncedTo, arena
<1>10. CASE GameOver \/ CheckForIdleClients \/ Abort \/ NothingReceived
  BY <1>2, <1>10 DEF GameOver, CheckForIdleClients, Abort, NothingReceived, loop, aux
<1>11. CASE \E a \in Addrs : Expire(a)
  BY <1>2, <1>11 DEF Expire, loop, aux
<1>12. CASE \E outcome \in Outbox!Outcomes : Send(outcome)
  BY <1>2, <1>12 DEF Send, loop, aux
<1>13. CASE \E client \in Clients, turn \in TurnValues, ev_no \in AskFrom :
              Receive(Message(client, turn), ev_no)
  BY <1>2, <1>13 DEF Receive, loop, aux
<1>14. CASE UNCHANGED vars
  BY <1>2, <1>14 DEF vars, loop, aux
<1> QED
  BY <1>3, <1>4, <1>5, <1>6, <1>7, <1>8, <1>9, <1>10, <1>11, <1>12, <1>13, <1>14
     DEF ServerNext

\* Every event after those of refresh() is part of exactly one broadcast, the
\* ones of the last round too, although no iteration follows it.
THEOREM RoundsAreAnnounced == ServerSpec => []RoundsAnnounced
<1>1. LoopInv /\ AnnounceInv => RoundsAnnounced
  BY DEF LoopInv, AnnounceInv, AnnouncedTo, RoundsAnnounced, AtWork
<1>2. LoopInv /\ LogInv /\ AnnounceInv /\ [ServerNext]_vars => LogInv' /\ AnnounceInv'
  BY AnnounceStep
<1> QED
  BY <1>1, <1>2, AnnounceInit, LoopAlways, PTL DEF ServerSpec

-----------------------------------------------------------------------------
(* Waking up. *)

LEMMA WokenStep == WokenToSend /\ [ServerNext]_vars => WokenToSend'
<1> SUFFICES ASSUME WokenToSend, [ServerNext]_vars PROVE WokenToSend'
  OBVIOUS
<1>1. CASE \/ NothingReceived \/ GameOver
           \/ \E client \in Clients, turn \in TurnValues, ev_no \in AskFrom :
                Receive(Message(client, turn), ev_no)
  <2>1. pollout' = PollsOut
    BY <1>1 DEF NothingReceived, GameOver, Receive
  <2> QED
    BY <2>1 DEF PollsOut, WokenToSend
<1>2. CASE FinishRefresh
  BY <1>2 DEF FinishRefresh, WokenToSend
<1>3. CASE StartRound \/ PassWorm \/ RoundMove \/ StartRefresh \/ Spawn
  BY <1>3 DEF StartRound, PassWorm, RoundMove, StartRefresh, Spawn, WokenToSend, AtWork
<1>4. CASE FinishRound
  BY <1>4 DEF FinishRound, Lobby!UpdateGame, WokenToSend
<1>5. CASE CheckForIdleClients
  BY <1>5 DEF CheckForIdleClients, Lobby!CheckForIdleClients, WokenToSend
<1>6. CASE \E outcome \in Outbox!Outcomes : Send(outcome)
  BY <1>6 DEF Send, WokenToSend
<1>7. ASSUME UNCHANGED <<arena, q, loop, poll, stage>> PROVE WokenToSend'
  BY <1>7 DEF WokenToSend, AtWork, WasPlayed, arena, loop, poll
<1>8. CASE \E a \in Addrs : Expire(a)
  BY <1>7, <1>8 DEF Expire, Lobby!Expire
<1>9. CASE Abort
  BY <1>9 DEF Abort, WokenToSend, AtWork, WasPlayed, lobby, arena, loop
<1>10. CASE UNCHANGED vars
  BY <1>7, <1>10 DEF vars, lobby
<1> QED
  BY <1>1, <1>2, <1>3, <1>4, <1>5, <1>6, <1>8, <1>9, <1>10 DEF ServerNext

\* Whenever the server sleeps, with something to send and a game in its history,
\* a socket that takes data wakes it: nothing stays in the queue until the next
\* message happens to arrive.
THEOREM SleepsAwake == ServerSpec => []WokenToSend
<1>1. ServerInit => WokenToSend
  BY DEF ServerInit, WokenToSend
<1> QED
  BY <1>1, WokenStep, PTL DEF ServerSpec

-----------------------------------------------------------------------------
(* What is proved of the queue. *)

Queue == INSTANCE Delivery_proofs WITH
  hist <- Sizes, connected <- Connected,
  Clients <- {KeyNo(a, id) : a \in Addrs, id \in Lobby!Ids},
  EventSize <- EventSize["PIXEL"], Openings <- {}, Rounds <- {},
  aborted <- FALSE, due <- <<>>, got <- <<>>

Keys == {KeyNo(a, id) : a \in Addrs, id \in Lobby!Ids}

LEMMA IdsAreNumbers == Lobby!Ids \subseteq Nat
  BY LobbyParameters DEF Lobby!Ids, Lobby!SessionsAssumption

LEMMA KeysAre == \A a \in Addrs, id \in Lobby!Ids : KeyNo(a, id) \in Keys
<1> TAKE a \in Addrs, id \in Lobby!Ids
<1>1. \E b \in Addrs, n \in Lobby!Ids : KeyNo(a, id) = KeyNo(b, n)
  OBVIOUS
<1> QED
  BY <1>1 DEF Keys

LEMMA QueueParameters ==
  /\ Queue!ClientsAssumption /\ Queue!SizesAssumption /\ Queue!AskAssumption
  /\ Queue!EventsAssumption /\ Queue!RoundFits
<1>1. Queue!ClientsAssumption
  <2>1. \A a \in Addrs, id \in Lobby!Ids : KeyNo(a, id) \in Nat
    BY IdsAreNumbers, ServerAssumption DEF KeyNo
  <2> QED
    BY <2>1 DEF Queue!ClientsAssumption
<1>2. /\ Header \in Nat /\ Cap \in Nat /\ Header < Cap /\ AskFrom \subseteq Nat
      /\ EventSize["PIXEL"] \in Nat /\ MaxPlayers \in Nat
      /\ Header + (MaxPlayers + 1) * EventSize["PIXEL"] <= Cap
  BY DatagramAssumption, LobbyParameters DEF EventTypes, Lobby!LobbyAssumption
<1>3. Header + EventSize["PIXEL"] <= Cap
  <2> DEFINE s == EventSize["PIXEL"]
  <2>1. s \in Nat /\ (MaxPlayers + 1) * s = MaxPlayers * s + s /\ MaxPlayers * s \in Nat
    BY <1>2
  <2> HIDE DEF s
  <2>2. Header + (MaxPlayers * s + s) <= Cap
    BY <1>2, <2>1 DEF s
  <2> QED
    BY <1>2, <2>1, <2>2 DEF s
<1> QED
  BY <1>1, <1>2, <1>3 DEF Queue!SizesAssumption, Queue!AskAssumption,
                          Queue!EventsAssumption, Queue!RoundFits

LEMMA SameQueue ==
  /\ \A outcome : Outbox!Send(outcome) <=> Queue!Send(outcome)
  /\ \A c, ev_no : Outbox!AddMsg(c, ev_no) <=> Queue!AddMsg(c, ev_no)
  /\ \A start, size : Outbox!AddBroadcast(start, size) <=> Queue!AddBroadcast(start, size)
  BY DEF Outbox!Send, Queue!Send, Outbox!AddMsg, Queue!AddMsg, Outbox!AddBroadcast,
         Queue!AddBroadcast, Outbox!Message, Queue!Message, Outbox!Pushed,
         Queue!Pushed, Outbox!Cardinality, Queue!Cardinality, Outbox!ToTheEnd,
         Queue!ToTheEnd, Outbox!GoalExists, Queue!GoalExists, Outbox!Goal,
         Queue!Goal, Outbox!Front, Queue!Front, Outbox!Sends, Queue!Sends,
         Outbox!Remaining, Queue!Remaining, Outbox!Packed, Queue!Packed,
         Outbox!Bytes, Queue!Bytes, Outbox!Advanced, Queue!Advanced,
         Outbox!After, Queue!After

-----------------------------------------------------------------------------
(* A round makes no more events than fit in a datagram. *)

\* Of a game there is one NEW_GAME, and a round makes one event for every worm
\* that it has moved, and GAME_OVER.
RangeInv ==
  /\ \A n \in 2..Len(log) : log[n].type # "NEW_GAME"
  /\ standing # {} => log # <<>>
  /\ worker = "round" =>
       /\ i <= MaxPlayers
       /\ first_inserted # None =>
            /\ first_inserted >= 1
            /\ Len(log) - first_inserted <= i + (IF Arena!Over THEN 1 ELSE 0)

LEMMA OneEventEach ==
  ASSUME LogInv, RangeInv, i \in Nat, Arena!Claim(i) \/ Arena!Fall(i)
  PROVE  /\ \A n \in 2..Len(log') : log'[n].type # "NEW_GAME"
         /\ ~Arena!Over /\ Len(log) \in Nat \ {0} /\ log' # <<>>
         /\ Len(log') = Len(log) + 1 + (IF Arena!Over' THEN 1 ELSE 0)
<1>1. /\ Arena!Running /\ standing # {} /\ ~Arena!Over
      /\ log \in Seq(Entries) /\ Len(log) \in Nat \ {0}
  BY DEF Arena!Claim, Arena!Fall, Arena!Running, RangeInv, LogInv
<1> DEFINE e == IF Arena!Claim(i) THEN Arena!Entry("PIXEL", i)
                                  ELSE Arena!Entry("PLAYER_ELIMINATED", i)
           more == Append(log, e)
           end == Arena!Entry("GAME_OVER", Arena!Nobody)
<1>2. /\ e \in Entries /\ e.type # "NEW_GAME" /\ end \in Entries /\ end.type # "NEW_GAME"
  BY DEF Arena!Entry, Arena!Nobody, Entries
<1> HIDE DEF e, end
<1>3. /\ more \in Seq(Entries) /\ Len(more) = Len(log) + 1 /\ more[Len(log) + 1] = e
      /\ \A n \in 1..Len(log) : more[n] = log[n]
  BY <1>1, <1>2
<1>4. \A n \in 2..Len(more) : more[n].type # "NEW_GAME"
  <2>1. \A n \in 2..Len(more) : n \in 2..Len(log) \/ n = Len(log) + 1
    BY <1>1, <1>3
  <2>2. \A n \in 2..Len(log) : n \in 1..Len(log)
    BY <1>1
  <2> QED
    BY <1>2, <1>3, <2>1, <2>2 DEF RangeInv
<1> HIDE DEF more
<1>5. \/ log' = more /\ ~Arena!Over'
      \/ log' = more \o <<end>> /\ Arena!Over'
  <2>1. CASE Arena!Claim(i)
    BY <1>1, <2>1 DEF Arena!Claim, Arena!Over, more, e
  <2>2. CASE ~Arena!Claim(i)
    <3>1. /\ log' = more \o (IF Cardinality(standing') = 1 THEN <<end>> ELSE <<>>)
          /\ Arena!Over' <=> Cardinality(standing') = 1
      BY <2>2, OneCardinality DEF Arena!Fall, Arena!Over, more, e, end
    <3>2. more \o <<>> = more
      BY <1>3
    <3> QED
      BY <3>1, <3>2
  <2> QED
    BY <2>1, <2>2
<1>6. CASE log' = more /\ ~Arena!Over'
  BY <1>1, <1>3, <1>4, <1>6
<1>7. CASE log' = more \o <<end>> /\ Arena!Over'
  <2>1. /\ Len(log') = Len(more) + 1 /\ log'[Len(more) + 1] = end
        /\ \A n \in 1..Len(more) : log'[n] = more[n]
    BY <1>2, <1>3, <1>7
  <2>2. \A n \in 2..Len(log') : log'[n].type # "NEW_GAME"
    <3>1. \A n \in 2..Len(log') : (n \in 2..Len(more) /\ n \in 1..Len(more)) \/ n = Len(more) + 1
      BY <1>1, <1>3, <2>1
    <3> QED
      BY <1>2, <1>4, <2>1, <3>1
  <2>3. log' # <<>>
    BY <1>1, <1>3, <2>1
  <2> QED
    BY <1>1, <1>3, <1>7, <2>1, <2>2, <2>3
<1> QED
  BY <1>5, <1>6, <1>7

LEMMA RangeStep ==
  /\ Players!CrowdInv /\ LoopInv /\ LogInv /\ AnnounceInv /\ RangeInv /\ [ServerNext]_vars
  => RangeInv'
<1> SUFFICES ASSUME Players!CrowdInv, LoopInv, LogInv, AnnounceInv, RangeInv,
                    [ServerNext]_vars
             PROVE  RangeInv'
  OBVIOUS
<1>1. Len(log) \in Nat /\ i \in Nat /\ MaxPlayers \in Nat
  BY LobbyParameters DEF LogInv, LoopInv, Lobby!LobbyAssumption
<1>2. i \in DOMAIN turns => i + 1 <= MaxPlayers
  <2>1. PICK n \in 0..MaxPlayers : DOMAIN turns = 0..(n - 1)
    BY DEF Players!CrowdInv
  <2> QED
    BY <1>1, <2>1
<1>3. ASSUME UNCHANGED arena, worker' # "round" PROVE RangeInv'
  BY <1>3 DEF RangeInv, arena
<1>4. ASSUME UNCHANGED <<arena, worker, i, first_inserted>> PROVE RangeInv'
  BY <1>4 DEF RangeInv, arena, Arena!Over
<1>5. CASE StartRound
  BY <1>1, <1>5 DEF StartRound, RangeInv, arena
<1>6. CASE PassWorm
  <2>1. /\ worker = "round" /\ i' = i + 1 /\ i + 1 <= MaxPlayers /\ ~Arena!Over
        /\ UNCHANGED <<arena, worker, first_inserted>>
    BY <1>2, <1>6 DEF PassWorm
  <2>2. Arena!Over' <=> Arena!Over
    BY <2>1 DEF arena, Arena!Over
  <2>3. first_inserted # None => Len(log') - first_inserted' <= i'
    <3> SUFFICES ASSUME first_inserted # None PROVE Len(log) - first_inserted <= i + 1
      BY <2>1 DEF arena
    <3>1. first_inserted \in Nat /\ Len(log) - first_inserted <= i
      BY <1>1, <2>1 DEF RangeInv, AnnounceInv
    <3> QED
      BY <1>1, <3>1
  <2> QED
    BY <2>1, <2>2, <2>3 DEF RangeInv, arena
<1>7. CASE RoundMove
  <2>1. /\ worker = "round" /\ worker' = "round" /\ i' = i + 1 /\ i + 1 <= MaxPlayers
        /\ Arena!Claim(i) \/ Arena!Fall(i)
        /\ first_inserted' = IF first_inserted = None THEN Len(log) ELSE first_inserted
    BY <1>2, <1>7 DEF RoundMove
  <2>2. /\ \A n \in 2..Len(log') : log'[n].type # "NEW_GAME"
        /\ ~Arena!Over /\ Len(log) \in Nat \ {0} /\ log' # <<>>
        /\ Len(log') = Len(log) + 1 + (IF Arena!Over' THEN 1 ELSE 0)
    BY <1>1, <2>1, OneEventEach
  <2>3. first_inserted' \in Nat /\ first_inserted' >= 1 /\ Len(log) - first_inserted' <= i
    <3>1. CASE first_inserted = None
      BY <1>1, <2>1, <2>2, <3>1
    <3>2. CASE first_inserted # None
      <4>1. /\ first_inserted \in Nat /\ first_inserted >= 1
            /\ Len(log) - first_inserted <= i + (IF Arena!Over THEN 1 ELSE 0)
        BY <2>1, <3>2 DEF RangeInv, AnnounceInv
      <4> QED
        BY <1>1, <2>1, <2>2, <3>2, <4>1
    <3> QED
      BY <3>1, <3>2
  <2>4. Len(log') - first_inserted' <= i' + (IF Arena!Over' THEN 1 ELSE 0)
    BY <1>1, <2>1, <2>2, <2>3
  <2> QED
    BY <2>1, <2>2, <2>3, <2>4 DEF RangeInv
<1>8. CASE FinishRound
  BY <1>3, <1>8 DEF FinishRound
<1>9. CASE StartRefresh
  <2>1. log' = <<Arena!Entry("NEW_GAME", Arena!Nobody)>> /\ worker' = "refresh"
    BY <1>9 DEF StartRefresh, Arena!Begin
  <2>2. log' # <<>> /\ Len(log') = 1
    BY <2>1
  <2> QED
    BY <2>1, <2>2 DEF RangeInv
<1>10. CASE Spawn
  <2>1. worker' = "refresh" /\ (Arena!Claim(i) \/ Arena!Fall(i))
    BY <1>10 DEF Spawn
  <2> QED
    BY <1>1, <2>1, OneEventEach DEF RangeInv
<1>11. CASE FinishRefresh
  BY <1>3, <1>11 DEF FinishRefresh
<1>12. CASE GameOver \/ CheckForIdleClients \/ Abort \/ NothingReceived
  BY <1>4, <1>12 DEF GameOver, CheckForIdleClients, Abort, NothingReceived, loop
<1>13. CASE \E a \in Addrs : Expire(a)
  BY <1>4, <1>13 DEF Expire, loop
<1>14. CASE \E outcome \in Outbox!Outcomes : Send(outcome)
  BY <1>4, <1>14 DEF Send, loop
<1>15. CASE \E client \in Clients, turn \in TurnValues, ev_no \in AskFrom :
              Receive(Message(client, turn), ev_no)
  BY <1>4, <1>15 DEF Receive, loop
<1>16. CASE UNCHANGED vars
  BY <1>4, <1>16 DEF vars, loop
<1> QED
  BY <1>5, <1>6, <1>7, <1>8, <1>9, <1>10, <1>11, <1>12, <1>13, <1>14, <1>15, <1>16
     DEF ServerNext

-----------------------------------------------------------------------------
(* The queue of the server. *)

MessagesInv ==
  /\ q \in Seq(Queue!Messages)
  /\ \A n \in 1..Len(q) : Len(q[n].to) > 1 => q[n].ev_no = q[n].start /\ Queue!Short(q[n])

LEMMA SizesAre ==
  ASSUME LogInv, RangeInv
  PROVE  /\ Sizes \in Seq(Nat) /\ Len(Sizes) = Len(log) /\ Len(log) \in Nat
         /\ Queue!SmallEvents
<1>1. log \in Seq(Entries) /\ Len(log) \in Nat
  BY DEF LogInv
<1>2. \A n \in 1..Len(log) : log[n].type \in EventTypes
  <2>1. \A n \in 1..Len(log) : log[n] \in Entries
    BY <1>1
  <2>2. \A entry \in Entries : entry.type \in EventTypes
    BY DEF Entries, EventTypes
  <2> QED
    BY <2>1, <2>2
<1>3. \A n \in 1..Len(log) : EventSize[log[n].type] \in Nat
  BY <1>2, DatagramAssumption
<1>4. Sizes \in Seq(Nat) /\ Len(Sizes) = Len(log)
  BY <1>1, <1>3 DEF Sizes
<1>5. ASSUME NEW n \in 2..Len(log) PROVE Sizes[n] <= EventSize["PIXEL"]
  <2>1. n \in 1..Len(log) /\ log[n].type # "NEW_GAME"
    BY <1>1 DEF RangeInv
  <2>2. Sizes[n] = EventSize[log[n].type]
    BY <2>1 DEF Sizes
  <2> QED
    BY <1>2, <2>1, <2>2, DatagramAssumption
<1> QED
  BY <1>1, <1>4, <1>5 DEF Queue!SmallEvents

LEMMA ConnectedAre ==
  ASSUME Players!CrowdInv, Players!LobbyTypeOK
  PROVE  Connected \in SUBSET Keys /\ Queue!IsFiniteSet(Connected)
<1>1. \A a \in DOMAIN clients : a \in Addrs /\ clients[a].id \in Lobby!Ids
  BY DEF Players!LobbyTypeOK, Players!Client, Players!Ids, Lobby!Ids
<1>2. IsFiniteSet(DOMAIN clients)
  BY DEF Players!CrowdInv, Players!IsFiniteSet, IsFiniteSet
<1>3. Connected = {KeyNo(a, clients[a].id) : a \in DOMAIN clients}
  BY DEF Connected
<1>4. IsFiniteSet(Connected)
  <2> DEFINE f == [a \in DOMAIN clients |-> KeyNo(a, clients[a].id)]
  <2>1. f \in Surjection(DOMAIN clients, Connected)
    BY <1>3 DEF Surjection
  <2> QED
    BY <1>2, <2>1, FS_Surjection
<1>5. Queue!IsFiniteSet(Connected)
  BY <1>4 DEF Queue!IsFiniteSet, IsFiniteSet
<1>6. \A a \in DOMAIN clients : KeyNo(a, clients[a].id) \in Keys
  BY <1>1, KeysAre
<1> QED
  BY <1>3, <1>5, <1>6

LEMMA QueueIs ==
  ASSUME Players!CrowdInv, Players!LobbyTypeOK, LogInv, RangeInv, MessagesInv
  PROVE  Queue!QueueInv
  BY SizesAre, ConnectedAre DEF MessagesInv, Queue!QueueInv, Keys

LEMMA MessagesStep ==
  /\ Players!CrowdInv /\ Players!LobbyTypeOK /\ LoopInv /\ LogInv /\ AnnounceInv
  /\ RangeInv /\ MessagesInv /\ [ServerNext]_vars
  => MessagesInv'
<1> SUFFICES ASSUME Players!CrowdInv, Players!LobbyTypeOK, LoopInv, LogInv, AnnounceInv,
                    RangeInv, MessagesInv, [ServerNext]_vars
             PROVE  MessagesInv'
  OBVIOUS
<1>1. Queue!QueueInv /\ Len(log) \in Nat
  BY QueueIs, SizesAre
<1>2. ASSUME UNCHANGED q PROVE MessagesInv'
  BY <1>2 DEF MessagesInv, Queue!Short, Queue!Messages, Queue!ToTheEnd
<1>3. ASSUME NEW start \in Nat, NEW end \in Nat, Outbox!AddBroadcast(start, end),
             end > start => start > 0 /\ Header + (end - start) * EventSize["PIXEL"] <= Cap
      PROVE  MessagesInv'
  <2> DEFINE m == Queue!Message(Queue!Pushed(Connected), start, end)
  <2>1. q' = Append(q, m)
    BY <1>3, SameQueue DEF Queue!AddBroadcast
  <2>2. m \in Queue!Messages /\ m.ev_no = m.start /\ Queue!Short(m)
    BY <1>1, <1>3, QueueParameters, Queue!BroadcastIs
  <2> HIDE DEF m
  <2> QED
    BY <1>1, <2>1, <2>2, QueueParameters, Queue!QueueAfterAppend DEF MessagesInv
<1>4. CASE FinishRound
  <2>1. CASE ~(first_inserted >= 0)
    BY <1>2, <1>4, <2>1 DEF FinishRound
  <2>2. CASE first_inserted >= 0
    <3>1. /\ worker = "round" /\ Outbox!AddBroadcast(first_inserted, Len(log))
      BY <1>4, <2>2 DEF FinishRound, BroadcastFrom
    <3>2. first_inserted \in Nat /\ first_inserted # None
      BY <2>2 DEF AnnounceInv, None
    <3>3. /\ i \in Nat /\ i <= MaxPlayers /\ first_inserted >= 1
          /\ Len(log) - first_inserted <= i + (IF Arena!Over THEN 1 ELSE 0)
      BY <3>1, <3>2 DEF RangeInv, LoopInv
    <3>4. /\ MaxPlayers \in Nat /\ EventSize["PIXEL"] \in Nat /\ Header \in Nat /\ Cap \in Nat
          /\ Header + (MaxPlayers + 1) * EventSize["PIXEL"] <= Cap
      BY DatagramAssumption, LobbyParameters DEF Lobby!LobbyAssumption, EventTypes
    <3>5. ASSUME Len(log) > first_inserted
          PROVE  Header + (Len(log) - first_inserted) * EventSize["PIXEL"] <= Cap
      <4> DEFINE s == EventSize["PIXEL"]
                 n == Len(log) - first_inserted
                 most == MaxPlayers + 1
      <4>1. n \in Nat /\ most \in Nat /\ n <= most /\ s \in Nat /\ Header + most * s <= Cap
        BY <1>1, <3>2, <3>3, <3>4, <3>5
      <4> HIDE DEF s, n, most
      <4>2. n * s <= most * s /\ n * s \in Nat /\ most * s \in Nat
        BY <4>1
      <4>3. Header + n * s <= Cap
        BY <3>4, <4>1, <4>2
      <4> QED
        BY <4>3 DEF n, s
    <3>6. Len(log) > first_inserted => first_inserted > 0
      BY <3>2, <3>3
    <3> QED
      BY <1>1, <1>3, <3>1, <3>2, <3>5, <3>6
  <2> QED
    BY <2>1, <2>2
<1>5. CASE FinishRefresh
  <2>1. Outbox!AddBroadcast(Len(log), Len(log)) /\ ~(Len(log) > Len(log))
    BY <1>1, <1>5 DEF FinishRefresh
  <2> QED
    BY <1>1, <1>3, <2>1
<1>6. ASSUME NEW outcome \in Outbox!Outcomes, Send(outcome) PROVE MessagesInv'
  <2>1. Queue!Send(outcome) /\ UNCHANGED <<log, clients>>
    BY <1>6, SameQueue DEF Send, arena, lobby
  <2>2. UNCHANGED <<Sizes, Connected, FALSE>>
    BY <2>1 DEF Sizes, Connected
  <2>3. Queue!QueueInv'
    BY <1>1, <2>1, <2>2, QueueParameters, Queue!QueueKeptBySend
  <2> QED
    BY <2>3 DEF Queue!QueueInv, MessagesInv
<1>7. ASSUME NEW client \in Clients, NEW turn \in TurnValues, NEW ev_no \in AskFrom,
             Receive(Message(client, turn), ev_no)
      PROVE  MessagesInv'
  <2> DEFINE c == KeyNo(client.addr, client.id)
             m == Queue!Message(<<c>>, ev_no, Queue!ToTheEnd)
  <2>1. UNCHANGED q \/ q' = Append(q, m)
    BY <1>7, SameQueue DEF Receive, Reply, Message, Queue!AddMsg
  <2>2. c \in Keys /\ ev_no \in Nat
    <3>1. client.addr \in Addrs /\ client.id \in Lobby!Ids
      <4>1. client.addr \in Addrs /\ [id |-> client.id, name |-> client.name] \in Sessions
        BY ServerAssumption
      <4> QED
        BY <4>1 DEF Lobby!Ids
    <3>2. c \in Keys
      BY <3>1, KeysAre
    <3> QED
      BY <3>2, DatagramAssumption
  <2> HIDE DEF c
  <2>3. <<c>> \in Seq(Keys) /\ Len(<<c>>) = 1
    BY <2>2
  <2>4. m \in Queue!Messages /\ m.to = <<c>>
    BY <2>2, <2>3 DEF Queue!Message, Queue!Messages, Keys
  <2> HIDE DEF m
  <2>5. ~(Len(m.to) > 1)
    BY <2>3, <2>4
  <2>6. CASE q' = Append(q, m)
    <3>1. q \in Seq(Queue!Messages) /\ Len(q) \in Nat
      BY DEF MessagesInv
    <3>2. /\ q' \in Seq(Queue!Messages) /\ Len(q') = Len(q) + 1 /\ q'[Len(q) + 1] = m
          /\ \A n \in 1..Len(q) : q'[n] = q[n]
      BY <2>4, <2>6, <3>1
    <3>3. ASSUME NEW n \in 1..Len(q'), Len(q'[n].to) > 1
          PROVE  q'[n].ev_no = q'[n].start /\ Queue!Short(q'[n])
      <4>1. n \in 1..Len(q) /\ q'[n] = q[n]
        BY <2>5, <3>1, <3>2, <3>3
      <4> QED
        BY <3>3, <4>1 DEF MessagesInv
    <3> QED
      BY <3>2, <3>3 DEF MessagesInv, Queue!Short, Queue!ToTheEnd, Queue!Messages
  <2> QED
    BY <1>2, <2>1, <2>6
<1>8. CASE StartRound \/ PassWorm \/ RoundMove \/ StartRefresh \/ Spawn \/ GameOver
  BY <1>2, <1>8 DEF StartRound, PassWorm, RoundMove, StartRefresh, Spawn, GameOver
<1>9. CASE CheckForIdleClients \/ Abort \/ NothingReceived \/ UNCHANGED vars
  BY <1>2, <1>9 DEF CheckForIdleClients, Abort, NothingReceived, vars
<1>10. CASE \E a \in Addrs : Expire(a)
  BY <1>2, <1>10 DEF Expire
<1> QED
  BY <1>4, <1>5, <1>6, <1>7, <1>8, <1>9, <1>10 DEF ServerNext

\* In the server, too, no broadcast is ever left in its middle: a round makes at
\* most one event for every worm and GAME_OVER, which fit in one datagram.
THEOREM BroadcastsStayWhole == ServerSpec => []BroadcastsWhole
<1>1. ServerInit => RangeInv /\ MessagesInv
  <2> SUFFICES ASSUME ServerInit PROVE RangeInv /\ MessagesInv
    OBVIOUS
  <2>1. q = <<>> /\ log = <<>> /\ standing = {} /\ worker = "none" /\ Len(<<>>) = 0
    BY DEF ServerInit, Arena!ArenaInit
  <2> QED
    BY <2>1 DEF RangeInv, MessagesInv
<1>2. MessagesInv => BroadcastsWhole
  BY DEF MessagesInv, BroadcastsWhole
<1>3. ServerSpec => [](Players!CrowdInv /\ Players!LobbyTypeOK)
  BY ServerIsALobby, Players!CrowdAlways, Players!LobbyTypeCorrect, PlayersParameters, PTL
<1>4. ServerSpec => [](LoopInv /\ LogInv /\ AnnounceInv)
  BY AnnounceInit, AnnounceStep, LoopAlways, PTL DEF ServerSpec
<1> QED
  BY <1>1, <1>2, <1>3, <1>4, RangeStep, MessagesStep, PTL DEF ServerSpec
=============================================================================
