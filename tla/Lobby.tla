-------------------------------- MODULE Lobby --------------------------------
(***************************************************************************)
(* Who is connected, who is ready, and who steers which worm: the maps     *)
(* clients and names of server::server_t (src/server/server.cpp), the set  *)
(* ready of wait_for_start(), and the two poll loops that take turns,      *)
(* wait_for_start() and play_game().                                       *)
(*                                                                         *)
(* The game is seen from outside: at some round, or as soon as it begins,  *)
(* it is over.  Sending is left to Outbox and Server.                      *)
(*                                                                         *)
(* A client's deadline is abstracted to whether it has passed; time may    *)
(* pass it at any moment.  A player's name is its rank in the alphabet.    *)
(***************************************************************************)
EXTENDS Integers, FiniteSets, Functions

CONSTANTS
  Addrs,            \* socket addresses of clients
  Names,            \* players' names, as numbers in alphabetical order
  Sessions,         \* session ids and the names they go with: [id, name]
  TurnValues,       \* turn directions clients send
  MaxPlayers        \* MAX_PLAYERS_NUM

NoName == 0         \* the empty name of an observer
STRAIGHT == 0
NAMES_DEFAULT == -1

ASSUME NamesAssumption == Names \subseteq Nat \ {NoName} /\ IsFiniteSet(Names)
ASSUME SessionsAssumption == Sessions \subseteq [id : Nat, name : Names \cup {NoName}]
ASSUME TurnsAssumption == TurnValues \subseteq 0..2
ASSUME LobbyAssumption == MaxPlayers \in Nat \ {0, 1}

VARIABLES
  clients,          \* by address: [id, name, late]; late: past its deadline
  names,            \* by name: last turn direction, or worm index in a game
  ready,            \* names of ready players (empty during a game)
  phase,            \* "wait" or "play": the loop that runs
  stage,            \* what the iteration has done: "test" (nothing yet: the
                    \* loop's condition comes next), "idle" or "round"
  over,             \* game.finished()
  turns,            \* last_turn of every worm of the game
  seat,             \* auxiliary: who held the name of worm k at the start
  pressed           \* auxiliary: addresses of the clients that turned since
                    \* they joined and since the last game

lobbyVars == <<clients, names, ready, phase, stage, over, turns, seat, pressed>>

Ids == {s.id : s \in Sessions}
Key == [addr : Addrs, id : Ids, name : Names \cup {NoName}]
KeyOf(a) == [addr |-> a, id |-> clients[a].id, name |-> clients[a].name]

Messages ==
  {[addr |-> a, id |-> s.id, name |-> s.name, turn |-> t] :
     a \in Addrs, s \in Sessions, t \in TurnValues}

Sender(m) == [addr |-> m.addr, id |-> m.id, name |-> m.name]

-----------------------------------------------------------------------------
(* receive(): what a message does to clients and names. *)

KnowsAddr(m) == m.addr \in DOMAIN clients
KnowsName(m) == m.name \in DOMAIN names
Old(m) == clients[m.addr]

\* Same session, other name: the client is removed.
Renamed(m) == KnowsAddr(m) /\ Old(m).id = m.id /\ m.name # Old(m).name

\* must_add, before the number of players is looked at.
Joins(m) == ~KnowsName(m) /\ (KnowsAddr(m) => Old(m).id < m.id)

Removes(m) == KnowsAddr(m) /\ (Joins(m) \/ Renamed(m))

Without(f, S) == Restrict(f, DOMAIN f \ S)

\* Faulty variant: the name of a removed client stays.
NamesLeftStale(m) == names

NamesLeft(m) == IF Removes(m) THEN Without(names, {Old(m).name}) ELSE names

\* Faulty variant: one player too many.
FullTooLate(m) == m.name # NoName /\ Cardinality(DOMAIN NamesLeft(m)) > MaxPlayers

Full(m) == m.name # NoName /\ Cardinality(DOMAIN NamesLeft(m)) = MaxPlayers
Adds(m) == Joins(m) /\ ~Full(m)

\* Faulty variant: a stranger may use a name that is taken.
IgnoredButStrangers(m) ==
  KnowsAddr(m) /\ (Old(m).id > m.id \/ Renamed(m) \/ (Old(m).id < m.id /\ KnowsName(m)))

Ignored(m) ==
  \/ ~KnowsAddr(m) /\ KnowsName(m)
  \/ KnowsAddr(m) /\ Old(m).id > m.id
  \/ Renamed(m)
  \/ KnowsAddr(m) /\ Old(m).id < m.id /\ KnowsName(m)
  \/ Joins(m) /\ Full(m)

Put(f, x, y) == [z \in DOMAIN f \cup {x} |-> IF z = x THEN y ELSE f[z]]

ClientsAfter(m) ==
  CASE ~Ignored(m) ->
         Put(clients, m.addr, [id |-> m.id, name |-> m.name, late |-> FALSE])
    [] Ignored(m) /\ Removes(m) -> Without(clients, {m.addr})
    [] OTHER -> clients

\* Faulty variant: a new name is given the value 0.
NamesAfterZero(m) ==
  IF Adds(m) /\ m.name # NoName THEN Put(NamesLeft(m), m.name, 0) ELSE NamesLeft(m)

NamesAfter(m) ==
  IF Adds(m) /\ m.name # NoName THEN Put(NamesLeft(m), m.name, NAMES_DEFAULT)
                                ELSE NamesLeft(m)

-----------------------------------------------------------------------------
(* The loops.  An iteration checks the timers first, then the socket; the  *)
(* condition is tested between two iterations only.                        *)

\* wait_for_start() compares sizes, not sets.
CanStart == Cardinality(ready) >= 2 /\ Cardinality(DOMAIN names) = Cardinality(ready)

LoopGoesOn == IF phase = "wait" THEN ~CanStart ELSE ~over

InIteration == stage # "test" \/ LoopGoesOn

LobbyInit ==
  /\ clients = <<>> /\ names = <<>> /\ ready = {}
  /\ phase = "wait" /\ stage = "test" /\ over = FALSE
  /\ turns = <<>> /\ seat = <<>> /\ pressed = {}

\* A client's deadline passes.
Expire(a) ==
  /\ a \in DOMAIN clients /\ ~clients[a].late
  /\ clients' = [clients EXCEPT ![a].late = TRUE]
  /\ UNCHANGED <<names, ready, phase, stage, over, turns, seat, pressed>>

\* check_for_idle_clients(), both versions: during a game ready is empty.
CheckForIdleClients ==
  /\ stage = "test" /\ LoopGoesOn
  /\ stage' = "idle"
  /\ LET late == {a \in DOMAIN clients : clients[a].late}
         gone == {clients[a].name : a \in late}
     IN  /\ clients' = Without(clients, late) /\ pressed' = pressed \ late
         /\ names' = Without(names, gone)
         /\ ready' = ready \ gone
  /\ UNCHANGED <<phase, over, turns, seat>>

\* update_game(), seen from here: the round may be the last one.
UpdateGame ==
  /\ phase = "play" /\ stage \in {"test", "idle"} /\ InIteration
  /\ stage' = "round"
  /\ over' \in BOOLEAN
  /\ UNCHANGED <<clients, names, ready, phase, turns, seat, pressed>>

\* Faulty variants: a removed client stays ready; the turn is not recorded.
ReadyLeftStale(m) == ready
NamesWaitingUnset(m) == NamesAfter(m)

NamesWaiting(m) ==
  IF Ignored(m) \/ m.name = NoName THEN NamesAfter(m)
                                   ELSE Put(NamesAfter(m), m.name, m.turn)

ReadyLeft(m) == IF Removes(m) THEN ready \ {Old(m).name} ELSE ready

WaitReceive(m) ==
  /\ phase = "wait" /\ InIteration
  /\ stage' = "test"
  /\ clients' = ClientsAfter(m)
  /\ names' = NamesWaiting(m)
  /\ ready' = ReadyLeft(m) \cup
                {s \in {m.name} : ~Ignored(m) /\ s # NoName /\ m.turn # STRAIGHT}
  /\ pressed' = (IF Removes(m) THEN pressed \ {m.addr} ELSE pressed) \cup
                  {a \in {m.addr} : ~Ignored(m) /\ m.turn # STRAIGHT}
  /\ UNCHANGED <<phase, over, turns, seat>>

\* A message moves a worm's steering only if its client was known and holds a
\* name that is playing.
Steers(m) ==
  /\ ~Ignored(m) /\ ~Adds(m)
  /\ m.name \in DOMAIN names /\ names[m.name] # NAMES_DEFAULT
  /\ ~over

RunReceive(m) ==
  /\ phase = "play" /\ InIteration
  /\ stage' = "test"
  /\ clients' = ClientsAfter(m) /\ names' = NamesAfter(m)
  /\ turns' = IF Steers(m) THEN [turns EXCEPT ![names[m.name]] = m.turn] ELSE turns
  /\ UNCHANGED <<ready, phase, over, seat, pressed>>

\* An iteration in which no datagram was received.
NothingReceived ==
  /\ stage # "test" /\ stage' = "test"
  /\ UNCHANGED <<clients, names, ready, phase, over, turns, seat, pressed>>

-----------------------------------------------------------------------------
(* game_ready() and game_over(), between the loops. *)

Rank(s) == Cardinality({t \in DOMAIN names : t < s})
Ranked(k) == CHOOSE s \in DOMAIN names : Rank(s) = k
Holder(s) == CHOOSE a \in DOMAIN clients : clients[a].name = s

GameReady ==
  /\ phase = "wait" /\ stage = "test" /\ CanStart
  /\ phase' = "play"
  /\ names' = [s \in DOMAIN names |-> Rank(s)]
  /\ LET indices == 0..(Cardinality(DOMAIN names) - 1)
     IN  /\ turns' = [k \in indices |-> names[Ranked(k)]]
         /\ seat' = [k \in indices |-> KeyOf(Holder(Ranked(k)))]
  /\ ready' = {} /\ pressed' = {}
  /\ over' \in BOOLEAN
  /\ UNCHANGED <<clients, stage>>

\* The worms stay in the game object, but nothing looks at them again.
GameOver ==
  /\ phase = "play" /\ stage = "test" /\ over
  /\ phase' = "wait"
  /\ names' = [s \in DOMAIN names |-> NAMES_DEFAULT]
  /\ turns' = <<>> /\ seat' = <<>>
  /\ UNCHANGED <<clients, ready, stage, over, pressed>>

-----------------------------------------------------------------------------

LobbyNext ==
  \/ \E a \in Addrs : Expire(a)
  \/ CheckForIdleClients
  \/ UpdateGame
  \/ \E m \in Messages : WaitReceive(m) \/ RunReceive(m)
  \/ NothingReceived
  \/ GameReady
  \/ GameOver

LobbySpec == LobbyInit /\ [][LobbyNext]_lobbyVars

-----------------------------------------------------------------------------
(* Properties. *)

Client == [id : Ids, name : Names \cup {NoName}, late : BOOLEAN]

\* Every variable keeps its type; in particular the directions a game starts
\* with are turn directions, although names holds other values at times.
LobbyTypeOK ==
  /\ DOMAIN clients \subseteq Addrs
  /\ \A a \in DOMAIN clients : clients[a] \in Client
  /\ DOMAIN names \subseteq Names
  /\ \A s \in DOMAIN names : names[s] \in Int
  /\ ready \subseteq Names
  /\ phase \in {"wait", "play"}
  /\ stage \in {"test", "idle", "round"}
  /\ over \in BOOLEAN
  /\ \A k \in DOMAIN turns : turns[k] \in TurnValues
  /\ \A k \in DOMAIN seat : seat[k] \in Key
  /\ pressed \subseteq Addrs

\* The map names, kept by hand next to clients, holds exactly the names of the
\* connected players, and no two clients share one.
NamesMatchClients ==
  /\ DOMAIN names = {clients[a].name : a \in DOMAIN clients} \ {NoName}
  /\ \A a, b \in DOMAIN clients :
       clients[a].name = clients[b].name /\ a # b => clients[a].name = NoName

\* README: "A game server cannot handle more than 25 players simultaneously."
AtMostMaxPlayers == Cardinality(DOMAIN names) <= MaxPlayers

\* Although the loop only compares two sizes, a game starts exactly when there
\* are at least two players and every player connected at that moment has
\* turned since it joined and since the last game: nobody is ready by what a
\* client that left, or was replaced, has sent.
StartsWhenAllReady ==
  LET players == {a \in DOMAIN clients : clients[a].name # NoName}
  IN  phase = "wait" =>
        (CanStart <=> Cardinality(players) >= 2 /\ players \subseteq pressed)

\* During a game a worm turns only by a message of the very client that held
\* its name when the game started, connected without a break since.
OnlyOwnerSteers ==
  [][phase = "play" /\ phase' = "play" =>
       \A k \in DOMAIN turns : turns'[k] # turns[k] =>
         \E m \in Messages : RunReceive(m) /\ Sender(m) = seat[k]]_lobbyVars

\* What is recorded of a connected client: its registration, its readiness
\* and the value under its name.
Recorded(b) ==
  <<clients[b], clients[b].name \in ready,
    IF clients[b].name = NoName THEN NAMES_DEFAULT ELSE names[clients[b].name]>>

\* Within a loop, timers apart, nothing recorded of a client changes but by a
\* message of its own.  README: "Additional players above the limit cannot
\* disturb players who already joined."
NoInterference ==
  [][phase' = phase /\ stage' # "idle" =>
       \A b \in DOMAIN clients :
         (b \in DOMAIN clients' => Recorded(b)' # Recorded(b)) =>
           \/ Expire(b)
           \/ \E m \in Messages : m.addr = b /\ (WaitReceive(m) \/ RunReceive(m))]_lobbyVars
=============================================================================
