------------------------------- MODULE Server -------------------------------
(***************************************************************************)
(* The server: its players (Lobby), its game (Arena, which Game is shown   *)
(* to implement) and its queue (Outbox), put together by the two poll      *)
(* loops of src/server/server.cpp.                                         *)
(*                                                                         *)
(* One iteration of a loop does, in this order and each only if poll()     *)
(* said so: the idle check, in a game a round, one call of send(), one     *)
(* call of receive().  A round and refresh() run player by player; nothing *)
(* else happens meanwhile.                                                 *)
(***************************************************************************)
EXTENDS Integers, Sequences, FiniteSets

CONSTANTS
  Addrs, Names, Sessions, TurnValues, MaxPlayers,   \* see Lobby
  Header, Cap,                                      \* see Outbox
  EventSize,        \* by event type: event_t::size()
  Clients,          \* what clients send: [addr, id, name], one per client
  Silent,           \* bound: addresses whose deadline may pass
  AskFrom,          \* bound: values of next_expected_event_no
  MaxEvents,        \* bound: events of a game
  MaxQueue,         \* bound: messages in the queue
  MaxGames          \* bound: games begun

ASSUME ServerAssumption ==
  /\ Addrs \subseteq Nat /\ Silent \subseteq Addrs
  /\ \A c \in Clients : c.addr \in Addrs /\ [id |-> c.id, name |-> c.name] \in Sessions

EventTypes == {"NEW_GAME", "PIXEL", "PLAYER_ELIMINATED", "GAME_OVER"}

\* Of the events besides NEW_GAME a PIXEL is the largest, and a datagram takes
\* one for every worm and another.  (In the code a PIXEL is 18 bytes long, by
\* event_t::size(), and 26 * 18 + 4 <= 550.)
ASSUME DatagramAssumption ==
  /\ AskFrom \subseteq Nat /\ Header \in Nat /\ Cap \in Nat /\ Header < Cap
  /\ EventSize \in [EventTypes -> Nat]
  /\ \A type \in EventTypes \ {"NEW_GAME"} : EventSize[type] <= EventSize["PIXEL"]
  /\ Header + (MaxPlayers + 1) * EventSize["PIXEL"] <= Cap

VARIABLES
  clients, names, ready, phase, stage, over, turns, seat, pressed, \* Lobby
  standing, log,                                                   \* Arena
  q,                                                               \* Outbox
  worker,           \* "none", or the loop over the players that runs
  i,                \* that loop's index
  first_inserted,   \* update_game()'s ind
  sent,             \* send() was called in this iteration
  pollout,          \* POLLOUT is among the events polled
  aborted,          \* the assertion in from_server_t::send() has failed
  announced,        \* auxiliary: events of this game that were broadcast
  opening,          \* auxiliary: how many events of this game refresh() made
  games             \* games begun (for MaxGames)

lobby == <<clients, names, ready, phase, stage, over, turns, seat, pressed>>
arena == <<standing, log>>
loop == <<worker, i, first_inserted>>
poll == <<sent, pollout, aborted>>
aux == <<announced, opening, games>>
vars == <<lobby, arena, q, loop, poll, aux>>

None == -1

Arena == INSTANCE Arena
Lobby == INSTANCE Lobby

ASSUME LobbyParameters ==
  /\ Lobby!NamesAssumption /\ Lobby!SessionsAssumption
  /\ Lobby!TurnsAssumption /\ Lobby!LobbyAssumption

\* A client key as a number, in the order of the map clients.
KeyNo(a, id) == a * 10 + id
Connected == {KeyNo(a, clients[a].id) : a \in DOMAIN clients}
Sizes == [n \in 1..Len(log) |-> EventSize[log[n].type]]
Outbox == INSTANCE Outbox WITH hist <- Sizes, connected <- Connected,
                               Clients <- {KeyNo(a, id) : a \in Addrs, id \in Lobby!Ids}

ServerInit ==
  /\ Lobby!LobbyInit /\ Arena!ArenaInit /\ q = <<>>
  /\ worker = "none" /\ i = 0 /\ first_inserted = None
  /\ sent = FALSE /\ pollout = FALSE /\ aborted = FALSE
  /\ announced = {} /\ opening = 0 /\ games = 0

AtWork == worker # "none"
Idle == ~AtWork /\ ~aborted

WasPlayed == log # <<>>

\* Faulty variant: the loop ends with two players left.
DoneEarly == Cardinality(standing) <= 2

Done == Arena!Over

\* Faulty variant: a wait for the next game does not send the rest.
PollsOutInGame == phase' = "play" /\ q' # <<>>

\* The events to poll for are computed when an iteration ends, and when
\* wait_for_start() begins.
PollsOut == (phase' = "play" \/ WasPlayed') /\ q' # <<>>

-----------------------------------------------------------------------------
(* update_game(), and move_worm() for one player after the other. *)

StartRound ==
  /\ Idle /\ ~sent
  /\ phase = "play" /\ stage \in {"test", "idle"} /\ Lobby!InIteration
  /\ Len(log) + Cardinality(standing) + 1 <= MaxEvents /\ Len(q) < MaxQueue
  /\ worker' = "round" /\ i' = 0 /\ first_inserted' = None
  /\ UNCHANGED <<lobby, arena, q, poll, aux>>

\* The worm is dead, or still on its pixel.
PassWorm ==
  /\ worker = "round" /\ i \in DOMAIN turns /\ ~Arena!Over
  /\ i' = i + 1
  /\ UNCHANGED <<lobby, arena, q, worker, first_inserted, poll, aux>>

RoundMove ==
  /\ worker = "round" /\ i \in DOMAIN turns
  /\ Arena!Claim(i) \/ Arena!Fall(i)
  /\ first_inserted' = IF first_inserted = None THEN Len(log) ELSE first_inserted
  /\ i' = i + 1
  /\ UNCHANGED <<lobby, q, worker, poll, aux>>

\* Faulty variant: the broadcast misses the round's first event.
BroadcastFromLate == first_inserted + 1

BroadcastFrom == first_inserted

FinishRound ==
  /\ worker = "round" /\ (i \notin DOMAIN turns \/ Arena!Over)
  /\ worker' = "none" /\ i' = 0 /\ first_inserted' = None
  /\ IF first_inserted >= 0
       THEN /\ Outbox!AddBroadcast(BroadcastFrom, Len(log))
            /\ announced' = announced \cup (BroadcastFrom..(Len(log) - 1))
       ELSE UNCHANGED <<q, announced>>
  /\ over' = Done /\ Lobby!UpdateGame
  /\ UNCHANGED <<arena, poll, opening, games>>

-----------------------------------------------------------------------------
(* game_ready() with refresh(), and game_over(). *)

StartRefresh ==
  /\ Idle /\ ~sent
  /\ phase = "wait" /\ stage = "test" /\ Lobby!CanStart
  /\ games < MaxGames /\ games' = games + 1
  /\ Arena!Begin(Cardinality(DOMAIN names))
  /\ worker' = "refresh" /\ i' = 0
  /\ announced' = {} /\ opening' = 0
  /\ UNCHANGED <<lobby, q, first_inserted, poll>>

\* The first worm is born on an empty board.
Spawn ==
  /\ worker = "refresh" /\ i < Cardinality(DOMAIN names)
  /\ Arena!Claim(i) \/ (i > 0 /\ Arena!Fall(i))
  /\ i' = i + 1
  /\ UNCHANGED <<lobby, q, worker, first_inserted, poll, aux>>

\* refresh() returns the number of events: the broadcast starts, and ends,
\* where the history ends.
FinishRefresh ==
  /\ worker = "refresh" /\ (i >= Cardinality(DOMAIN names) \/ Arena!Over)
  /\ worker' = "none" /\ i' = 0
  /\ Outbox!AddBroadcast(Len(log), Len(log))
  /\ over' = Done /\ Lobby!GameReady
  /\ pollout' = TRUE /\ opening' = Len(log)
  /\ UNCHANGED <<arena, first_inserted, sent, aborted, announced, games>>

GameOver ==
  /\ Idle /\ ~sent
  /\ Lobby!GameOver
  /\ UNCHANGED <<arena, q, loop, sent, aborted, aux>>
  /\ pollout' = PollsOut

-----------------------------------------------------------------------------
(* The rest of an iteration: idle check, send(), receive(). *)

Expire(a) ==
  /\ Idle /\ a \in Silent
  /\ Lobby!Expire(a)
  /\ UNCHANGED <<arena, q, loop, poll, aux>>

CheckForIdleClients ==
  /\ Idle /\ ~sent
  /\ Lobby!CheckForIdleClients
  /\ UNCHANGED <<arena, q, loop, poll, aux>>

Sending == Idle /\ ~sent /\ pollout /\ Lobby!InIteration

Send(outcome) ==
  /\ Sending
  /\ Outbox!Send(outcome)
  /\ sent' = TRUE
  /\ UNCHANGED <<lobby, arena, loop, pollout, aborted, aux>>

Abort ==
  /\ Sending
  /\ Outbox!SendAborts
  /\ aborted' = TRUE
  /\ UNCHANGED <<lobby, arena, q, loop, sent, pollout, aux>>

\* The reply goes into the queue whatever the phase.
Reply(m, ev_no) ==
  IF Lobby!Ignored(m) THEN UNCHANGED q ELSE Outbox!AddMsg(KeyNo(m.addr, m.id), ev_no)

Receive(m, ev_no) ==
  /\ Idle /\ Len(q) < MaxQueue
  /\ Lobby!WaitReceive(m) \/ Lobby!RunReceive(m)
  /\ Reply(m, ev_no)
  /\ UNCHANGED <<arena, loop, aborted, aux>>
  /\ sent' = FALSE /\ pollout' = PollsOut

NothingReceived ==
  /\ Idle
  /\ Lobby!NothingReceived \/ (sent /\ stage = "test" /\ UNCHANGED lobby)
  /\ UNCHANGED <<arena, q, loop, aborted, aux>>
  /\ sent' = FALSE /\ pollout' = PollsOut

-----------------------------------------------------------------------------

Message(client, turn) ==
  [addr |-> client.addr, id |-> client.id, name |-> client.name, turn |-> turn]

ServerNext ==
  \/ StartRound \/ PassWorm \/ RoundMove \/ FinishRound
  \/ StartRefresh \/ Spawn \/ FinishRefresh \/ GameOver
  \/ \E a \in Addrs : Expire(a)
  \/ CheckForIdleClients
  \/ \E outcome \in Outbox!Outcomes : Send(outcome)
  \/ Abort
  \/ \E client \in Clients, turn \in TurnValues, ev_no \in AskFrom :
       Receive(Message(client, turn), ev_no)
  \/ NothingReceived

ServerSpec == ServerInit /\ [][ServerNext]_vars

-----------------------------------------------------------------------------
(* Properties. *)

\* The parts agree.  During a game a name's worm index is a worm of this game,
\* as are all that stand, although the players were counted before the game and
\* come and go; and the server never waits for the next game, or starts it,
\* while this one is still being played.
PartsAgree ==
  /\ phase = "play" =>
       /\ standing \subseteq DOMAIN turns
       /\ \A s \in DOMAIN names : names[s] \in DOMAIN turns \cup {Lobby!NAMES_DEFAULT}
  /\ phase = "wait" /\ worker = "none" => ~Arena!Running

\* Whenever the server polls, every event made since refresh() has been put
\* into exactly one broadcast, GAME_OVER included: it is not lost although the
\* loop ends in the iteration that makes it.
RoundsAnnounced ==
  ~AtWork => announced = opening..(Len(log) - 1)

\* When the server goes to sleep in poll() with a message in the queue, it has
\* asked to be woken when the socket takes data, once a game was played.
WokenToSend ==
  ~AtWork /\ ~sent /\ stage = "test" /\ q # <<>> /\ WasPlayed => pollout

\* One cursor serves all recipients of a message, and a recipient that left is
\* popped without setting it back: a broadcast must never stop in its middle,
\* whatever blocks, whoever leaves, and even when it has outlived its game and
\* is about another one's events now.
BroadcastsWhole ==
  \A n \in 1..Len(q) : Len(q[n].to) > 1 => q[n].ev_no = q[n].start

\* server.cpp: assert(hist.size() >= g), with the comment "New game already
\* started, but need to send messages for a previous one!".
QueueMatchesGame == ~aborted
=============================================================================
