# robaki: TLA+ models, checks and proofs

The repository (`src/`) is a network game of worms ("robaki"): a UDP server
that runs the game, and a client that sits between the server and a graphical
interface (GUI) and relays keys one way and events the other.  These modules
model what the programs *do*, not what `src/README.md` wants of them; where the
two differ, the difference is a finding (see below).

Paths are relative to `src/`; `server.cpp` and the like, without a directory,
mean `src/server/server.cpp` and so on, client files are written
`client/…`.

## 1. The system

### Parts, their state and their operations

| part | state | operations | talks to |
|---|---|---|---|
| game state (`game.h`, `game.cpp`, events of `to_client.*`) | worms, who is dead, eaten pixels, event history, static event counter | `refresh()` new game, `increment()` round, `update_worm()` turn | called by the server loops; numbers events through `event_t::cnt` |
| players and sessions (`server.cpp`, `server.h`) | `clients` by address, `names` (a second copy by name, whose value is a turn direction *or* a worm index), local set `ready` | `receive()`, `wait_receive()`, `run_receive()`, two idle checks, `game_ready()`, `game_over()` | datagrams from clients, timers; `update_worm()` |
| outgoing queue (`server.cpp`, class `from_server_t`) | queue of messages, each with a stack of recipients, a range of events and a cursor | `add_msg()` reply, `add_broadcast_msg()`, `send()` one datagram | reads the history and `clients`; the socket |
| server loops (`server.cpp:325-447`) | which loop runs, what is polled for | `wait_for_start()`, `play_game()` | all of the above |
| client's event buffer (`client/from_game.*`, `client/events.*`) | queue of games, each with received events, an interval set and what was sent | `recv()`, `send()`, `send_the_rest()` | server's datagrams, TCP to the GUI |
| client's interval set (`client/iset.*`) | disjoint intervals | `insert()`, `smallest_not_included()` | event buffer |
| client's key input (`client/from_gui.*`) | text behind the last line end, turn direction | `receive()` | TCP from the GUI |
| client loop (`client/client.*`, `client/to_game.*`) | what is polled for, a timer | `loop()`, `send_to_game()` | all of the above; datagrams to the server |
| wire format (`to_client.*`, `from_client.*`, `crc32.cpp`) | none | build, parse, checksum | both programs |
| random numbers (`rng.*`), wrappers of sockets and timers, start-up and options, the GUI supplied with the assignment, tests | | | |

Both programs are single-threaded `poll()` loops.  Concurrency is that of
messages from several clients, of timers, and of a socket that does or does not
take data, against state which is kept across iterations and across games.

### What is hard

* State that outlives what it is about: the queue and the event counter outlive
  a game, `names` and `ready` are kept in step with `clients` by hand in half a
  dozen places, dead worms stay in the vector, values of `names` change meaning
  when a game begins and ends.
* The end of a game happens in the middle of a loop over the worms, in the
  middle of an iteration of `play_game()`, with messages still queued.
* UDP: datagrams block, fail, are lost, and clients come back under other names,
  other sessions and old addresses.
* The two TCP streams of the client: messages and keys are cut anywhere, the GUI
  may be slow for a while or go away, and the server must hear of the client
  meanwhile.
* Sizes and numbers: a full datagram, the limit of players, conversion of
  coordinates to pixels.

`PROJECT.json` lists the hazards line by line, with the properties
that cover each.

### What makes each part correct

* game: deaths counted exactly (the end is tested by equality), the history
  alone tells the board, who is dead and when the game is over, numbers without
  gaps, nothing left over from the game before, every game ends;
* players: the copy of the names agrees with the clients, nobody is started,
  steered or thrown out by somebody else's message, limit of players;
* queue: whatever a client is entitled to is sent to it, whoever blocks or
  leaves, and in the end;
* loops: the parts stay in step, every event of a round is broadcast, the loop
  wakes up while there is something to send;
* client: of what it has received the GUI gets nothing ahead of what is missing or
  of an older game, and nothing received is dropped; the number asked for is the
  first that is missing; keys become the right direction; the client tries to tell
  the server of itself all the time, in bytes that the server reads as they were
  meant.  (As it is, the client neither stores an event nor reaches the server,
  and reading the keys hangs: see section 5.)

## 2. The modules

```
        Arena  <---implements---  Game <- MCGame
          |                         ^
          |                         |
          |                   Game_proofs <- GameHistory_proofs
 Lobby -- Server -- Outbox
   ^        ^          ^
 MCLobby  MCServer   Delivery <- MCDelivery, Delivery_proofs

 Lobby <- Lobby_proofs <--instance-- Server_proofs -> Server
                                         |
             Delivery_proofs <--instance-+

 NumberSet  <---implements---  IntervalSet <- IntervalSet_proofs

 EventBuffer ----+
 KeyInput -------+--> Client <- MCClient
 ClientMessage --+      ^
                        |
 KeyInput_proofs <- Client_proofs
```

**`Game`** is `server::state_t`, `server::worm_t` and the numbering of
`event_t`.  `refresh()` and `increment()` are loops over the worms, so they run
as one action per worm (`SpawnWorm`; `SkipDead`, `StayOnPixel`, `LeavePixel`)
between an action that enters the function and one that leaves it.  The local
variables of a function (`i`, `first_inserted`, the argument `directions`) are
variables of the module.  Both call `move_worm()`, which is `MoveWorm(ws, k)`:
worm k of `ws` has just been born or moved, and either dies (`Die`) or eats its
pixel (`Eat`); worms that died stay, as in the code.  `StartRefresh` takes what
the caller does first (building NEW_GAME, which takes a number) with it.
Coordinates are integers in units of 1/`Unit` pixel, and `Delta` is a table in
place of `cosl()` and `sinl()`, of which only the range is assumed.  Random
positions and headings are any positions and headings.

**`Arena`** is what a game promises to everything around it, in four actions'
worth of text: a log that begins with NEW_GAME, in which only players who still
stand claim pixels or fall, and which ends with GAME_OVER at the moment the last
but one falls.  `Game` is shown to implement it (checked and proved), and
`Server` is built from it, so that the server need not carry worms around.

**`Lobby`** is who is connected, ready and steering: `clients`, `names`, `ready`,
and the order of things in the two poll loops.  `receive()` is a set of
predicates on a message (`Renamed`, `Joins`, `Removes`, `Full`, `Ignored`) and
the values `ClientsAfter`, `NamesAfter` of the maps; `WaitReceive` and
`RunReceive` add what each loop does with its result.  `stage` says how far an
iteration has come, because `ready.size()` and `done()` are tested only between
iterations, whereas everything else may happen in between.  The game is reduced
to whether it is over.

**`Outbox`** is the queue and one call of `send()`: `Remaining` pops recipients
that left, `Packed` fills a datagram, `After` takes the cursor back when the
socket blocks, `Advanced` pops a recipient that has everything and lets the next
one begin from the start.  Events are reduced to their sizes.

**`Delivery`** puts the queue into an environment of its own (clients come, ask
and go; rounds and new games) and keeps two books: what each client is due, and
what was sent to it.  `NewGame` leaves the queue alone, as the code does, so that a
broadcast of the game before may still be there and is then about events of the new one.

**`Server`** composes `Lobby`, `Arena` and `Outbox` (all by `INSTANCE`) in the
order of `wait_for_start()` and `play_game()`: idle check, round, one call of
`send()`, one call of `receive()`, then the test of the loop's condition.  A
round and `refresh()` run player by player with everything else standing still
(`worker`).  `pollout` is what the loop last told `poll()` to wait for.

**`IntervalSet`** is `client::iset`, in which the client keeps which events it
has: `insert()` looks only at the two intervals around its number
(`LowerBound`, `Before`), as the code does with `lower_bound()` and `--it`, and
merges with those it touches.  Additions wrap at `Top` (2^32 in the code).
**`NumberSet`** is what it stands for: a set of numbers, and whether a number
was new.  The module stands on its own, as the class does in
`src/tests/iset_test.cpp`: any number may be inserted at any time.

**`EventBuffer`** is `client::game_t` and `client::game_to_gui_t`, open to a caller:
`Integrate` hands over one record, as the switch at the end of `recv()` does, any
number in any order and as often as the caller likes (a NEW_GAME opens a buffer,
also that of a game that has one; an event that is there is stored anew), and
`StartSend` calls `send()`, whose steps are the other actions (`at`), one call of
the socket's `send()` at a time, with `game_t::send()` and `send_the_rest()` in it.
`event_nums` is the set of numbers that `IntervalSet` is proved to implement.  A
message is `Size` pieces; what the socket takes may go beyond them, as it is always
given the whole length (`Takes`, up to `MaxOffset`).  Three books are kept for the
properties: `added`, what was handed over to each buffer, `shown`, what was wholly
written of it, and `last`, the latest piece.  The parsing of an event's data
is left out (bad data ends the client), and so are texts.

**`KeyInput`** is `client::from_GUI_t`: the GUI sends lines of three characters
(key, what happened to it, line end), `Read` takes any number of them in one
`recv()`, `WouldBlock` ends the reading wherever the stream happens to be cut, and the
scan looks at one text a step, from the last back, with one action per branch
(`NotAMessage`, `KeyDown`, `KeyUp`).  `EndsBefore` is what `rfind()` may find, the line
end that the search begins at included, so the scan comes to a line end and
stays there.  `heard` is everything that was read, which the properties
read from the front.

**`ClientMessage`** is the client's datagram, byte by byte: `ToGame` builds it
as `to_game_t()` does, `Accepted` and `FromClient` are the two halves of the
server's `from_client_t()`.  `Fits` says which numbers the bytes of a field can hold.

**`Client`** is the program: `EventBuffer`, `KeyInput` and `ClientMessage` (by
`EXTENDS`, the variables are the client's) in the client's loop.  `Poll` is one
call of `poll()`, which leaves the handlers that have to run in `revents`, and each
runs in its order, `send_to_gui()` and `receive_from_gui()` as the steps of their
modules.  `Recv` is `recv()` as it is: `ReadNum` gives what `read_num()` gives as a
`bool`, and `Integrate` is never reached.  `SendToGame` is `send_to_game()` as it is:
the message is built, and `sendto()` fails (section 5); `tried` is what this
iteration has given to it.

Definitions commented *Faulty variant* are not part of any specification: they
are plausible mistakes, used to confirm that each property is able to fail.

## 3. The runs

| run | instance | what it asks |
|---|---|---|
| `game` | 2x2 board, up to 3 players, 2 games, one heading at birth, turns of 90 degrees | are deaths counted and announced exactly (`DeadCounted`, `DeadIsAnnounced`), does GAME_OVER come exactly with the end (`OverIffFinished`), does a round report exactly its events (`RoundReported`), does every player have a worm (`RosterComplete`), do the events rebuild the board (`BoardIsHistory`), are they numbered without gaps (`NumberedConsecutively`), and does the game implement `Arena` (`ImplementsArena`) |
| `game_octants` | 2 players, eight headings, steps of 0.7 pixel | is a living worm on the last pixel it announced when rounds may end on the pixel they began on (`AliveOnTrail`); does every game end (`GameEnds`) |
| `lobby` | 3 addresses, 3 names, two sessions, limit of 2 players | `NamesMatchClients`, `AtMostMaxPlayers`, `StartsWhenAllReady`, `NoInterference`, `OnlyOwnerSteers` |
| `delivery` | 2 clients, openings of three and of five events, in two and three datagrams, rounds of two events, 2 games, 2 messages in the queue | is nothing lost (`NothingLost`), is no broadcast ever half sent to one client (`BroadcastNeverHalfSent`), is everything sent in the end (`EventuallySent`) |
| `server` | 2 clients, 2 games of at most 6 events, 3 messages in the queue | do players, game and queue agree (`PartsAgree`), is every event of a round in exactly one broadcast (`RoundsAnnounced`), does the loop ask to be woken while the queue is not empty (`WokenToSend`), does no broadcast stop in its middle with the events that rounds really make (`BroadcastsWhole`) |
| `intervals` | numbers below 8 | whatever the order of insertion, do intervals stay apart (`Canonical`), do they hold exactly the numbers inserted (`ImplementsNumberSet`), and is `smallest_not_included()` right (`SmallestIsMissing`) |
| `buffer` | 3 times a NEW_GAME of 2 games, events 1, 2 and 4 in any order and any number of times, messages of two pieces and one behind | is nothing written past a hole (`NoHoles`), nothing dropped (`NothingDropped`), nothing of a game written before what there is of the games before it (`OldGamesFirst`); is the number expected the first that is missing (`AsksFromFirstGap`); is `send()` done when it says so (`CaughtUp`) |
| `client` | the whole client, 3 key messages cut anywhere, a GUI that may leave, datagrams of 2 games | is the text behind the last line kept, whatever the cuts (`RestIsKept`); is the direction the one a reading from the front gives (`TurnFollowsKeys`); does the server read from the client's bytes what was meant (`MessageIsMeant`); does the client try to send again and again while `receive()` returns (`KeepsTrying`) |
| `game_border`, `server_stale_queue`, `client_reads`, `keys_hang` | | the findings of section 5 |

The runs of `Game`, `Lobby`, `Delivery`, `EventBuffer` and `Client` also check type invariants.

**Bounds.**  `MaxGames` (2) is there because the event counter never goes back;
two games are what it takes to see something left over from the first.  A 2x2
board is enough for every event: with three worms on four pixels worms die at
birth, at the border, on their own trail and on another's, two in one round, and
games end during `refresh()`, in the middle of a round and at its end.
`Headings` in run `game` is one direction because turns reach the others.
`MaxPlayers = 2` in `lobby` makes the third name meet the limit; two sessions
are enough to be older, equal and newer.  `MaxQueue` and `MaxEvents` cap the
queue and the history in the guards of the actions that add to them; two queued
messages are one being worked on and one waiting for it.  `Cap` and `EventSize`
are chosen so that an opening takes more than one datagram, the events after its
NEW_GAME filling one, while a round's events always fit in one (`RoundFits`).  The
longer opening has events where a broadcast of the first game, if one is still in the
queue, looks for its own.  In `server` a datagram takes a PIXEL for each of the two worms
and one more, to the last byte, and a history of six events does not fit in one.

In `buffer` events 1, 2 and 4 make a first hole at any of the numbers from 1 to 3 and
leave one that is never filled; 3 is always missing, so what is behind it is only
sent with the rest.  Three NEW_GAMEs let one buffer be given up while another waits
and a third is being filled, and be of the game of the one before; two pieces are
what can be taken in part, and `MaxOffset` (3) lets one piece of memory behind a
message be written and a message go wrong for good.  `MaxSent` (5) bounds what a buffer
sends and has to send: more than there are events, so that some come again.

In `client` datagrams change nothing, as `recv()` gives them up, and the constants of
the buffer do not matter.  Three messages are enough for a key to be
pressed and for the next call to begin behind, before and within a line; with the
last text but not its line end read, `receive()` returns, and otherwise it does
not.  Session id and name are one each, with bytes that tell their order.

Eight numbers leave room for every way in which a number meets its neighbours,
and for the number before the wrap.

`CHECK_DEADLOCK FALSE` is set in the runs of the server because the counted games end, the
assertion in `send()` ends the program, and a wait for players who never come is
a legitimate end.

**Fairness.**  `Game`: weak fairness of `Refresh` (a loop runs to its end) and
of `Round` (the round timer is periodic, and `play_game()` calls `increment()`
whenever it fires); none of `UpdateWorm` or of new games.  `Delivery`: weak
fairness of `Deliver("sent")`: both loops poll for POLLOUT while the queue is
not empty (this is `WokenToSend` of `Server`, from the first game on), and a
UDP socket that is writable takes a datagram; blocking and failing stay possible
at any time, and new messages may keep arriving.  `Lobby` and `Server` are
checked for safety only and assume no fairness, and so is `EventBuffer`, as nothing is
said of when its operations are called.  `Client`: weak fairness of the loop, which polls
a socket that can always be written and so never sleeps; none of the server's
datagrams, the GUI's keys or the timer.  `KeepsTrying` has as a condition that
`receive()` returns again and again, as section 5 says that it does not.
`KeyInput`: weak fairness of `KeyStep`, because nothing else runs in the client until
`receive()` returns; none of the GUI.

## 4. What is proved

The game: for every board, unit, table of directions, turning speed, and every number of
players and games, under the assumptions named in `Game` (`BoardAssumption`,
`UnitAssumption`: an even unit, so that the middle of a pixel exists;
`DeltaAssumption`: at most one pixel per axis in a round; `TurnAssumption`;
`PlayersAssumption`: at least two may play).  The players: for any addresses,
finite set of names, sessions and limit (`NamesAssumption`, `SessionsAssumption`,
`TurnsAssumption`, `LobbyAssumption`).  The server: for any of all these, and any
sizes of events and datagrams; `BroadcastsStayWhole` alone needs that a PIXEL is the
largest event after NEW_GAME and that a datagram takes one for every worm and another
(`DatagramAssumption`).  `LobbyParameters` of `Server` says that its parameters
meet the assumptions of the lobby inside it.  The queue: for any clients, openings,
rounds and numbers asked for, where every event fits in a datagram and a round makes at
most as many as fit in one when all of them are of the largest size (`EventsAssumption`,
`RoundFits`).  In the code that largest size is the 18 bytes of a PIXEL, and a
round makes at most 25 of them (or of the shorter PLAYER_ELIMINATED) and one GAME_OVER:
no more than 472 bytes with the header, where `MAX_GAME_MSG_LEN` is 550.  That an event
is so short is due to `event_t::size()`, which leaves out the field `len` (section 5): with the
22 bytes of a whole record 25 PIXELs would take 554, and a broadcast could be
half sent to one client.  Whoever corrects `size()` has to look at `send()` too.
The client: for any number of games of any
length, messages of any size, and whatever the buffer is handed, in any order and any
number of times (`BufferAssumption`); for any number of key messages
(`KeysAssumption`); for a session id within its type and any name that an option may
give (`ClientAssumption`).

| theorem | says |
|---|---|
| `Game_proofs!TypeCorrect` | `TypeOK` |
| `Game_proofs!RosterIsComplete` | `RosterComplete`: a turn never reaches a worm that is not there |
| `Game_proofs!OverIsFinished` | `OverIffFinished`: GAME_OVER is the last event exactly when the game is finished |
| `Game_proofs!NumbersConsecutive` | `NumberedConsecutively` |
| `Game_proofs!DeathsAreCounted` | `DeadCounted`: the counter is the number of dead worms and somebody lives |
| `Game_proofs!GameImplementsArena` | `ImplementsArena`: every step of the game is a step of `Arena` or none |
| `GameHistory_proofs!BoardFromHistory` | `BoardIsHistory`: the events alone rebuild the board |
| `GameHistory_proofs!DeathsAreAnnounced` | `DeadIsAnnounced`: dead are those of whom the history says so, as the last thing it says |
| `GameHistory_proofs!TrailsAreTrue` | `AliveOnTrail` |
| `GameHistory_proofs!RoundsAreReported` | `RoundReported`: `increment()` reports exactly its events |
| `Lobby_proofs!NamesAgree` | `NamesMatchClients`: the copy of the names agrees with the clients |
| `Lobby_proofs!LimitIsKept` | `AtMostMaxPlayers` |
| `Lobby_proofs!StartIsRight` | `StartsWhenAllReady`: comparing two sizes is enough |
| `Lobby_proofs!OwnersSteer` | `OnlyOwnerSteers` |
| `Lobby_proofs!NobodyInterferes` | `NoInterference` |
| `Lobby_proofs!LobbyTypeCorrect` | `LobbyTypeOK`: a game starts with a turn direction for every worm |
| `Server_proofs!ServerIsALobby` | the players inside the server are a `Lobby`, step by step |
| `Server_proofs!ServerIsAnArena` | the game inside the server is an `Arena`, step by step |
| `Server_proofs!PlayersInTheServer` | `NamesMatchClients`, `AtMostMaxPlayers`, `StartsWhenAllReady`, `OnlyOwnerSteers` in the server |
| `Server_proofs!PartsAlwaysAgree` | `PartsAgree`: players and game stay in step |
| `Server_proofs!RoundsAreAnnounced` | `RoundsAnnounced`: every event since `refresh()` is in exactly one broadcast |
| `Server_proofs!SleepsAwake` | `WokenToSend` |
| `Server_proofs!BroadcastsStayWhole` | `BroadcastsWhole`: the events of real rounds fit in one datagram, so no broadcast stops in its middle |
| `Delivery_proofs!BroadcastsWhole` | `BroadcastNeverHalfSent`: a message for several clients is never left in its middle |
| `Delivery_proofs!NothingIsLost` | `NothingLost`: what a client is due was sent to it or is on its way |
| `Delivery_proofs!DeliveryTypeCorrect` | `DeliveryTypeOK` |
| `Client_proofs!BufferTypeCorrect` | `BufferTypeOK` |
| `Client_proofs!NothingPastHoles` | `NoHoles`: nothing of the newest game before what is missing, whatever comes again |
| `Client_proofs!NothingIsDropped` | `NothingDropped`: what was handed over is written or waits |
| `Client_proofs!OldGamesAreFirst` | `OldGamesFirst` |
| `Client_proofs!AsksForTheFirstMissing` | `AsksFromFirstGap`: the number expected is the first that is missing |
| `Client_proofs!SendIsDone` | `CaughtUp`: what is done when `send()` says so |
| `Client_proofs!ClientHasParts` | the buffer and the keys inside the client are an `EventBuffer` and a `KeyInput`, step by step |
| `Client_proofs!ClientHearsKeys` | `RestIsKept` and `TurnFollowsKeys` in the client |
| `Client_proofs!NothingIsStored` | with `read_num()` as it is the buffer stays empty and the number asked for 0 |
| `Client_proofs!ClientTypeCorrect` | `ClientTypeOK` |
| `Client_proofs!MessagesAreMeant` | `MessageIsMeant`: the server reads from the client's bytes who it is, what it does and what it expects |
| `KeyInput_proofs!RestStays` | `RestIsKept`: a line cut in two is put together again |
| `KeyInput_proofs!TurnIsMeaning` | `TurnFollowsKeys`: the scan from the back finds what a reading from the front gives |
| `KeyInput_proofs!KeyTypeCorrect` | `KeyTypeOK` |
| `IntervalSet_proofs!IntervalsStayApart` | `Canonical`, for numbers of any width (`TopAssumption`) |
| `IntervalSet_proofs!IntervalsAreNumbers` | `ImplementsNumberSet`: `insert()` adds its argument and nothing else |
| `IntervalSet_proofs!SmallestIsFirstGap` | `SmallestIsMissing` |

*The argument.*  `TypeInv` is the inductive invariant everything rests on:
`TypeOK`, `Shape` (how the loop's index is related to the worms born so far) and
`SomeoneLives` (dead < number of worms born).  The last one carries the
interesting part: the loop of `refresh()` stops when `dead = worms_num - 1`, and
it is only because the first worm is born in the middle of a free pixel of an
empty board, and so lives (`TruncMiddle`, `NewWormType`), that this cannot
happen before all worms are born.  `TypeOK` alone is not inductive: without
`SomeoneLives` a game might stop with a worm missing.
`HistoryInv` adds the numbering and the place of GAME_OVER and is kept by one
lemma about `move_worm()` (`MoveWormHistory`) used for births and moves alike.
`DeathInv` says that `dead` is the cardinality of the set of dead worms; its
step needs that `move_worm()` is never called for a dead worm (`Arrives`).
The refinement maps `standing` to the players not born yet or alive and `log` to
the history without numbers and pixels; `StandingCount` turns the counter into a
cardinality, and then `Eat` is `Claim`, `Die` is `Fall` (with GAME_OVER exactly
when one is left), `StartRefresh` is `Begin`, and all other actions stutter.

For the history of the game, `BoardIsHistory` is inductive as it stands: `Eat` marks a
pixel and announces it, and only a pixel that is not marked.  `LifeInv` adds to
`AliveOnTrail` and `DeadIsAnnounced` that nothing is said of players whose worms are
not born, without which a birth could contradict what was said before;
`ToldAsBefore` is the frame: a step says something of one player only.  `RoundInv`
says that a round has told of players which the loop has passed, so what it tells
next comes after them.

For the players, `Agree(clients, DOMAIN names)` (the names are those of the clients,
each held once) with the limit is the inductive invariant `NamesInv`.
`ReceiveCases` boils the conditions of `receive()` down to four outcomes, for each of
which a lemma about two maps (`AgreeWithout`, `AgreePut`, `AgreeUpdate`) does the
work; that a name is held once is needed because a client that leaves takes its
name along.  The limit is tested for equality only, which is right because it was
kept before.  `ReadyInv` says that `ready` is the set of names of the clients that
turned, all of them connected: then it is a part of `names`, and two finite sets of
which one contains the other are equal when their sizes are.  `SeatInv` says that a client
whose name has a worm's index held it when the game started; a name that is
added anew has none, and at the start ranks give every name its own index
(`RankFacts`) and every index a name (`EveryIndexIsARank`).

For the server, the two refinements do most of the work: every step of `ServerNext` is,
on the variables of a part, a step of the part's own specification or none
(`LobbyStep`, `SameLobby`), so what is proved of the lobby alone holds in the
server.  `Server_proofs` therefore instances `Lobby_proofs` instead of proving
anything again.  What relates the parts needs invariants of its own.  `LoopInv` is where
the loops may be: a round is played only in a game that goes on, `refresh()` runs only
between the loops.  `GameInv` is `PartsAgree` with the time of `refresh()`, when
those who stand are already counted by names that become worm indices later
(`GameReadyAgrees`).  `AnnounceInv` says up to which event everything has been
broadcast in the middle of a round too (`AnnouncedTo`): `first_inserted` is the first
event that is in no broadcast yet.  `WokenToSend` is inductive by itself.

What `Delivery` assumes of a round's events the server ensures (`BroadcastsStayWhole`).
`RangeInv` counts them while the round runs: since `first_inserted` there is at most one event
for every worm that has been moved (`OneEventEach`), and GAME_OVER once the game is
over; and no event but the first is a NEW_GAME.  `CrowdInv` (in `Lobby_proofs`) bounds the
worms by `MaxPlayers`.  `MessagesInv` then is `QueueInv` of the queue (below) for the
server's own history and clients: `Server_proofs` instances `Delivery_proofs`, and takes from
there what `send()` and a new message do to it.

For the client's buffer the argument is one invariant, `BufferInv`.  `Right` says of a
buffer, of what was handed over to it and of what was wholly written of it that each number
handed over was written or waits (or both, if it came again), and that what was written is
below the first hole (`Expected`) until the rest is sent.  `Histories` says so of all the
buffers in the queue, which are the latest, and that of those behind the oldest nothing was
written; `GoneWritten`, that of those that were dropped everything was.  From these follow
`NothingDropped` and `OldGamesFirst`.  `NoHoles` needs besides that the least that waits is
written first: what is below it and below the hole was handed over, does not wait, and so was
written (`KnownNumbers`).  That `add()` sets the offset of a half-written message
back does no harm here: it waits before and after.  The invariant does not say
that `smallest_not_sent` is the number of messages written, because with repeats it
is not; it needs only that it is zero as long as NEW_GAME waits (`Sound`).  `Called`
adds what `game_t::send()` has seen of the oldest buffer; `CaughtUp` follows, with
`CountedAhead` for the return at the top of that function, which compares the
count: a count that is no more than the number of messages written and reaches the
first hole means that all before it were written, by comparing two finite sets
(`NothingToSend`).  Every action then comes down to one of few changes of the queue
(`OpensKeeps`, `StoresKeeps`, `OldestKeeps`, `WritingKeeps`, `GoesOnKeeps`, `DropsKeeps`).

In the client each step of the loop is, on the variables of a part, a step of the part
or none (`LoopMovesBuffer`, `LoopMovesKeys`), so what is proved of them alone holds there
(`ClientHasParts`).  What it gives to `sendto()` is right by `TriedInv`: it is the
message that the present state would make.  That is inductive with `TimeLast`, that the
handler which sends is the last of an iteration: after it nothing happens until the
next `poll()`.  `NumberIs` proves that reading the bytes of
a number gives the number, if it is one of the type (`Fits`).
Both directions are recursive functions (`Shifted` and that of `Number`), so the proof can
compare them value by value: after n bytes the reader has what is left of
the number when the other bytes are cut off.  `MessageIsRead` takes the fields apart.

For the queue, `QueueInv` says that a message for several clients stands at its start
and is `Short`: its range of events begins behind the first and is no longer than fits in a
datagram.  `BroadcastNeverHalfSent` alone is not inductive: a broadcast may outlive its
game and then be about other events, and that they too fit in one datagram is
due to the largest size of an event, not to what the round was that the
message was made for.  `BytesBound` bounds what a range of events takes,
`PackedAll` says that a `Short` range is packed whole.  `DueInv` adds to
`NothingLost` that who is not connected is due nothing.  Its step for `send()` is
`FrontKeeps`: an event that was on its way by the front message is in the datagram, or
still ahead of `ev_no`, or for a recipient below the one that is popped, for which
`ev_no` goes back to `start`; and a recipient that left may be popped without that, because
by `QueueInv` the others have not been begun.

For the input from the GUI, `StreamInv` relates the three parts of the stream: what is
read and what is not are whole lines, and `str` is the end of what is read, from the
beginning of a line on (`Base` lines are behind it); between two calls it is shorter
than a line.  Hence `LineEndsAre`: a line end in `str` is at every third place.
`TurnInv` is what makes a scan from the back right.  A released key (`met`) only
matters until a message is found that says more, so in the middle of the scan the
direction after all that was heard is that after the messages not looked at yet,
less `met` (`Minus`); and what `receive()` puts into `turn_dir` is the direction
before it, less `met`.  The direction before it is that after `Base` lines or after one more
(`Before`): a text whose line end has not arrived yet is looked at already, and
again later, which does no harm because releasing twice is releasing once
(`Releases`).

For the intervals, `Canonical` is inductive as it stands; the work is in
`Touching`: that the neighbours found by `lower_bound()` are the only intervals
a number can lie in or touch follows from their being apart.

*Only model-checked:* all liveness, `GameEnds`, `EventuallySent`, `KeepsTrying` and
`ReceiveReturns` (the finding `keys_hang`), which needs fairness and `ENABLED` (out of the
prover's reach).  Every other property that the passing runs check is proved.  The
findings are what TLC shows.

Two forms are there for the proofs.  Sums and numbers in bytes (`Bytes` of `Outbox`, `Shifted` and
`Number` of `ClientMessage`) are recursive functions on an interval: that such a function exists
is shown by extending it one step at a time up to the bound, with the set of the bounds it
exists for in place of an induction theorem (`UpTo`).
In `Client`, `ToRun` is written as a concatenation of four conditions, as the loop has
them, because the provers know nothing of `SelectSeq`.

## 5. Findings

* `game_border`: coordinates are converted toward zero, not rounded down
  (`README.md:225`), so a worm in column or row 0 that slips over the upper or
  left border "stays on its pixel" and lives on outside (`game.cpp:31`).
* `server_stale_queue`: nothing empties the queue between games; a queued
  broadcast of a longer game meets the assertion in `send()` when the next one
  has begun, and the server aborts.
* `client_reads`: `read_num()` returns `0` for success and `-1` for failure, as
  `bool`; `recv()` therefore gives up every datagram at its first number and
  the client never has an event to pass on (`client/from_game.h:79`).
* `keys_hang`: the search for the line end before the current one begins at the
  current one, where `rfind()` finds it again (`client/from_gui.cpp:70`).  Unless the text
  behind the last line end is that of a KEY_DOWN message, `receive()` never returns: the
  client is lost with the first line it reads.

Seen on the way, without a run of their own:

* a client restarted under its name has a higher session id, but its messages
  are ignored until the old registration times out (`server.cpp:192`), where
  `README.md:242` says that it replaces the old one.
* `send_to_game()` gives `sendto()` the address of `game_srvr.addr`, which is a
  `unique_ptr` (`utility.h:39`), and not the address that it points to (`get_addr()`), on a
  socket that is not connected (`client/client.cpp:22`).  The bytes of a pointer are no address
  of the socket's family, so the call fails every time and `perror()` is all that
  follows (lines 23-25): the server never hears of the client, against
  `README.md:119`.  `SendToGame` has it so, and `MessageIsMeant` and `KeepsTrying` are
  about what is given to `sendto()`.
* The session id is the time in milliseconds (`client/client.cpp:11`), against the
  microseconds of `README.md:129`.
* After a partial send the socket is given the whole length of the message
  again, from the offset on, so memory behind the message may be sent and the
  message is then never finished (`client/events.cpp:28`).  `EventBuffer` has it
  so (`Takes`, `MaxOffset`); the message waits for ever, and everything behind it.
* A GUI that closes its connection leaves the client in `receive_data()`, as
  `recv()` returns 0 for ever (`client/from_gui.cpp:37`): `ReadNothing`, which
  `ReceiveReturns` excepts.
* POLLOUT is asked for only after input from the GUI (`client/client.cpp:59`), so
  events would wait until a key is touched.
* Nobody reads the client's timer, so it stays readable and a message is sent in
  every iteration from the first 30 ms on (`client/client.cpp:66`, against
  `README.md:119`).
* The record of an event is written and read differently: the checksum is put
  over the record's last four bytes and covers the header, while the client
  looks for it behind and without it; the names in NEW_GAME's data are
  cut out from a position where a length is meant, counted from another place
  (`client/events.cpp:58-73`), and the text for the GUI lacks the space after
  `NEW_GAME` that its size counts, so a zero byte follows the line
  (`client/events.cpp:45`, `client/events.cpp:103`).
* nothing calls `event_t::reset_cnt()`, so a second game's events do not start
  from number zero, as `README.md:378` and `to_client.h:77` say; the models have
  it so.
* `refresh()` returns the number of events and `game_ready()` broadcasts from
  there, so a game's first events are in no broadcast (`server.cpp:321`, against
  `README.md:143`); clients get them by asking.
* Events do repeat (answers overlap, and overlap with broadcasts), and
  `add()` stores again what it has or has sent already (`client/from_game.cpp:42-45`, where
  `README.md:62` has the GUI get commands "without duplicates").  So an event is shown
  again; a message that is half written begins anew in its middle, because its offset is
  zero again, or is broken into by an earlier one that came again; and
  `smallest_not_sent`, which counts what was sent, runs ahead of the numbers, so that
  `send()` returns true while an event that could be sent waits, where
  `client/from_game.h:46` says "iff everything was sent" (`CountedAhead`).  A second datagram
  with the same NEW_GAME opens a second buffer and shows the game from its beginning.
  `EventBuffer` has all of it, and its properties say what holds nevertheless.
* In the client NEW_GAME counts as number 0 (`client/from_game.cpp:37`) although a
  second game's numbers are greater, so nothing after it is sent while that game
  is the newest.

## 6. Not modelled

* Random numbers, sockets, timers, start-up, the GUI and the tests: see
  `PROJECT.json` for each reason.  Durations are abstracted away: a deadline or a
  timer may pass at any moment.
* `event_t` as bytes: the two programs do not agree on it (section 5), so there is
  no reading that a property could relate to the writing.  The parsing of an event's
  data and the texts for the GUI go with it; bad data, and an error on the GUI's
  socket, end the client.
* The growth of the queue before the first game (a matter of rates).

## 7. Plan

All of it is done, in this order.

1. *Server*: `Game`, `Arena`, `Lobby`, `Outbox`, `Delivery`, `Server`.
2. *Client*: `IntervalSet`, `EventBuffer`, `KeyInput`, `Client`.
3. *Wire*: `ClientMessage`.
4. *Proofs*: `Game`, `Lobby`, `Server`, `IntervalSet`, `EventBuffer` and `Client`,
   `Delivery`, `KeyInput`.

What could come next is to put `IntervalSet` into `EventBuffer` in place of the set it is
proved to implement, and, once `recv()` and `sendto()` are what their callers
expect and the two programs agree on the records of events, to compose client and
server.
