-------------------------------- MODULE Game --------------------------------
(***************************************************************************)
(* The game state kept by the server: server::state_t and server::worm_t   *)
(* (src/server/game.h, game.cpp) with the event numbering of               *)
(* server::event_t (src/server/to_client.h, to_client.cpp).                *)
(*                                                                         *)
(* refresh() (a new game) and increment() (a round) are loops over the     *)
(* worms; they run as one step per worm, in the order of the loop, and     *)
(* nothing else can happen while pc is "refresh" or "increment".  Local    *)
(* variables go back to their initial values when their function returns.  *)
(*                                                                         *)
(* A coordinate is an integer number of 1/Unit pixels.  Delta abstracts    *)
(* cosl() and sinl(), and the random numbers are any numbers: a seed picks *)
(* one of the behaviours of this module.                                   *)
(***************************************************************************)
EXTENDS Integers, Sequences, FiniteSets

CONSTANTS
  Width, Height,    \* the board, in pixels
  Unit,             \* coordinates are in 1/Unit pixels
  Delta,            \* what a worm heading d moves in a round: [dx, dy]
  TurningSpeed,     \* degrees a turning worm turns in a round
  Headings,         \* the directions a worm may be born with
  MaxPlayers,       \* MAX_PLAYERS_NUM
  MaxGames          \* bound: games played in a behaviour (cnt only grows)

Degrees == 0..359

ASSUME BoardAssumption == Width \in Nat \ {0} /\ Height \in Nat \ {0}
ASSUME UnitAssumption == Unit \in Nat \ {0} /\ Unit % 2 = 0
ASSUME DeltaAssumption ==
  Delta \in [Degrees -> [dx : (-Unit)..Unit, dy : (-Unit)..Unit]]
ASSUME TurnAssumption == TurningSpeed \in 1..90 /\ Headings \subseteq Degrees
ASSUME PlayersAssumption == MaxPlayers \in Nat \ {0, 1} /\ MaxGames \in Nat

STRAIGHT == 0
RIGHT == 1
LEFT == 2
Turns == {STRAIGHT, RIGHT, LEFT}

NEW_GAME == 0
PIXEL == 1
PLAYER_ELIMINATED == 2
GAME_OVER == 3

None == -1          \* a field that an event of this type does not carry

VARIABLES
  init,             \* refresh() has been called
  worms_num,        \* players of the current game
  worms,            \* their worms, in the order of their owners' names
  dead,             \* how many of them are dead
  pixels,           \* the eaten pixels
  history,          \* the events of the current game
  cnt,              \* event_t::cnt, the number of the next event
  pc,               \* "idle", or the loop that is running
  i,                \* the loop's index
  directions,       \* refresh()'s argument
  first_inserted,   \* increment()'s local variable, its first result
  games,            \* how many times refresh() was called (for MaxGames)
  before            \* auxiliary: Len(history) when the round began

vars == <<init, worms_num, worms, dead, pixels, history, cnt, pc, i,
          directions, first_inserted, games, before>>

-----------------------------------------------------------------------------
(* Worms. *)

\* (int32_t)v : the conversion rounds toward zero.
Trunc(v) == IF v >= 0 THEN v \div Unit ELSE -((-v) \div Unit)

Pos(w) == <<Trunc(w.x), Trunc(w.y)>>

\* The direction after the turn of this round.
Turned(w) ==
  CASE w.last_turn = STRAIGHT -> w.direction
    [] w.last_turn = RIGHT -> (w.direction + TurningSpeed) % 360
    [] OTHER -> w.direction + (IF w.direction < TurningSpeed THEN 360 ELSE 0)
                  - TurningSpeed

\* worm_t::increment(): turn, then move by one pixel's length.
Advance(w) ==
  LET d == Turned(w)
  IN  [w EXCEPT !.direction = d, !.x = @ + Delta[d].dx, !.y = @ + Delta[d].dy]

\* Faulty variant: "or" for "and" in the result.
SamePixelOnEitherAxis(w) == \E axis \in {1, 2} : Pos(Advance(w))[axis] = Pos(w)[axis]

\* The result of worm_t::increment().
SamePixel(w) == Pos(Advance(w)) = Pos(w)

\* Faulty variant: increment() does not test is_alive().
MovesDeadOrAlive(w) == ~SamePixel(w)

Moves(w) == w.alive /\ ~SamePixel(w)

\* A worm is born in the middle of a pixel.
NewWorm(column, row, heading, turn) ==
  [last_turn |-> turn, direction |-> heading,
   x |-> column * Unit + (Unit \div 2), y |-> row * Unit + (Unit \div 2),
   alive |-> TRUE]

-----------------------------------------------------------------------------
(* Events. *)

Event(no, type, player, x, y) ==
  [no |-> no, type |-> type, player |-> player, x |-> x, y |-> y]

NewGameEvent(no) == Event(no, NEW_GAME, None, None, None)
PixelEvent(no, k, p) == Event(no, PIXEL, k, p[1], p[2])
EliminatedEvent(no, k) == Event(no, PLAYER_ELIMINATED, k, None, None)
GameOverEvent(no) == Event(no, GAME_OVER, None, None, None)

Finished == dead = worms_num - 1

-----------------------------------------------------------------------------
(* move_worm(): worm k of ws has just arrived where it is. *)

\* Faulty variant: the right edge is not tested.
OffBoardButRight(w) == w.x < 0 \/ w.y < 0 \/ Height <= Trunc(w.y)

OffBoard(w) ==
  \/ w.x < 0 \/ w.y < 0
  \/ Width <= Trunc(w.x) \/ Height <= Trunc(w.y)

Blocked(w) == OffBoard(w) \/ Pos(w) \in pixels

\* Faulty variant: die() is not called.
KilledInNameOnly(ws, k) == ws

Killed(ws, k) == [ws EXCEPT ![k + 1].alive = FALSE]

\* Faulty variant: finished() is tested before dead is incremented.
ObituaryTooEarly(k) ==
  IF Finished THEN <<EliminatedEvent(cnt, k), GameOverEvent(cnt + 1)>>
              ELSE <<EliminatedEvent(cnt, k)>>

\* The events of a death: the second one when it is the last.
Obituary(k) ==
  IF dead + 1 = worms_num - 1
    THEN <<EliminatedEvent(cnt, k), GameOverEvent(cnt + 1)>>
    ELSE <<EliminatedEvent(cnt, k)>>

Die(ws, k) ==
  /\ Blocked(ws[k + 1])
  /\ worms' = Killed(ws, k)
  /\ dead' = dead + 1
  /\ history' = history \o Obituary(k)
  /\ cnt' = cnt + Len(Obituary(k))
  /\ UNCHANGED pixels

Eat(ws, k) ==
  /\ ~Blocked(ws[k + 1])
  /\ worms' = ws
  /\ pixels' = pixels \cup {Pos(ws[k + 1])}
  /\ history' = Append(history, PixelEvent(cnt, k, Pos(ws[k + 1])))
  /\ cnt' = cnt + 1
  /\ UNCHANGED dead

MoveWorm(ws, k) == Die(ws, k) \/ Eat(ws, k)

-----------------------------------------------------------------------------
(* refresh(): a new game.  The NEW_GAME event is built by the caller. *)

Init ==
  /\ init = FALSE /\ worms_num = 0 /\ dead = 0 /\ worms = <<>>
  /\ pixels = {} /\ history = <<>> /\ cnt = 0
  /\ pc = "idle" /\ i = 0 /\ directions = <<>> /\ first_inserted = None
  /\ games = 0 /\ before = 0

\* Faulty variants: refresh() forgets the board, the dead, or resets the
\* numbering after NEW_GAME has been numbered.
KeepBoard == UNCHANGED pixels
KeepDead == UNCHANGED dead
AnnounceThenReset == history' = <<NewGameEvent(cnt)>> /\ cnt' = 0

ClearBoard == pixels' = {}
ClearDead == dead' = 0
Announce == history' = <<NewGameEvent(cnt)>> /\ cnt' = cnt + 1

\* The server calls refresh() once the previous game, if any, has finished.
StartRefresh(dirs) ==
  /\ pc = "idle" /\ games < MaxGames
  /\ init => Finished
  /\ pc' = "refresh" /\ i' = 0 /\ games' = games + 1
  /\ init' = TRUE
  /\ worms_num' = Len(dirs) /\ directions' = dirs
  /\ ClearDead /\ worms' = <<>> /\ Announce /\ ClearBoard
  /\ UNCHANGED <<first_inserted, before>>

SpawnWorm ==
  /\ pc = "refresh" /\ i < worms_num /\ ~Finished
  /\ \E column \in 0..(Width - 1), row \in 0..(Height - 1), h \in Headings :
       MoveWorm(Append(worms, NewWorm(column, row, h, directions[i + 1])), i)
  /\ i' = i + 1
  /\ UNCHANGED <<init, worms_num, pc, directions, first_inserted, games, before>>

RefreshDone ==
  /\ pc = "refresh" /\ (i >= worms_num \/ Finished)
  /\ pc' = "idle" /\ i' = 0 /\ directions' = <<>>
  /\ UNCHANGED <<init, worms_num, worms, dead, pixels, history, cnt,
                 first_inserted, games, before>>

-----------------------------------------------------------------------------
(* increment(): a round.  The server only calls it before the game is done. *)

StartIncrement ==
  /\ pc = "idle" /\ init /\ ~Finished
  /\ pc' = "increment" /\ i' = 0 /\ first_inserted' = None
  /\ before' = Len(history)
  /\ UNCHANGED <<init, worms_num, worms, dead, pixels, history, cnt,
                 directions, games>>

\* Faulty variant: the loop goes on after the last but one worm died.
InRoundToTheEnd == pc = "increment" /\ i < Len(worms)

InRound == pc = "increment" /\ i < Len(worms) /\ ~Finished

SkipDead ==
  /\ InRound /\ ~worms[i + 1].alive
  /\ i' = i + 1
  /\ UNCHANGED <<init, worms_num, worms, dead, pixels, history, cnt, pc,
                 directions, first_inserted, games, before>>

\* The worm is still on the pixel it was on.
StayOnPixel ==
  /\ InRound /\ worms[i + 1].alive
  /\ SamePixel(worms[i + 1])
  /\ worms' = [worms EXCEPT ![i + 1] = Advance(@)]
  /\ i' = i + 1
  /\ UNCHANGED <<init, worms_num, dead, pixels, history, cnt, pc,
                 directions, first_inserted, games, before>>

\* Faulty variant: the index of the last event instead of the first.
LatestInserted == Len(history)

FirstInserted == IF first_inserted = None THEN Len(history) ELSE first_inserted

LeavePixel ==
  /\ InRound /\ Moves(worms[i + 1])
  /\ first_inserted' = FirstInserted
  /\ MoveWorm([worms EXCEPT ![i + 1] = Advance(@)], i)
  /\ i' = i + 1
  /\ UNCHANGED <<init, worms_num, pc, directions, games, before>>

IncrementDone ==
  /\ pc = "increment" /\ (i >= Len(worms) \/ Finished)
  /\ pc' = "idle" /\ i' = 0 /\ first_inserted' = None /\ before' = 0
  /\ UNCHANGED <<init, worms_num, worms, dead, pixels, history, cnt,
                 directions, games>>

\* update_worm(): between two rounds the server stores a player's last turn.
UpdateWorm(k, turn) ==
  /\ pc = "idle" /\ init /\ ~Finished
  /\ worms' = [worms EXCEPT ![k + 1].last_turn = turn]
  /\ UNCHANGED <<init, worms_num, dead, pixels, history, cnt, pc, i,
                 directions, first_inserted, games, before>>

-----------------------------------------------------------------------------

Refresh == SpawnWorm \/ RefreshDone
Round == StartIncrement \/ SkipDead \/ StayOnPixel \/ LeavePixel \/ IncrementDone

Next ==
  \/ \E n \in 2..MaxPlayers : \E dirs \in [1..n -> Turns] : StartRefresh(dirs)
  \/ Refresh
  \/ Round
  \/ \E k \in 0..(worms_num - 1), turn \in Turns : UpdateWorm(k, turn)

\* The loops run to their end and the round timer keeps firing.
Spec == Init /\ [][Next]_vars /\ WF_vars(Refresh) /\ WF_vars(Round)

-----------------------------------------------------------------------------
(* Properties. *)

Worm == [last_turn : Turns, direction : Degrees, x : Int, y : Int,
         alive : BOOLEAN]
Board == (0..(Width - 1)) \X (0..(Height - 1))
EventRecord ==
  [no : Nat, type : NEW_GAME..GAME_OVER, player : Nat \cup {None},
   x : Nat \cup {None}, y : Nat \cup {None}]

\* Every variable keeps its type; eaten pixels are pixels of the board.
TypeOK ==
  /\ init \in BOOLEAN
  /\ worms_num \in 0..MaxPlayers
  /\ worms \in Seq(Worm)
  /\ dead \in Nat
  /\ pixels \subseteq Board
  /\ history \in Seq(EventRecord)
  /\ cnt \in Nat
  /\ pc \in {"idle", "refresh", "increment"}
  /\ i \in Nat
  /\ directions \in Seq(Turns)
  /\ first_inserted \in Nat \cup {None}
  /\ games \in Nat
  /\ before \in Nat

Players == 0..(Len(worms) - 1)
EventsOf(k) == {n \in 1..Len(history) : history[n].player = k}
PixelEvents == {n \in 1..Len(history) : history[n].type = PIXEL}
PixelAt(n) == <<history[n].x, history[n].y>>
EliminatedAt(k, n) ==
  n \in 1..Len(history) /\ history[n].type = PLAYER_ELIMINATED
                        /\ history[n].player = k

\* finished() compares dead with worms_num - 1 for equality, so a death too
\* many would keep the game running for ever: there is always a worm alive,
\* and the counter is exactly the number of dead worms.
DeadCounted ==
  /\ dead = Cardinality({k \in Players : ~worms[k + 1].alive})
  /\ Players # {} => \E k \in Players : worms[k + 1].alive

\* refresh() may leave its loop early only once all worms are born: during a
\* game update_worm(i) never indexes a worm that is not there.
RosterComplete == init /\ pc # "refresh" => Len(worms) = worms_num

\* The board can be rebuilt from the events alone, which is all a client has:
\* the PIXEL events name exactly the eaten pixels, each of them once.
BoardIsHistory ==
  /\ pixels = {PixelAt(n) : n \in PixelEvents}
  /\ \A m, n \in PixelEvents : PixelAt(m) = PixelAt(n) => m = n

\* A living worm is on the pixel its last event names.
AliveOnTrail ==
  \A k \in Players : worms[k + 1].alive =>
    \E n \in EventsOf(k) : /\ n \in PixelEvents
                           /\ PixelAt(n) = Pos(worms[k + 1])
                           /\ \A m \in EventsOf(k) : m <= n

\* A worm is dead exactly when the history says so, and its elimination is
\* the last event about its player.
DeadIsAnnounced ==
  \A k \in Players :
    /\ ~worms[k + 1].alive <=> \E n \in EventsOf(k) : EliminatedAt(k, n)
    /\ \A m, n \in EventsOf(k) : EliminatedAt(k, n) => m <= n

\* GAME_OVER is in the history exactly when the game has finished, and then
\* it is the last event.
OverIffFinished ==
  \A n \in 1..Len(history) :
    /\ history[n].type = GAME_OVER => n = Len(history)
    /\ n = Len(history) => (history[n].type = GAME_OVER <=> Finished)

\* Within a game event numbers are consecutive.
NumberedConsecutively ==
  \A n \in 1..Len(history) : history[n].no = cnt - Len(history) + n - 1

\* increment() reports the index of the first event of its round (or none),
\* and the round adds at most one event per player, in the players' order.
\* The server broadcasts history[first_inserted..] and nothing else.
RoundReported ==
  pc = "increment" =>
    /\ first_inserted = IF Len(history) = before THEN None ELSE before
    /\ \A m, n \in (before + 1)..Len(history) :
         m < n => \/ history[m].player < history[n].player
                  \/ history[n].type = GAME_OVER /\ n = Len(history)

Lingering == \E k \in Players : /\ worms[k + 1].alive
                                /\ worms[k + 1].x < 0 \/ worms[k + 1].y < 0

\* While rounds keep coming, a game ends, unless a worm stays alive beyond
\* the upper or left border (see InsideBoard).
GameEnds == (init /\ ~Finished) ~> (Finished \/ Lingering)

\* README: positions "are rounded down" and a worm that goes "outside the
\* screen" leaves it.  The code converts a coordinate in (-1, 0) to 0, and a
\* worm that slips over that border from a pixel in column or row 0 lives on.
InsideBoard ==
  \A k \in Players : worms[k + 1].alive => worms[k + 1].x >= 0 /\ worms[k + 1].y >= 0

-----------------------------------------------------------------------------
(* Refinement. *)

TypeName == <<"NEW_GAME", "PIXEL", "PLAYER_ELIMINATED", "GAME_OVER">>

\* A player stands unless its worm was born and died.
Standing ==
  {k \in 0..(worms_num - 1) : k < Len(worms) => worms[k + 1].alive}
Log == [n \in 1..Len(history) |-> [type |-> TypeName[history[n].type + 1],
                                   player |-> history[n].player]]

Abstract == INSTANCE Arena WITH standing <- Standing, log <- Log

\* Every behaviour of the game, seen through its events and the worms alive,
\* is a last-one-standing game: only living worms act, nobody comes back, and
\* GAME_OVER comes with the elimination that leaves one worm.
ImplementsArena == Abstract!ArenaSpec
=============================================================================
