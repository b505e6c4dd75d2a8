----------------------------- MODULE Game_proofs -----------------------------
(***************************************************************************)
(* Theorems about Game, for every board, every table Delta, every turning  *)
(* speed and every number of players and games: its variables keep their   *)
(* types and its worms are complete; deaths are counted exactly, GAME_OVER *)
(* closes the history exactly when the game has finished, and events are   *)
(* numbered without gaps; and Game implements Arena: every step of the     *)
(* game, seen through its events and the worms that are alive, is a step   *)
(* of a last-one-standing game, or no step at all.                         *)
(***************************************************************************)
EXTENDS Game, FiniteSetTheorems, TLAPS

-----------------------------------------------------------------------------
(* Lemmas about the operators on worms. *)

\* A coordinate is converted to an integer, and one that is not negative to
\* a natural number.
LEMMA TruncType ==
  ASSUME NEW v \in Int
  PROVE  Trunc(v) \in Int /\ (v >= 0 => Trunc(v) \in Nat)
  BY UnitAssumption, SMTT(30) DEF Trunc

\* The middle of pixel c is converted back to c.
LEMMA TruncMiddle ==
  ASSUME NEW c \in Nat
  PROVE  Trunc(c * Unit + (Unit \div 2)) = c
<1>1. /\ Unit \in Nat \ {0} /\ Unit \div 2 \in Nat /\ Unit \div 2 < Unit
  BY UnitAssumption
<1>2. c * Unit \in Nat
  BY <1>1, SMTT(30)
<1>3. (c * Unit + (Unit \div 2)) \div Unit = c
  BY <1>1, <1>2, SMTT(30)
<1> QED
  BY <1>1, <1>2, <1>3 DEF Trunc

\* A turn keeps the direction within 0..359.
LEMMA TurnRange ==
  ASSUME NEW d \in 0..359, NEW s \in 1..90
  PROVE  /\ (d + s) % 360 \in 0..359
         /\ d + (IF d < s THEN 360 ELSE 0) - s \in 0..359
  OBVIOUS

LEMMA TurnedType ==
  ASSUME NEW w \in Worm
  PROVE  Turned(w) \in Degrees
<1>1. w.direction \in 0..359 /\ TurningSpeed \in 1..90
  BY TurnAssumption DEF Worm, Degrees
<1>2. /\ (w.direction + TurningSpeed) % 360 \in 0..359
      /\ w.direction + (IF w.direction < TurningSpeed THEN 360 ELSE 0)
           - TurningSpeed \in 0..359
  BY <1>1, TurnRange
<1> QED
  BY <1>1, <1>2 DEF Turned, Degrees

LEMMA AdvanceType ==
  ASSUME NEW w \in Worm
  PROVE  Advance(w) \in Worm
<1>1. Turned(w) \in Degrees
  BY TurnedType
<1>2. PICK dx \in Int, dy \in Int :
        Delta[Turned(w)].dx = dx /\ Delta[Turned(w)].dy = dy
  BY <1>1, UnitAssumption, DeltaAssumption
<1>3. w.x \in Int /\ w.y \in Int
  BY DEF Worm
<1>4. Advance(w) = [w EXCEPT !.direction = Turned(w), !.x = @ + dx, !.y = @ + dy]
  BY <1>2 DEF Advance
<1>5. w.x + dx \in Int /\ w.y + dy \in Int
  BY <1>3
<1>6. /\ Advance(w).last_turn = w.last_turn /\ Advance(w).alive = w.alive
      /\ Advance(w).direction = Turned(w)
      /\ Advance(w).x = w.x + dx /\ Advance(w).y = w.y + dy
  BY <1>4 DEF Worm
<1> QED
  BY <1>1, <1>4, <1>5, <1>6 DEF Worm

\* A newborn worm is a worm, on the pixel it was given.
LEMMA NewWormType ==
  ASSUME NEW column \in Nat, NEW row \in Nat,
         NEW h \in Headings, NEW turn \in Turns
  PROVE  /\ NewWorm(column, row, h, turn) \in Worm
         /\ Pos(NewWorm(column, row, h, turn)) = <<column, row>>
         /\ NewWorm(column, row, h, turn).alive
         /\ NewWorm(column, row, h, turn).x >= 0
         /\ NewWorm(column, row, h, turn).y >= 0
<1>1. /\ column * Unit + (Unit \div 2) \in Nat
      /\ row * Unit + (Unit \div 2) \in Nat
  <2>1. Unit \in Nat /\ Unit \div 2 \in Nat
    BY UnitAssumption
  <2>2. column * Unit \in Nat /\ row * Unit \in Nat
    BY <2>1, SMTT(30)
  <2> QED
    BY <2>1, <2>2
<1>2. /\ Trunc(column * Unit + (Unit \div 2)) = column
      /\ Trunc(row * Unit + (Unit \div 2)) = row
  BY TruncMiddle
<1>3. h \in Degrees
  BY TurnAssumption
<1> QED
  BY <1>1, <1>2, <1>3 DEF NewWorm, Worm, Pos

\* A worm that is not blocked is on the board.
LEMMA UnblockedOnBoard ==
  ASSUME NEW w \in Worm, ~Blocked(w)
  PROVE  Pos(w) \in Board /\ Pos(w) \notin pixels
<1>1. w.x \in Int /\ w.y \in Int /\ ~(w.x < 0) /\ ~(w.y < 0)
      /\ ~(Width <= Trunc(w.x)) /\ ~(Height <= Trunc(w.y))
  BY DEF Worm, Blocked, OffBoard
<1>2. Trunc(w.x) \in Nat /\ Trunc(w.y) \in Nat
  BY <1>1, TruncType
<1>3. Trunc(w.x) \in 0..(Width - 1) /\ Trunc(w.y) \in 0..(Height - 1)
  BY <1>1, <1>2, BoardAssumption
<1> QED
  BY <1>3 DEF Board, Pos, Blocked

-----------------------------------------------------------------------------
(* move_worm() keeps the types, and kills at most one worm. *)

LEMMA MoveWormType ==
  ASSUME TypeOK,
         NEW ws \in Seq(Worm), NEW k \in Nat, k + 1 \in 1..Len(ws),
         MoveWorm(ws, k)
  PROVE  /\ worms' \in Seq(Worm) /\ Len(worms') = Len(ws)
         /\ dead' \in Nat /\ pixels' \subseteq Board
         /\ history' \in Seq(EventRecord) /\ cnt' \in Nat
<1>1. ws[k + 1] \in Worm
  OBVIOUS
<1>2. CASE Die(ws, k)
  <2>1. worms' \in Seq(Worm) /\ Len(worms') = Len(ws)
    <3>1. [ws[k + 1] EXCEPT !.alive = FALSE] \in Worm
      BY <1>1 DEF Worm
    <3> QED
      BY <1>2, <3>1 DEF Die, Killed
  <2>2. Obituary(k) \in Seq(EventRecord) /\ Len(Obituary(k)) \in Nat
    <3>1. /\ EliminatedEvent(cnt, k) \in EventRecord
          /\ GameOverEvent(cnt + 1) \in EventRecord
      BY DEF TypeOK, EliminatedEvent, GameOverEvent, Event, EventRecord,
             None, NEW_GAME, PIXEL, PLAYER_ELIMINATED, GAME_OVER
    <3> QED
      BY <3>1 DEF Obituary
  <2> QED
    BY <1>2, <2>1, <2>2 DEF Die, TypeOK
<1>3. CASE Eat(ws, k)
  <2>1. Pos(ws[k + 1]) \in Board
    BY <1>1, <1>3, UnblockedOnBoard DEF Eat
  <2>2. PixelEvent(cnt, k, Pos(ws[k + 1])) \in EventRecord
    BY <2>1, BoardAssumption
       DEF TypeOK, PixelEvent, Event, EventRecord, Board,
           None, NEW_GAME, PIXEL, PLAYER_ELIMINATED, GAME_OVER
  <2> QED
    BY <1>3, <2>1, <2>2 DEF Eat, TypeOK
<1> QED
  BY <1>2, <1>3 DEF MoveWorm

-----------------------------------------------------------------------------
(* Type correctness. *)

\* What the control state says about the sizes: the worms born so far are
\* those the loop of refresh() has passed, and afterwards there is one for
\* every player.
Shape ==
  /\ ~init => pc = "idle" /\ worms = <<>>
  /\ init => worms_num >= 2
  /\ pc = "refresh" => /\ i = Len(worms) /\ i <= worms_num
                       /\ Len(directions) = worms_num

\* The first worm is born on an empty board and lives; afterwards dead stays
\* below the number of worms.
SomeoneLives ==
  /\ dead = 0 \/ dead < Len(worms)
  /\ Len(worms) = 0 => pixels = {}
  /\ init /\ pc # "refresh" => Len(worms) = worms_num

TypeInv == TypeOK /\ Shape /\ SomeoneLives

LEMMA InitTypeInv == Init => TypeInv
<1> SUFFICES ASSUME Init PROVE TypeInv
  OBVIOUS
<1>1. TypeOK
  <2>1. worms \in Seq(Worm) /\ history \in Seq(EventRecord) /\ directions \in Seq(Turns)
    BY DEF Init
  <2>2. init \in BOOLEAN /\ pixels \subseteq Board
    BY DEF Init
  <2>3. /\ worms_num \in 0..MaxPlayers /\ dead \in Nat /\ cnt \in Nat
        /\ i \in Nat /\ games \in Nat /\ before \in Nat
    BY PlayersAssumption DEF Init
  <2> QED
    BY <2>1, <2>2, <2>3 DEF Init, TypeOK
<1> QED
  BY <1>1 DEF Init, TypeInv, Shape, SomeoneLives

LEMMA StartRefreshTypeInv ==
  ASSUME TypeInv, NEW n \in 2..MaxPlayers, NEW dirs \in [1..n -> Turns],
         StartRefresh(dirs)
  PROVE  TypeInv'
<1>1. dirs \in Seq(Turns) /\ Len(dirs) = n /\ n \in Nat /\ n \in 0..MaxPlayers
  BY PlayersAssumption
<1>2. NewGameEvent(cnt) \in EventRecord
  BY DEF TypeInv, TypeOK, NewGameEvent, Event, EventRecord, None,
         NEW_GAME, GAME_OVER
<1>3. TypeOK'
  BY <1>1, <1>2 DEF TypeInv, TypeOK, StartRefresh, ClearDead, ClearBoard, Announce
<1>4. Shape' /\ SomeoneLives'
  BY <1>1 DEF StartRefresh, ClearDead, ClearBoard, Shape, SomeoneLives
<1> QED
  BY <1>3, <1>4 DEF TypeInv

LEMMA SpawnWormTypeInv == TypeInv /\ SpawnWorm => TypeInv'
<1> SUFFICES ASSUME TypeInv, SpawnWorm PROVE TypeInv'
  OBVIOUS
<1>1. PICK column \in 0..(Width - 1), row \in 0..(Height - 1), h \in Headings :
        MoveWorm(Append(worms, NewWorm(column, row, h, directions[i + 1])), i)
  BY DEF SpawnWorm
<1> DEFINE w == NewWorm(column, row, h, directions[i + 1])
           ws == Append(worms, w)
<1>2. /\ i \in Nat /\ i = Len(worms) /\ i < worms_num /\ worms_num \in 0..MaxPlayers
      /\ directions[i + 1] \in Turns /\ init /\ init' = init
  BY DEF SpawnWorm, TypeInv, TypeOK, Shape
<1>3. column \in Nat /\ row \in Nat
  BY BoardAssumption
<1>4. /\ w \in Worm /\ Pos(w) = <<column, row>> /\ w.x >= 0 /\ w.y >= 0
  BY <1>2, <1>3, NewWormType
<1>5. /\ ws \in Seq(Worm) /\ Len(ws) = i + 1 /\ i + 1 \in 1..Len(ws)
      /\ ws[i + 1] = w
  BY <1>2, <1>4 DEF TypeInv, TypeOK
<1> HIDE DEF w, ws
<1>6. /\ worms' \in Seq(Worm) /\ Len(worms') = i + 1
      /\ dead' \in Nat /\ pixels' \subseteq Board
      /\ history' \in Seq(EventRecord) /\ cnt' \in Nat
  <2>1. MoveWorm(ws, i)
    BY <1>1 DEF ws, w
  <2> QED
    BY <1>2, <1>5, <2>1, MoveWormType DEF TypeInv
<1>7. TypeOK'
  BY <1>2, <1>6 DEF SpawnWorm, TypeInv, TypeOK
<1>8. Shape'
  BY <1>2, <1>6 DEF SpawnWorm, TypeInv, Shape
<1>9. dead' = 0 \/ dead' < Len(worms')
  <2>1. CASE i = 0
    <3>1. pixels = {} /\ dead = 0
      BY <1>2, <2>1 DEF TypeInv, TypeOK, SomeoneLives
    <3>2. ~Blocked(ws[i + 1])
      <4>1. Trunc(w.x) = column /\ Trunc(w.y) = row
        BY <1>4 DEF Pos
      <4>2. w.x \in Int /\ w.y \in Int
        BY <1>4 DEF Worm
      <4>3. ~OffBoard(w)
        BY <1>4, <4>1, <4>2, BoardAssumption DEF OffBoard
      <4> QED
        BY <1>5, <3>1, <4>3 DEF Blocked
    <3> QED
      BY <1>1, <3>1, <3>2 DEF ws, w, MoveWorm, Die, Eat
  <2>2. CASE i # 0
    BY <1>1, <1>2, <1>6, <2>2
       DEF TypeInv, TypeOK, SomeoneLives, MoveWorm, Die, Eat
  <2> QED
    BY <2>1, <2>2
<1> QED
  BY <1>2, <1>6, <1>7, <1>8, <1>9 DEF TypeInv, SomeoneLives, SpawnWorm

\* refresh() leaves its loop only when every worm is born, whichever of the
\* two conditions of the loop ends it.
LEMMA RefreshDoneTypeInv == TypeInv /\ RefreshDone => TypeInv'
<1> SUFFICES ASSUME TypeInv, RefreshDone PROVE TypeInv'
  OBVIOUS
<1>1. TypeOK'
  BY DEF TypeInv, TypeOK, RefreshDone
<1>2. Len(worms) = worms_num
  BY DEF TypeInv, TypeOK, Shape, SomeoneLives, RefreshDone, Finished
<1> QED
  BY <1>1, <1>2 DEF TypeInv, Shape, SomeoneLives, RefreshDone

LEMMA StartIncrementTypeInv == TypeInv /\ StartIncrement => TypeInv'
<1> SUFFICES ASSUME TypeInv, StartIncrement PROVE TypeInv'
  OBVIOUS
<1>1. TypeOK'
  BY DEF TypeInv, TypeOK, StartIncrement, None
<1> QED
  BY <1>1 DEF TypeInv, Shape, SomeoneLives, StartIncrement

LEMMA SkipDeadTypeInv == TypeInv /\ SkipDead => TypeInv'
<1> SUFFICES ASSUME TypeInv, SkipDead PROVE TypeInv'
  OBVIOUS
<1>1. TypeOK'
  BY DEF TypeInv, TypeOK, SkipDead
<1> QED
  BY <1>1 DEF TypeInv, Shape, SomeoneLives, SkipDead, InRound

\* In a round the worm at the loop's index exists, and moves to a worm.
LEMMA AdvanceInRound ==
  ASSUME TypeInv, InRound
  PROVE  /\ i \in Nat /\ i + 1 \in 1..Len(worms) /\ worms[i + 1] \in Worm
         /\ [worms EXCEPT ![i + 1] = Advance(@)] \in Seq(Worm)
         /\ Len([worms EXCEPT ![i + 1] = Advance(@)]) = Len(worms)
         /\ [worms EXCEPT ![i + 1] = Advance(@)][i + 1] = Advance(worms[i + 1])
<1>1. i \in Nat /\ i + 1 \in 1..Len(worms) /\ worms[i + 1] \in Worm
  BY DEF TypeInv, TypeOK, InRound
<1>2. Advance(worms[i + 1]) \in Worm
  BY <1>1, AdvanceType
<1> QED
  BY <1>1, <1>2 DEF TypeInv, TypeOK

LEMMA StayOnPixelTypeInv == TypeInv /\ StayOnPixel => TypeInv'
<1> SUFFICES ASSUME TypeInv, StayOnPixel PROVE TypeInv'
  OBVIOUS
<1>1. worms' \in Seq(Worm) /\ Len(worms') = Len(worms) /\ i \in Nat
  BY AdvanceInRound DEF StayOnPixel
<1>2. TypeOK'
  BY <1>1 DEF TypeInv, TypeOK, StayOnPixel
<1> QED
  BY <1>1, <1>2 DEF TypeInv, TypeOK, Shape, SomeoneLives, StayOnPixel, InRound

LEMMA LeavePixelTypeInv == TypeInv /\ LeavePixel => TypeInv'
<1> SUFFICES ASSUME TypeInv, LeavePixel PROVE TypeInv'
  OBVIOUS
<1> DEFINE ws == [worms EXCEPT ![i + 1] = Advance(@)]
<1>1. /\ i \in Nat /\ i + 1 \in 1..Len(worms)
      /\ ws \in Seq(Worm) /\ Len(ws) = Len(worms) /\ MoveWorm(ws, i)
  BY AdvanceInRound DEF LeavePixel
<1> HIDE DEF ws
<1>2. /\ worms' \in Seq(Worm) /\ Len(worms') = Len(worms)
      /\ dead' \in Nat /\ pixels' \subseteq Board
      /\ history' \in Seq(EventRecord) /\ cnt' \in Nat
  BY <1>1, MoveWormType DEF TypeInv
<1>3. first_inserted' \in Nat \cup {None}
  BY DEF TypeInv, TypeOK, LeavePixel, FirstInserted
<1>4. TypeOK'
  BY <1>1, <1>2, <1>3 DEF TypeInv, TypeOK, LeavePixel
<1>5. /\ init /\ pc = "increment" /\ Len(worms) = worms_num /\ worms_num \in Nat
      /\ dead \in Nat /\ ~Finished
  BY DEF TypeInv, TypeOK, Shape, SomeoneLives, LeavePixel, InRound
<1>6. dead' = dead \/ dead' = dead + 1
  BY <1>1 DEF MoveWorm, Die, Eat
<1>7. Shape' /\ SomeoneLives'
  BY <1>1, <1>2, <1>5, <1>6
     DEF TypeInv, Shape, SomeoneLives, LeavePixel, Finished
<1> QED
  BY <1>4, <1>7 DEF TypeInv

LEMMA IncrementDoneTypeInv == TypeInv /\ IncrementDone => TypeInv'
<1> SUFFICES ASSUME TypeInv, IncrementDone PROVE TypeInv'
  OBVIOUS
<1>1. TypeOK'
  BY DEF TypeInv, TypeOK, IncrementDone, None
<1> QED
  BY <1>1 DEF TypeInv, Shape, SomeoneLives, IncrementDone

LEMMA UpdateWormTypeInv ==
  ASSUME TypeInv, NEW k \in 0..(worms_num - 1), NEW turn \in Turns,
         UpdateWorm(k, turn)
  PROVE  TypeInv'
<1>1. worms' \in Seq(Worm) /\ Len(worms') = Len(worms)
  <2>1. k \in Nat /\ k + 1 \in 1..Len(worms)
    BY DEF TypeInv, TypeOK, Shape, SomeoneLives, UpdateWorm
  <2>2. worms[k + 1] \in Worm
    BY <2>1 DEF TypeInv, TypeOK
  <2>3. [worms[k + 1] EXCEPT !.last_turn = turn] \in Worm
    BY <2>2 DEF Worm
  <2> QED
    BY <2>1, <2>3 DEF TypeInv, TypeOK, UpdateWorm
<1>2. TypeOK'
  BY <1>1 DEF TypeInv, TypeOK, UpdateWorm
<1> QED
  BY <1>1, <1>2 DEF TypeInv, TypeOK, Shape, SomeoneLives, UpdateWorm

LEMMA NextTypeInv == TypeInv /\ [Next]_vars => TypeInv'
<1> SUFFICES ASSUME TypeInv, [Next]_vars PROVE TypeInv'
  OBVIOUS
<1>1. CASE \E n \in 2..MaxPlayers : \E dirs \in [1..n -> Turns] : StartRefresh(dirs)
  BY <1>1, StartRefreshTypeInv
<1>2. CASE Refresh
  BY <1>2, SpawnWormTypeInv, RefreshDoneTypeInv DEF Refresh
<1>3. CASE Round
  BY <1>3, StartIncrementTypeInv, SkipDeadTypeInv, StayOnPixelTypeInv,
     LeavePixelTypeInv, IncrementDoneTypeInv DEF Round
<1>4. CASE \E k \in 0..(worms_num - 1), turn \in Turns : UpdateWorm(k, turn)
  BY <1>4, UpdateWormTypeInv
<1>5. CASE UNCHANGED vars
  BY <1>5 DEF vars, TypeInv, TypeOK, Shape, SomeoneLives
<1> QED
  BY <1>1, <1>2, <1>3, <1>4, <1>5 DEF Next

LEMMA TypeInvariance == Spec => []TypeInv
  BY InitTypeInv, NextTypeInv, PTL DEF Spec

\* Every variable keeps its type, and worms only eat pixels of the board.
THEOREM TypeCorrect == Spec => []TypeOK
<1>1. TypeInv => TypeOK
  BY DEF TypeInv
<1> QED
  BY <1>1, TypeInvariance, PTL

\* When refresh() returns every player has a worm, so that update_worm(i)
\* never indexes a worm that is not there.
THEOREM RosterIsComplete == Spec => []RosterComplete
<1>1. TypeInv => RosterComplete
  BY DEF TypeInv, SomeoneLives, RosterComplete
<1> QED
  BY <1>1, TypeInvariance, PTL

-----------------------------------------------------------------------------
(* The history. *)

\* Whether the last event is GAME_OVER, of the game that runs or has run.
HistoryInv ==
  /\ ~init => history = <<>>
  /\ init => history # <<>>
  /\ NumberedConsecutively
  /\ OverIffFinished

\* move_worm() is called before the game has finished, and appends to a
\* history without GAME_OVER.
LEMMA MoveWormHistory ==
  ASSUME TypeInv, HistoryInv, init, ~Finished,
         NEW ws, NEW k, MoveWorm(ws, k),
         init' = init, worms_num' = worms_num, history' \in Seq(EventRecord)
  PROVE  HistoryInv'
<1>1. /\ history \in Seq(EventRecord) /\ cnt \in Nat /\ dead \in Nat
      /\ worms_num \in Nat /\ Len(history) \in Nat /\ Len(history) > 0
  BY DEF TypeInv, TypeOK, HistoryInv
<1>2. \A n \in 1..Len(history) : /\ history[n].type # GAME_OVER
                                 /\ history[n].no = cnt - Len(history) + n - 1
  BY <1>1 DEF HistoryInv, OverIffFinished, NumberedConsecutively
<1>3. CASE Die(ws, k)
  <2>1. CASE dead + 1 = worms_num - 1
    <3>1. /\ history' = history \o <<EliminatedEvent(cnt, k), GameOverEvent(cnt + 1)>>
          /\ cnt' = cnt + 2 /\ dead' = dead + 1
      BY <1>3, <2>1 DEF Die, Obituary
    <3>2. /\ Len(history') = Len(history) + 2
          /\ \A n \in 1..Len(history) : history'[n] = history[n]
          /\ history'[Len(history) + 1] = EliminatedEvent(cnt, k)
          /\ history'[Len(history) + 2] = GameOverEvent(cnt + 1)
      BY <1>1, <3>1
    <3>3. Finished'
      BY <2>1, <3>1 DEF Finished
    <3>4. /\ history'[Len(history) + 1].type = PLAYER_ELIMINATED
          /\ history'[Len(history) + 1].no = cnt
          /\ history'[Len(history) + 2].type = GAME_OVER
          /\ history'[Len(history) + 2].no = cnt + 1
      BY <3>2 DEF EliminatedEvent, GameOverEvent, Event
    <3>5. OverIffFinished'
      BY <1>1, <1>2, <3>2, <3>3, <3>4
         DEF OverIffFinished, PLAYER_ELIMINATED, GAME_OVER
    <3>6. NumberedConsecutively'
      BY <1>1, <1>2, <3>1, <3>2, <3>4 DEF NumberedConsecutively
    <3> QED
      BY <1>1, <3>2, <3>5, <3>6 DEF HistoryInv
  <2>2. CASE dead + 1 # worms_num - 1
    <3>1. /\ history' = history \o <<EliminatedEvent(cnt, k)>>
          /\ cnt' = cnt + 1 /\ dead' = dead + 1
      BY <1>3, <2>2 DEF Die, Obituary
    <3>2. /\ Len(history') = Len(history) + 1
          /\ \A n \in 1..Len(history) : history'[n] = history[n]
          /\ history'[Len(history) + 1] = EliminatedEvent(cnt, k)
      BY <1>1, <3>1
    <3>3. ~Finished'
      BY <2>2, <3>1 DEF Finished
    <3>4. /\ history'[Len(history) + 1].type = PLAYER_ELIMINATED
          /\ history'[Len(history) + 1].no = cnt
      BY <3>2 DEF EliminatedEvent, Event
    <3>5. OverIffFinished'
      BY <1>1, <1>2, <3>2, <3>3, <3>4
         DEF OverIffFinished, PLAYER_ELIMINATED, GAME_OVER
    <3>6. NumberedConsecutively'
      BY <1>1, <1>2, <3>1, <3>2, <3>4 DEF NumberedConsecutively
    <3> QED
      BY <1>1, <3>2, <3>5, <3>6 DEF HistoryInv
  <2> QED
    BY <2>1, <2>2
<1>4. CASE Eat(ws, k)
  <2>1. /\ Len(history') = Len(history) + 1
        /\ \A n \in 1..Len(history) : history'[n] = history[n]
        /\ history'[Len(history) + 1] = PixelEvent(cnt, k, Pos(ws[k + 1]))
        /\ cnt' = cnt + 1 /\ dead' = dead
    BY <1>1, <1>4 DEF Eat
  <2>2. /\ history'[Len(history) + 1].type = PIXEL
        /\ history'[Len(history) + 1].no = cnt
    BY <2>1 DEF PixelEvent, Event
  <2>3. ~Finished'
    BY <2>1 DEF Finished
  <2>4. OverIffFinished'
    BY <1>1, <1>2, <2>1, <2>2, <2>3 DEF OverIffFinished, PIXEL, GAME_OVER
  <2>5. NumberedConsecutively'
    <3>1. ASSUME NEW n \in 1..Len(history')
          PROVE  history'[n].no = cnt' - Len(history') + n - 1
      <4>1. n \in 1..Len(history) \/ n = Len(history) + 1
        BY <1>1, <2>1
      <4> QED
        BY <1>1, <1>2, <2>1, <2>2, <4>1
    <3> QED
      BY <3>1 DEF NumberedConsecutively
  <2> QED
    BY <1>1, <2>1, <2>4, <2>5 DEF HistoryInv
<1> QED
  BY <1>3, <1>4 DEF MoveWorm

LEMMA InitHistoryInv == Init => HistoryInv
<1> SUFFICES ASSUME Init PROVE HistoryInv
  OBVIOUS
<1>1. history = <<>> /\ Len(history) = 0 /\ ~init
  BY DEF Init
<1> QED
  BY <1>1 DEF HistoryInv, NumberedConsecutively, OverIffFinished

LEMMA StartRefreshHistory ==
  ASSUME TypeInv, NEW n \in 2..MaxPlayers, NEW dirs \in [1..n -> Turns],
         StartRefresh(dirs)
  PROVE  HistoryInv'
<1>1. /\ history' = <<NewGameEvent(cnt)>> /\ cnt' = cnt + 1 /\ cnt \in Nat
      /\ init' /\ dead' = 0 /\ worms_num' = n /\ n \in Nat /\ n >= 2
  BY PlayersAssumption DEF StartRefresh, Announce, ClearDead, TypeInv, TypeOK
<1>2. /\ Len(history') = 1 /\ history'[1] = NewGameEvent(cnt)
      /\ history'[1].type = NEW_GAME /\ history'[1].no = cnt
  BY <1>1 DEF NewGameEvent, Event
<1>3. ~Finished'
  BY <1>1 DEF Finished
<1>4. OverIffFinished' /\ NumberedConsecutively'
  BY <1>1, <1>2, <1>3 DEF OverIffFinished, NumberedConsecutively, NEW_GAME, GAME_OVER
<1> QED
  BY <1>1, <1>4 DEF HistoryInv

LEMMA NextHistoryInv == TypeInv /\ TypeInv' /\ HistoryInv /\ [Next]_vars => HistoryInv'
<1> SUFFICES ASSUME TypeInv, TypeInv', HistoryInv, [Next]_vars PROVE HistoryInv'
  OBVIOUS
<1>1. history' \in Seq(EventRecord)
  BY DEF TypeInv, TypeOK
<1>2. CASE \E n \in 2..MaxPlayers : \E dirs \in [1..n -> Turns] : StartRefresh(dirs)
  BY <1>2, StartRefreshHistory
<1>3. CASE SpawnWorm
  <2>1. PICK ws : MoveWorm(ws, i)
    BY <1>3 DEF SpawnWorm
  <2>2. init /\ init' = init /\ worms_num' = worms_num /\ ~Finished
    BY <1>3 DEF SpawnWorm, TypeInv, Shape
  <2> QED
    BY <1>1, <2>1, <2>2, MoveWormHistory
<1>4. CASE LeavePixel
  <2>1. PICK ws : MoveWorm(ws, i)
    BY <1>4 DEF LeavePixel
  <2>2. init /\ init' = init /\ worms_num' = worms_num /\ ~Finished
    BY <1>4 DEF LeavePixel, InRound, TypeInv, Shape
  <2> QED
    BY <1>1, <2>1, <2>2, MoveWormHistory
<1>5. ASSUME UNCHANGED <<init, history, cnt, dead, worms_num>> PROVE HistoryInv'
  BY <1>5 DEF HistoryInv, NumberedConsecutively, OverIffFinished, Finished
<1>6. CASE RefreshDone \/ StartIncrement \/ SkipDead \/ StayOnPixel \/ IncrementDone
  BY <1>5, <1>6 DEF RefreshDone, StartIncrement, SkipDead, StayOnPixel, IncrementDone
<1>7. CASE \E k \in 0..(worms_num - 1), turn \in Turns : UpdateWorm(k, turn)
  BY <1>5, <1>7 DEF UpdateWorm
<1>8. CASE UNCHANGED vars
  BY <1>5, <1>8 DEF vars
<1> QED
  BY <1>2, <1>3, <1>4, <1>6, <1>7, <1>8 DEF Next, Refresh, Round

LEMMA HistoryInvariance == Spec => []HistoryInv
<1>1. TypeInv /\ TypeInv' /\ HistoryInv /\ [Next]_vars => HistoryInv'
  BY NextHistoryInv
<1> QED
  BY <1>1, InitHistoryInv, TypeInvariance, PTL DEF Spec

\* GAME_OVER is the last event exactly when finished() is true, so that a
\* client that has the whole history knows that the game is over.
THEOREM OverIsFinished == Spec => []OverIffFinished
<1>1. HistoryInv => OverIffFinished
  BY DEF HistoryInv
<1> QED
  BY <1>1, HistoryInvariance, PTL

\* The numbers that event_t's constructor hands out have no gap within a game,
\* from the NEW_GAME event on, which the caller of refresh() has built.
THEOREM NumbersConsecutive == Spec => []NumberedConsecutively
<1>1. HistoryInv => NumberedConsecutively
  BY DEF HistoryInv
<1> QED
  BY <1>1, HistoryInvariance, PTL

-----------------------------------------------------------------------------
(* The dead. *)

Dead == {k \in Players : ~worms[k + 1].alive}
DeathInv == dead = Cardinality(Dead)

LEMMA DeadFinite ==
  ASSUME TypeInv
  PROVE  /\ IsFiniteSet(Players) /\ Cardinality(Players) = Len(worms)
         /\ IsFiniteSet(Dead)
<1>1. Len(worms) \in Nat
  BY DEF TypeInv, TypeOK
<1>2. IsFiniteSet(Players) /\ Cardinality(Players) = Len(worms)
  <2>1. /\ IsFiniteSet(0..(Len(worms) - 1))
        /\ Cardinality(0..(Len(worms) - 1)) =
             IF 0 > Len(worms) - 1 THEN 0 ELSE (Len(worms) - 1) - 0 + 1
    <3>1. 0 \in Int /\ Len(worms) - 1 \in Int
      BY <1>1
    <3> QED
      BY <3>1, FS_Interval
  <2> QED
    BY <1>1, <2>1 DEF Players
<1> QED
  BY <1>2, FS_Subset DEF Dead

\* What move_worm() is called with: worm k of ws, alive, born just now or not,
\* among the other worms as they are.
Arrives(ws, k) ==
  /\ ws \in Seq(Worm) /\ k \in 0..(Len(ws) - 1) /\ k \in 0..(worms_num - 1)
  /\ Players \cup {k} = 0..(Len(ws) - 1)
  /\ k \notin Dead /\ ws[k + 1].alive
  /\ \A j \in Players \ {k} : ws[j + 1] = worms[j + 1]
  /\ MoveWorm(ws, k)
  /\ init /\ ~Finished /\ UNCHANGED <<init, worms_num>>

LEMMA SpawnWormArrives ==
  ASSUME TypeInv, SpawnWorm
  PROVE  \E ws : Arrives(ws, i)
<1>1. PICK column \in 0..(Width - 1), row \in 0..(Height - 1), h \in Headings :
        MoveWorm(Append(worms, NewWorm(column, row, h, directions[i + 1])), i)
  BY DEF SpawnWorm
<1> DEFINE w == NewWorm(column, row, h, directions[i + 1])
           ws == Append(worms, w)
<1>2. /\ worms \in Seq(Worm) /\ i \in Nat /\ i = Len(worms) /\ i < worms_num
      /\ worms_num \in Nat /\ directions[i + 1] \in Turns
      /\ init /\ ~Finished /\ UNCHANGED <<init, worms_num>>
  BY DEF SpawnWorm, TypeInv, TypeOK, Shape
<1>3. w \in Worm /\ w.alive
  BY <1>2, NewWormType, BoardAssumption
<1> HIDE DEF w
<1>4. /\ ws \in Seq(Worm) /\ Len(ws) = i + 1 /\ ws[i + 1] = w
      /\ \A j \in 0..(i - 1) : ws[j + 1] = worms[j + 1]
  BY <1>2, <1>3
<1>5. MoveWorm(ws, i)
  BY <1>1 DEF w
<1> HIDE DEF ws
<1>6. /\ i \in 0..(Len(ws) - 1) /\ i \in 0..(worms_num - 1)
      /\ Players = 0..(i - 1) /\ Players \cup {i} = 0..(Len(ws) - 1)
      /\ i \notin Dead
  BY <1>2, <1>4 DEF Players, Dead
<1> QED
  BY <1>2, <1>3, <1>4, <1>5, <1>6 DEF Arrives

LEMMA LeavePixelArrives ==
  ASSUME TypeInv, LeavePixel
  PROVE  \E ws : Arrives(ws, i)
<1> DEFINE ws == [worms EXCEPT ![i + 1] = Advance(@)]
<1>1. /\ worms \in Seq(Worm) /\ Len(worms) \in Nat /\ Len(worms) = worms_num
      /\ init /\ ~Finished /\ UNCHANGED <<init, worms_num>>
  BY DEF LeavePixel, InRound, TypeInv, TypeOK, Shape, SomeoneLives
<1>2. /\ i \in Nat /\ i + 1 \in 1..Len(worms) /\ worms[i + 1] \in Worm
      /\ ws \in Seq(Worm) /\ Len(ws) = Len(worms)
      /\ ws[i + 1] = Advance(worms[i + 1])
      /\ worms[i + 1].alive /\ MoveWorm(ws, i)
  BY AdvanceInRound DEF LeavePixel, Moves
<1>3. \A j \in Players \ {i} : ws[j + 1] = worms[j + 1]
  BY <1>1, <1>2 DEF Players
<1> HIDE DEF ws
<1>4. ws[i + 1].alive
  BY <1>2 DEF Advance, Worm
<1>5. /\ i \in 0..(Len(ws) - 1) /\ i \in 0..(worms_num - 1)
      /\ Players \cup {i} = 0..(Len(ws) - 1) /\ i \notin Dead
  BY <1>1, <1>2 DEF Players, Dead
<1> QED
  BY <1>1, <1>2, <1>3, <1>4, <1>5 DEF Arrives

LEMMA MoveWormDead ==
  ASSUME NEW ws, NEW k, Arrives(ws, k)
  PROVE  /\ Die(ws, k) => Dead' = Dead \cup {k}
         /\ Eat(ws, k) => Dead' = Dead
<1>0. /\ ws \in Seq(Worm) /\ k \in 0..(Len(ws) - 1)
      /\ Players \cup {k} = 0..(Len(ws) - 1)
      /\ k \notin Dead /\ ws[k + 1].alive
      /\ \A j \in Players \ {k} : ws[j + 1].alive = worms[j + 1].alive
  BY DEF Arrives
<1>1. ASSUME Die(ws, k) PROVE Dead' = Dead \cup {k}
  <2>1. worms' = [ws EXCEPT ![k + 1].alive = FALSE]
    BY <1>1 DEF Die, Killed
  <2>2. k + 1 \in 1..Len(ws) /\ Len(worms') = Len(ws) /\ ws[k + 1] \in Worm
    BY <1>0, <2>1
  <2>3. ~worms'[k + 1].alive
    BY <1>0, <2>1, <2>2 DEF Worm
  <2>4. \A j \in Players \ {k} : worms'[j + 1] = ws[j + 1]
    BY <1>0, <2>1, <2>2 DEF Players
  <2>5. Players' = Players \cup {k}
    BY <1>0, <2>2 DEF Players
  <2> QED
    BY <1>0, <2>3, <2>4, <2>5 DEF Dead
<1>2. ASSUME Eat(ws, k) PROVE Dead' = Dead
  <2>1. worms' = ws
    BY <1>2 DEF Eat
  <2>2. Players' = Players \cup {k}
    BY <1>0, <2>1 DEF Players
  <2> QED
    BY <1>0, <2>1, <2>2 DEF Dead
<1> QED
  BY <1>1, <1>2

LEMMA MoveWormDeaths ==
  ASSUME TypeInv, DeathInv, NEW ws, NEW k, Arrives(ws, k)
  PROVE  DeathInv'
<1>1. IsFiniteSet(Dead) /\ k \notin Dead
  BY DeadFinite DEF Arrives
<1>2. CASE Die(ws, k)
  <2>1. dead' = dead + 1 /\ Dead' = Dead \cup {k}
    BY <1>2, MoveWormDead DEF Die
  <2> QED
    BY <1>1, <2>1, FS_AddElement DEF DeathInv
<1>3. CASE Eat(ws, k)
  BY <1>3, MoveWormDead DEF DeathInv, Eat
<1> QED
  BY <1>2, <1>3 DEF MoveWorm, Arrives

\* A step that changes no worm's life and no worm's place changes nothing.
LEMMA SameDeaths ==
  ASSUME DeathInv, dead' = dead, Len(worms') = Len(worms),
         \A j \in Players : worms'[j + 1].alive = worms[j + 1].alive
  PROVE  DeathInv'
<1>1. Players' = Players
  BY DEF Players
<1>2. Dead' = Dead
  BY <1>1 DEF Dead
<1> QED
  BY <1>2 DEF DeathInv

LEMMA InitDeathInv == Init => DeathInv
<1> SUFFICES ASSUME Init PROVE DeathInv
  OBVIOUS
<1>1. dead = 0 /\ Len(worms) = 0
  BY DEF Init
<1>2. Dead = {}
  BY <1>1 DEF Dead, Players
<1> QED
  BY <1>1, <1>2, FS_EmptySet DEF DeathInv

LEMMA NextDeathInv == TypeInv /\ DeathInv /\ [Next]_vars => DeathInv'
<1> SUFFICES ASSUME TypeInv, DeathInv, [Next]_vars PROVE DeathInv'
  OBVIOUS
<1>1. worms \in Seq(Worm) /\ Len(worms) \in Nat
  BY DEF TypeInv, TypeOK
<1>2. CASE \E n \in 2..MaxPlayers : \E dirs \in [1..n -> Turns] : StartRefresh(dirs)
  <2>1. dead' = 0 /\ Len(worms') = 0
    BY <1>2 DEF StartRefresh, ClearDead
  <2>2. Dead' = {}
    BY <2>1 DEF Dead, Players
  <2> QED
    BY <2>1, <2>2, FS_EmptySet DEF DeathInv
<1>3. CASE SpawnWorm
  BY <1>3, SpawnWormArrives, MoveWormDeaths
<1>4. CASE StayOnPixel
  <2>1. /\ i \in Nat /\ i + 1 \in 1..Len(worms) /\ worms[i + 1] \in Worm
        /\ Len(worms') = Len(worms) /\ worms'[i + 1] = Advance(worms[i + 1])
    BY <1>4, AdvanceInRound DEF StayOnPixel
  <2>2. \A j \in Players \ {i} : worms'[j + 1] = worms[j + 1]
    BY <1>1, <1>4, <2>1 DEF StayOnPixel, Players
  <2>3. worms'[i + 1].alive = worms[i + 1].alive
    BY <2>1 DEF Advance, Worm
  <2>4. dead' = dead
    BY <1>4 DEF StayOnPixel
  <2> QED
    BY <2>1, <2>2, <2>3, <2>4, SameDeaths
<1>5. CASE LeavePixel
  BY <1>5, LeavePixelArrives, MoveWormDeaths
<1>6. CASE RefreshDone \/ StartIncrement \/ SkipDead \/ IncrementDone
  BY <1>6, SameDeaths DEF RefreshDone, StartIncrement, SkipDead, IncrementDone
<1>7. CASE \E k \in 0..(worms_num - 1), turn \in Turns : UpdateWorm(k, turn)
  <2>1. PICK k \in 0..(worms_num - 1), turn \in Turns : UpdateWorm(k, turn)
    BY <1>7
  <2>2. k \in Nat /\ k + 1 \in 1..Len(worms)
    BY <2>1 DEF TypeInv, TypeOK, Shape, SomeoneLives, UpdateWorm
  <2>3. worms[k + 1] \in Worm
    BY <1>1, <2>2
  <2>4. /\ worms' = [worms EXCEPT ![k + 1].last_turn = turn] /\ dead' = dead
    BY <2>1 DEF UpdateWorm
  <2>5. Len(worms') = Len(worms)
    BY <1>1, <2>4
  <2>6. worms'[k + 1].alive = worms[k + 1].alive
    BY <1>1, <2>2, <2>3, <2>4 DEF Worm
  <2>7. \A j \in Players \ {k} : worms'[j + 1] = worms[j + 1]
    BY <1>1, <2>2, <2>4 DEF Players
  <2> QED
    BY <2>4, <2>5, <2>6, <2>7, SameDeaths
<1>8. CASE UNCHANGED vars
  BY <1>8, SameDeaths DEF vars
<1> QED
  BY <1>2, <1>3, <1>4, <1>5, <1>6, <1>7, <1>8 DEF Next, Refresh, Round

LEMMA DeathInvariance == Spec => []DeathInv
<1>1. TypeInv /\ DeathInv /\ [Next]_vars => DeathInv'
  BY NextDeathInv
<1> QED
  BY <1>1, InitDeathInv, TypeInvariance, PTL DEF Spec

\* dead, which finished() compares with worms_num - 1 for equality, is the
\* number of dead worms, and never all of them are dead: the comparison cannot
\* be passed over, and a game always leaves somebody to win it.
THEOREM DeathsAreCounted == Spec => []DeadCounted
<1>1. TypeInv /\ DeathInv => DeadCounted
  <2> SUFFICES ASSUME TypeInv, DeathInv PROVE DeadCounted
    OBVIOUS
  <2>1. /\ IsFiniteSet(Players) /\ Cardinality(Players) = Len(worms)
        /\ IsFiniteSet(Dead)
    BY DeadFinite
  <2>2. ASSUME Players # {}
        PROVE  \E k \in Players : worms[k + 1].alive
    <3>1. Len(worms) \in Nat /\ Len(worms) > 0
      BY <2>2 DEF TypeInv, TypeOK, Players
    <3>2. Cardinality(Dead) < Cardinality(Players)
      BY <2>1, <3>1 DEF TypeInv, TypeOK, SomeoneLives, DeathInv
    <3>3. Dead # Players
      BY <2>1, <3>1, <3>2
    <3> QED
      BY <3>3 DEF Dead
  <2> QED
    BY <2>2 DEF DeadCounted, DeathInv, Dead
<1> QED
  BY <1>1, DeathInvariance, TypeInvariance, PTL

-----------------------------------------------------------------------------
(* The log of a history. *)

EntryOf(e) == [type |-> TypeName[e.type + 1], player |-> e.player]
LogOf(h) == [n \in 1..Len(h) |-> EntryOf(h[n])]

LEMMA LogIsLogOf == Log = LogOf(history) /\ Log' = LogOf(history')
  BY DEF Log, LogOf, EntryOf

Entries ==
  [type : {"NEW_GAME", "PIXEL", "PLAYER_ELIMINATED", "GAME_OVER"}, player : Int]

LEMMA TypeNames ==
  /\ TypeName[NEW_GAME + 1] = "NEW_GAME"
  /\ TypeName[PIXEL + 1] = "PIXEL"
  /\ TypeName[PLAYER_ELIMINATED + 1] = "PLAYER_ELIMINATED"
  /\ TypeName[GAME_OVER + 1] = "GAME_OVER"
  BY DEF TypeName, NEW_GAME, PIXEL, PLAYER_ELIMINATED, GAME_OVER

LEMMA EntryType ==
  ASSUME NEW e \in EventRecord
  PROVE  EntryOf(e) \in Entries
<1>1. e.type \in {NEW_GAME, PIXEL, PLAYER_ELIMINATED, GAME_OVER} /\ e.player \in Int
  BY DEF EventRecord, NEW_GAME, PIXEL, PLAYER_ELIMINATED, GAME_OVER, None
<1> QED
  BY <1>1, TypeNames DEF Entries, EntryOf

LEMMA LogOfAppend ==
  ASSUME NEW h \in Seq(EventRecord), NEW e \in EventRecord
  PROVE  /\ LogOf(h) \in Seq(Entries)
         /\ LogOf(Append(h, e)) = Append(LogOf(h), EntryOf(e))
<1>1. /\ Len(h) \in Nat /\ Append(h, e) \in Seq(EventRecord)
      /\ Len(Append(h, e)) = Len(h) + 1
      /\ \A n \in 1..Len(h) : Append(h, e)[n] = h[n]
      /\ Append(h, e)[Len(h) + 1] = e
  OBVIOUS
<1>2. /\ LogOf(h) \in Seq(Entries) /\ Len(LogOf(h)) = Len(h)
      /\ LogOf(Append(h, e)) \in Seq(Entries)
      /\ Len(LogOf(Append(h, e))) = Len(h) + 1
  BY <1>1, EntryType DEF LogOf
<1>3. Append(LogOf(h), EntryOf(e)) \in Seq(Entries)
  BY <1>2, EntryType
<1>4. \A n \in 1..(Len(h) + 1) :
        LogOf(Append(h, e))[n] = Append(LogOf(h), EntryOf(e))[n]
  <2>1. ASSUME NEW n \in 1..(Len(h) + 1)
        PROVE  LogOf(Append(h, e))[n] = IF n = Len(h) + 1 THEN EntryOf(e) ELSE EntryOf(h[n])
    BY <1>1 DEF LogOf
  <2>2. ASSUME NEW n \in 1..(Len(h) + 1)
        PROVE  Append(LogOf(h), EntryOf(e))[n] = IF n = Len(h) + 1 THEN EntryOf(e) ELSE LogOf(h)[n]
    BY <1>1, <1>2, EntryType
  <2>3. \A n \in 1..Len(h) : LogOf(h)[n] = EntryOf(h[n])
    BY DEF LogOf
  <2> QED
    <3> TAKE n \in 1..(Len(h) + 1)
    <3>1. n = Len(h) + 1 \/ n \in 1..Len(h)
      BY <1>1
    <3> QED
      BY <2>1, <2>2, <2>3, <3>1
<1> QED
  BY <1>1, <1>2, <1>3, <1>4

\* What \o does with the short sequences of a death.
LEMMA ConcatShort ==
  ASSUME NEW S, NEW s \in Seq(S), NEW a \in S, NEW b \in S
  PROVE  /\ s \o <<>> = s
         /\ s \o <<a>> = Append(s, a)
         /\ s \o <<a, b>> = Append(Append(s, a), b)
  OBVIOUS

-----------------------------------------------------------------------------
(* Who stands. *)

Unborn == ~init => worms_num = 0

LEMMA UnbornInvariance == Spec => []Unborn
<1>1. Init => Unborn
  BY DEF Init, Unborn
<1>2. Unborn /\ [Next]_vars => Unborn'
  BY DEF Unborn, Next, Refresh, Round, StartRefresh, SpawnWorm, RefreshDone,
         StartIncrement, SkipDead, StayOnPixel, LeavePixel, IncrementDone,
         UpdateWorm, vars
<1> QED
  BY <1>1, <1>2, PTL DEF Spec

LEMMA StandingIsRest ==
  ASSUME Len(worms) \in Nat, Len(worms') \in Nat
  PROVE  /\ Standing = (0..(worms_num - 1)) \ Dead
         /\ Standing' = (0..(worms_num' - 1)) \ Dead'
  BY DEF Standing, Dead, Players

LEMMA SameCardinality == \A S : Abstract!Cardinality(S) = Cardinality(S)
  BY DEF Abstract!Cardinality, Cardinality

\* The counter dead tells how many players stand, and finished() that it is
\* one.
LEMMA StandingCount ==
  ASSUME TypeInv, DeathInv, Unborn, Len(worms') \in Nat
  PROVE  /\ IsFiniteSet(Standing)
         /\ Cardinality(Standing) = worms_num - dead
         /\ Standing # {} <=> init
         /\ Abstract!Running <=> (init /\ ~Finished)
<1>1. /\ worms_num \in Nat /\ dead \in Nat /\ Len(worms) \in Nat
      /\ Len(worms) <= worms_num
      /\ init => worms_num >= 2 /\ dead < worms_num
      /\ ~init => worms_num = 0 /\ dead = 0
  BY DEF TypeInv, TypeOK, Shape, SomeoneLives, Unborn
<1>2. /\ IsFiniteSet(0..(worms_num - 1))
      /\ Cardinality(0..(worms_num - 1)) = worms_num
  <2>1. 0 \in Int /\ worms_num - 1 \in Int
    BY <1>1
  <2>2. /\ IsFiniteSet(0..(worms_num - 1))
        /\ Cardinality(0..(worms_num - 1)) =
             IF 0 > worms_num - 1 THEN 0 ELSE (worms_num - 1) - 0 + 1
    BY <2>1, FS_Interval
  <2> QED
    BY <1>1, <2>2
<1>3. Dead \subseteq 0..(worms_num - 1)
  BY <1>1 DEF Dead, Players
<1>4. IsFiniteSet(Dead) /\ Cardinality(Dead) = dead
  BY DeadFinite DEF DeathInv
<1>5. Standing = (0..(worms_num - 1)) \ Dead
  BY <1>1, StandingIsRest
<1>6. (0..(worms_num - 1)) \cap Dead = Dead
  BY <1>3
<1>7. IsFiniteSet(Standing) /\ Cardinality(Standing) = worms_num - dead
  <2> DEFINE all == 0..(worms_num - 1)
  <2>1. IsFiniteSet(all) /\ Cardinality(all) = worms_num
    BY <1>2
  <2> HIDE DEF all
  <2>2. /\ IsFiniteSet(all \ Dead)
        /\ Cardinality(all \ Dead) = Cardinality(all) - Cardinality(all \cap Dead)
    BY <2>1, FS_Difference
  <2> QED
    BY <1>4, <1>5, <1>6, <2>1, <2>2 DEF all
<1>8. Standing # {} <=> Cardinality(Standing) # 0
  BY <1>7, FS_EmptySet
<1>9. Standing # {} <=> init
  BY <1>1, <1>7, <1>8
<1> QED
  BY <1>1, <1>7, <1>9, SameCardinality DEF Abstract!Running, Abstract!Over, Finished

-----------------------------------------------------------------------------
(* Every step of Game is a step of Arena, or none. *)

LEMMA InitArena == Init => Abstract!ArenaInit
<1> SUFFICES ASSUME Init PROVE Abstract!ArenaInit
  OBVIOUS
<1>1. Standing = {}
  BY DEF Init, Standing
<1>2. Log = <<>>
  BY DEF Init, Log
<1> QED
  BY <1>1, <1>2 DEF Abstract!ArenaInit

\* A worm that eats a pixel claims it.
LEMMA EatClaims ==
  ASSUME TypeInv, DeathInv, Unborn, TypeInv',
         NEW ws, NEW k, Arrives(ws, k), Eat(ws, k)
  PROVE  k \in Standing /\ Abstract!Claim(k)
<1>1. /\ Len(worms) \in Nat /\ Len(worms') \in Nat /\ history \in Seq(EventRecord)
      /\ history' \in Seq(EventRecord) /\ Len(history') \in Nat
  BY DEF TypeInv, TypeOK
<1>2. k \in 0..(worms_num - 1) /\ k \notin Dead /\ init /\ ~Finished
      /\ worms_num' = worms_num
  BY DEF Arrives
<1>3. k \in Standing /\ Standing' = Standing
  BY <1>1, <1>2, StandingIsRest, MoveWormDead
<1>4. Abstract!Running
  BY <1>1, <1>2, StandingCount
<1> DEFINE e == PixelEvent(cnt, k, Pos(ws[k + 1]))
<1>5. history' = Append(history, e)
  BY DEF Eat
<1>6. e = history'[Len(history')]
  BY <1>1, <1>5
<1>7. e \in EventRecord
  BY <1>1, <1>5, <1>6
<1>8. EntryOf(e) = Abstract!Entry("PIXEL", k)
  BY TypeNames DEF EntryOf, PixelEvent, Event, Abstract!Entry
<1>9. Log' = Append(Log, Abstract!Entry("PIXEL", k))
  BY <1>1, <1>5, <1>7, <1>8, LogIsLogOf, LogOfAppend
<1> QED
  BY <1>3, <1>4, <1>9 DEF Abstract!Claim

\* A worm that dies falls, and GAME_OVER comes with the last but one of them.
LEMMA DieFalls ==
  ASSUME TypeInv, DeathInv, Unborn, TypeInv',
         NEW ws, NEW k, Arrives(ws, k), Die(ws, k)
  PROVE  k \in Standing /\ Abstract!Fall(k)
<1>1. /\ Len(worms) \in Nat /\ Len(worms') \in Nat /\ history \in Seq(EventRecord)
      /\ worms_num \in Nat /\ dead \in Nat /\ cnt \in Nat
  BY DEF TypeInv, TypeOK
<1>2. k \in 0..(worms_num - 1) /\ k \notin Dead /\ init /\ ~Finished
      /\ worms_num' = worms_num
  BY DEF Arrives
<1>3. k \in Standing /\ Standing' = Standing \ {k}
  BY <1>1, <1>2, StandingIsRest, MoveWormDead
<1>4. Abstract!Running
  BY <1>1, <1>2, StandingCount
<1>5. Cardinality(Standing') = 1 <=> dead + 1 = worms_num - 1
  <2>1. IsFiniteSet(Standing) /\ Cardinality(Standing) = worms_num - dead
    BY <1>1, StandingCount
  <2>2. Cardinality(Standing \ {k}) = Cardinality(Standing) - 1
    BY <1>3, <2>1, FS_RemoveElement
  <2> QED
    BY <1>1, <1>3, <2>1, <2>2
<1> DEFINE e == EliminatedEvent(cnt, k)
           o == GameOverEvent(cnt + 1)
<1>6. /\ e \in EventRecord /\ EntryOf(e) = Abstract!Entry("PLAYER_ELIMINATED", k)
      /\ o \in EventRecord
      /\ EntryOf(o) = Abstract!Entry("GAME_OVER", Abstract!Nobody)
  <2>1. e \in EventRecord /\ o \in EventRecord
    BY <1>1, <1>2 DEF EliminatedEvent, GameOverEvent, Event, EventRecord,
           None, NEW_GAME, PIXEL, PLAYER_ELIMINATED, GAME_OVER
  <2> QED
    BY <2>1, TypeNames DEF EntryOf, EliminatedEvent, GameOverEvent, Event,
       Abstract!Entry, Abstract!Nobody, None
<1>7. history' = IF dead + 1 = worms_num - 1
                   THEN Append(Append(history, e), o) ELSE Append(history, e)
  BY <1>1, <1>6, ConcatShort DEF Die, Obituary
<1> HIDE DEF e, o
<1>8. /\ LogOf(history) \in Seq(Entries)
      /\ LogOf(Append(history, e)) = Append(LogOf(history), EntryOf(e))
      /\ Append(LogOf(history), EntryOf(e)) \in Seq(Entries)
      /\ LogOf(Append(Append(history, e), o)) =
           Append(Append(LogOf(history), EntryOf(e)), EntryOf(o))
  <2>1. Append(history, e) \in Seq(EventRecord)
    BY <1>1, <1>6
  <2> QED
    BY <1>1, <1>6, <2>1, LogOfAppend, EntryType
<1>9. Log' = Append(Log, EntryOf(e)) \o
               (IF dead + 1 = worms_num - 1 THEN <<EntryOf(o)>> ELSE <<>>)
  <2>1. EntryOf(e) \in Entries /\ EntryOf(o) \in Entries
    BY <1>6, EntryType
  <2>2. CASE dead + 1 = worms_num - 1
    BY <1>7, <1>8, <2>1, <2>2, LogIsLogOf, ConcatShort
  <2>3. CASE dead + 1 # worms_num - 1
    BY <1>7, <1>8, <2>1, <2>3, LogIsLogOf, ConcatShort
  <2> QED
    BY <2>2, <2>3
<1> QED
  BY <1>3, <1>4, <1>5, <1>6, <1>9, SameCardinality DEF Abstract!Fall

LEMMA MoveWormArena ==
  ASSUME TypeInv, DeathInv, Unborn, TypeInv', NEW ws, NEW k, Arrives(ws, k)
  PROVE  Abstract!ArenaNext
  BY EatClaims, DieFalls DEF Arrives, MoveWorm, Abstract!ArenaNext

\* refresh() begins a game in which all players stand.
LEMMA StartRefreshBegins ==
  ASSUME TypeInv, DeathInv, Unborn, NEW n \in 2..MaxPlayers,
         NEW dirs \in [1..n -> Turns], StartRefresh(dirs)
  PROVE  Abstract!ArenaNext
<1>1. Len(dirs) = n /\ n \in Nat
  BY PlayersAssumption
<1>2. worms_num' = n /\ worms' = <<>> /\ history' = <<NewGameEvent(cnt)>>
  BY <1>1 DEF StartRefresh, Announce
<1>3. Standing' = 0..(n - 1)
  BY <1>1, <1>2 DEF Standing
<1>4. ~Abstract!Running
  <2>1. Len(worms') \in Nat
    BY <1>2
  <2> QED
    BY <2>1, StandingCount DEF StartRefresh
<1>5. Log' = <<Abstract!Entry("NEW_GAME", Abstract!Nobody)>>
  <2>1. EntryOf(NewGameEvent(cnt)) = Abstract!Entry("NEW_GAME", Abstract!Nobody)
    BY TypeNames DEF EntryOf, NewGameEvent, Event, None,
       Abstract!Entry, Abstract!Nobody
  <2>2. Log' = LogOf(<<NewGameEvent(cnt)>>)
    BY <1>2, LogIsLogOf
  <2>3. LogOf(<<NewGameEvent(cnt)>>) = <<EntryOf(NewGameEvent(cnt))>>
    BY DEF LogOf
  <2> QED
    BY <2>1, <2>2, <2>3
<1> QED
  BY <1>3, <1>4, <1>5 DEF Abstract!ArenaNext, Abstract!Begin

\* A step that kills nobody and adds no event is not seen.
LEMMA Unseen ==
  ASSUME UNCHANGED <<history, worms_num>>, Len(worms') = Len(worms),
         Len(worms) \in Nat,
         \A j \in Players : worms'[j + 1].alive = worms[j + 1].alive
  PROVE  UNCHANGED <<Standing, Log>>
<1>1. Log' = Log
  BY DEF Log
<1>2. Players' = Players
  BY DEF Players
<1>3. Dead' = Dead
  BY <1>2 DEF Dead
<1> QED
  BY <1>1, <1>3, StandingIsRest

LEMMA StayOnPixelUnseen ==
  ASSUME TypeInv, StayOnPixel
  PROVE  UNCHANGED <<Standing, Log>>
<1>1. /\ i \in Nat /\ i + 1 \in 1..Len(worms) /\ worms[i + 1] \in Worm
      /\ worms \in Seq(Worm) /\ Len(worms) \in Nat /\ Len(worms') = Len(worms)
      /\ worms'[i + 1] = Advance(worms[i + 1])
  BY AdvanceInRound DEF StayOnPixel, TypeInv, TypeOK
<1>2. \A j \in Players \ {i} : worms'[j + 1] = worms[j + 1]
  BY <1>1 DEF StayOnPixel, Players
<1>3. worms'[i + 1].alive = worms[i + 1].alive
  BY <1>1 DEF Advance, Worm
<1>4. UNCHANGED <<history, worms_num>>
  BY DEF StayOnPixel
<1> QED
  BY <1>1, <1>2, <1>3, <1>4, Unseen

LEMMA UpdateWormUnseen ==
  ASSUME TypeInv, NEW k \in 0..(worms_num - 1), NEW turn \in Turns,
         UpdateWorm(k, turn)
  PROVE  UNCHANGED <<Standing, Log>>
<1>1. k \in Nat /\ k + 1 \in 1..Len(worms)
  BY DEF TypeInv, TypeOK, Shape, SomeoneLives, UpdateWorm
<1>2. worms \in Seq(Worm) /\ Len(worms) \in Nat /\ worms[k + 1] \in Worm
  BY <1>1 DEF TypeInv, TypeOK
<1>3. worms' = [worms EXCEPT ![k + 1].last_turn = turn]
  BY DEF UpdateWorm
<1>4. /\ Len(worms') = Len(worms)
      /\ worms'[k + 1].alive = worms[k + 1].alive
      /\ \A j \in Players \ {k} : worms'[j + 1] = worms[j + 1]
  BY <1>1, <1>2, <1>3 DEF Players, Worm
<1>5. UNCHANGED <<history, worms_num>>
  BY DEF UpdateWorm
<1> QED
  BY <1>2, <1>4, <1>5, Unseen

LEMMA NextArena ==
  ASSUME TypeInv, DeathInv, Unborn, TypeInv', [Next]_vars
  PROVE  Abstract!ArenaNext \/ UNCHANGED <<Standing, Log>>
<1>1. Len(worms) \in Nat
  BY DEF TypeInv, TypeOK
<1>2. CASE \E n \in 2..MaxPlayers : \E dirs \in [1..n -> Turns] : StartRefresh(dirs)
  BY <1>2, StartRefreshBegins
<1>3. CASE SpawnWorm
  BY <1>3, SpawnWormArrives, MoveWormArena
<1>4. CASE LeavePixel
  BY <1>4, LeavePixelArrives, MoveWormArena
<1>5. CASE StayOnPixel
  BY <1>5, StayOnPixelUnseen
<1>6. CASE \E k \in 0..(worms_num - 1), turn \in Turns : UpdateWorm(k, turn)
  BY <1>6, UpdateWormUnseen
<1>7. CASE RefreshDone \/ StartIncrement \/ SkipDead \/ IncrementDone \/ UNCHANGED vars
  <2>1. UNCHANGED <<history, worms_num, worms>>
    BY <1>7 DEF RefreshDone, StartIncrement, SkipDead, IncrementDone, vars
  <2> QED
    BY <1>1, <2>1, Unseen
<1> QED
  BY <1>2, <1>3, <1>4, <1>5, <1>6, <1>7 DEF Next, Refresh, Round

\* The server's game is a last-one-standing game: only players alive act,
\* nobody comes back, and GAME_OVER comes with the elimination that leaves
\* one player, and at no other time.
THEOREM GameImplementsArena == Spec => ImplementsArena
<1>1. TypeInv /\ TypeInv' /\ DeathInv /\ Unborn /\ [Next]_vars
        => [Abstract!ArenaNext]_(Abstract!arenaVars)
  BY NextArena DEF Abstract!arenaVars
<1> QED
  BY <1>1, InitArena, TypeInvariance, DeathInvariance, UnbornInvariance, PTL
     DEF Spec, ImplementsArena, Abstract!ArenaSpec
==============================================================================
