------------------------- MODULE GameHistory_proofs -------------------------
(***************************************************************************)
(* Theorems about what the history of a game tells: the board can be       *)
(* rebuilt from it, every worm's life can be followed in it, and a round   *)
(* is exactly the piece of it that increment() reports.                    *)
(***************************************************************************)
EXTENDS Game_proofs

-----------------------------------------------------------------------------
(* What move_worm() appends. *)

LEMMA EatAppends ==
  ASSUME TypeInv, NEW ws, NEW k, Eat(ws, k)
  PROVE  /\ Len(history') = Len(history) + 1
         /\ \A n \in 1..Len(history) : history'[n] = history[n]
         /\ LET e == history'[Len(history) + 1]
            IN  e.type = PIXEL /\ e.player = k /\ <<e.x, e.y>> = Pos(ws[k + 1])
<1>1. history \in Seq(EventRecord) /\ Len(history) \in Nat
  BY DEF TypeInv, TypeOK
<1>2. /\ Len(history') = Len(history) + 1
      /\ \A n \in 1..Len(history) : history'[n] = history[n]
      /\ history'[Len(history) + 1] = PixelEvent(cnt, k, Pos(ws[k + 1]))
  BY <1>1 DEF Eat
<1> QED
  BY <1>2 DEF PixelEvent, Event, Pos

LEMMA DieAppends ==
  ASSUME TypeInv, NEW ws, NEW k, Die(ws, k)
  PROVE  /\ Len(history') = Len(history) + 1 \/ Len(history') = Len(history) + 2
         /\ \A n \in 1..Len(history) : history'[n] = history[n]
         /\ LET e == history'[Len(history) + 1]
            IN  e.type = PLAYER_ELIMINATED /\ e.player = k
         /\ Len(history') = Len(history) + 2 =>
              LET e == history'[Len(history) + 2]
              IN  e.type = GAME_OVER /\ e.player = None
<1>1. history \in Seq(EventRecord) /\ Len(history) \in Nat
  BY DEF TypeInv, TypeOK
<1>2. CASE dead + 1 = worms_num - 1
  <2>1. history' = history \o <<EliminatedEvent(cnt, k), GameOverEvent(cnt + 1)>>
    BY <1>2 DEF Die, Obituary
  <2>2. /\ Len(history') = Len(history) + 2
        /\ \A n \in 1..Len(history) : history'[n] = history[n]
        /\ history'[Len(history) + 1] = EliminatedEvent(cnt, k)
        /\ history'[Len(history) + 2] = GameOverEvent(cnt + 1)
    BY <1>1, <2>1
  <2> QED
    BY <2>2 DEF EliminatedEvent, GameOverEvent, Event
<1>3. CASE dead + 1 # worms_num - 1
  <2>1. history' = history \o <<EliminatedEvent(cnt, k)>>
    BY <1>3 DEF Die, Obituary
  <2>2. /\ Len(history') = Len(history) + 1
        /\ \A n \in 1..Len(history) : history'[n] = history[n]
        /\ history'[Len(history) + 1] = EliminatedEvent(cnt, k)
    BY <1>1, <2>1
  <2> QED
    BY <1>1, <2>2 DEF EliminatedEvent, Event
<1> QED
  BY <1>2, <1>3

-----------------------------------------------------------------------------
(* The board. *)

LEMMA MoveWormBoard ==
  ASSUME TypeInv, BoardIsHistory, NEW ws, NEW k, MoveWorm(ws, k)
  PROVE  BoardIsHistory'
<1>1. Len(history) \in Nat
  BY DEF TypeInv, TypeOK
<1>2. CASE Die(ws, k)
  <2>1. /\ Len(history') = Len(history) + 1 \/ Len(history') = Len(history) + 2
        /\ \A n \in 1..Len(history) : history'[n] = history[n]
        /\ \A n \in 1..Len(history') : n \notin 1..Len(history) => history'[n].type # PIXEL
    BY <1>1, <1>2, DieAppends DEF PIXEL, PLAYER_ELIMINATED, GAME_OVER
  <2>2. PixelEvents' = PixelEvents
    BY <1>1, <2>1 DEF PixelEvents
  <2>3. \A n \in PixelEvents : PixelAt(n)' = PixelAt(n)
    BY <2>1 DEF PixelEvents, PixelAt
  <2>4. pixels' = pixels
    BY <1>2 DEF Die
  <2> QED
    BY <2>2, <2>3, <2>4 DEF BoardIsHistory
<1>3. CASE Eat(ws, k)
  <2>1. PICK last : last = Len(history) + 1
    OBVIOUS
  <2>2. PICK p : p = Pos(ws[k + 1])
    OBVIOUS
  <2>3. /\ Len(history') = last
        /\ \A n \in 1..Len(history) : history'[n] = history[n]
        /\ history'[last].type = PIXEL /\ PixelAt(last)' = p
    BY <1>3, <2>1, <2>2, EatAppends DEF PixelAt
  <2>4. PixelEvents' = PixelEvents \cup {last} /\ last \notin PixelEvents
    BY <1>1, <2>1, <2>3 DEF PixelEvents
  <2>5. \A n \in PixelEvents : PixelAt(n)' = PixelAt(n)
    BY <2>3 DEF PixelEvents, PixelAt
  <2>6. pixels' = pixels \cup {p} /\ p \notin pixels
    BY <1>3, <2>2 DEF Eat, Blocked
  <2> QED
    BY <2>3, <2>4, <2>5, <2>6 DEF BoardIsHistory
<1> QED
  BY <1>2, <1>3 DEF MoveWorm

LEMMA InitBoard == Init => BoardIsHistory
<1> SUFFICES ASSUME Init PROVE BoardIsHistory
  OBVIOUS
<1>1. pixels = {} /\ history = <<>> /\ Len(history) = 0
  BY DEF Init
<1>2. PixelEvents = {}
  BY <1>1 DEF PixelEvents
<1> QED
  BY <1>1, <1>2 DEF BoardIsHistory

LEMMA NextBoard == TypeInv /\ BoardIsHistory /\ [Next]_vars => BoardIsHistory'
<1> SUFFICES ASSUME TypeInv, BoardIsHistory, [Next]_vars PROVE BoardIsHistory'
  OBVIOUS
<1>1. CASE \E n \in 2..MaxPlayers : \E dirs \in [1..n -> Turns] : StartRefresh(dirs)
  <2>1. pixels' = {} /\ history' = <<NewGameEvent(cnt)>>
    BY <1>1 DEF StartRefresh, ClearBoard, Announce
  <2>2. Len(history') = 1 /\ history'[1].type # PIXEL
    BY <2>1 DEF NewGameEvent, Event, NEW_GAME, PIXEL
  <2>3. PixelEvents' = {}
    BY <2>2 DEF PixelEvents
  <2> QED
    BY <2>1, <2>3 DEF BoardIsHistory
<1>2. CASE SpawnWorm
  BY <1>2, MoveWormBoard DEF SpawnWorm
<1>3. CASE LeavePixel
  BY <1>3, MoveWormBoard DEF LeavePixel
<1>4. ASSUME UNCHANGED <<pixels, history>> PROVE BoardIsHistory'
  BY <1>4 DEF BoardIsHistory, PixelEvents, PixelAt
<1>5. CASE RefreshDone \/ StartIncrement \/ SkipDead \/ StayOnPixel \/ IncrementDone
  BY <1>4, <1>5 DEF RefreshDone, StartIncrement, SkipDead, StayOnPixel, IncrementDone
<1>6. CASE \E k \in 0..(worms_num - 1), turn \in Turns : UpdateWorm(k, turn)
  BY <1>4, <1>6 DEF UpdateWorm
<1>7. CASE UNCHANGED vars
  BY <1>4, <1>7 DEF vars
<1> QED
  BY <1>1, <1>2, <1>3, <1>5, <1>6, <1>7 DEF Next, Refresh, Round

\* The events carry the whole board: a client that has read the history knows
\* every eaten pixel, and is told of none twice.
THEOREM BoardFromHistory == Spec => []BoardIsHistory
<1>1. TypeInv /\ BoardIsHistory /\ [Next]_vars => BoardIsHistory'
  BY NextBoard
<1> QED
  BY <1>1, InitBoard, TypeInvariance, PTL DEF Spec

-----------------------------------------------------------------------------
(* The lives of the worms. *)

OnTrail(k) ==
  worms[k + 1].alive =>
    \E n \in EventsOf(k) : /\ n \in PixelEvents
                           /\ PixelAt(n) = Pos(worms[k + 1])
                           /\ \A m \in EventsOf(k) : m <= n

Announced(k) ==
  /\ ~worms[k + 1].alive <=> \E n \in EventsOf(k) : EliminatedAt(k, n)
  /\ \A m, n \in EventsOf(k) : EliminatedAt(k, n) => m <= n

\* Nothing is said of a player whose worm is not born yet.
LifeInv ==
  /\ \A n \in 1..Len(history) : history[n].player \in Players \cup {None}
  /\ \A k \in Players : OnTrail(k) /\ Announced(k)

\* A player of whom nothing new is said, and whose worm stays where it is, is
\* told of as before.
LEMMA ToldAsBefore ==
  ASSUME NEW k, OnTrail(k) /\ Announced(k),
         worms'[k + 1].alive = worms[k + 1].alive,
         Pos(worms'[k + 1]) = Pos(worms[k + 1]),
         EventsOf(k)' = EventsOf(k),
         \A n \in EventsOf(k) : history'[n] = history[n]
  PROVE  (OnTrail(k) /\ Announced(k))'
<1>1. \A n \in EventsOf(k) : /\ n \in 1..Len(history) /\ n \in 1..Len(history')
                             /\ PixelAt(n)' = PixelAt(n)
                             /\ n \in PixelEvents <=> n \in PixelEvents'
                             /\ EliminatedAt(k, n) <=> EliminatedAt(k, n)'
  BY DEF EventsOf, PixelAt, PixelEvents, EliminatedAt
<1> QED
  BY <1>1 DEF OnTrail, Announced

LEMMA PositionKept ==
  ASSUME NEW v, NEW w, v.x = w.x, v.y = w.y
  PROVE  Pos(v) = Pos(w)
  BY DEF Pos

LEMMA MoveWormLife ==
  ASSUME TypeInv, LifeInv, NEW ws, NEW k, Arrives(ws, k)
  PROVE  LifeInv'
<1>1. /\ ws \in Seq(Worm) /\ k \in 0..(Len(ws) - 1) /\ k \in Nat
      /\ Players \cup {k} = 0..(Len(ws) - 1)
      /\ k \notin Dead /\ ws[k + 1].alive
      /\ \A j \in Players \ {k} : ws[j + 1] = worms[j + 1]
  BY DEF Arrives
<1>2. Len(history) \in Nat /\ \A j \in Players \cup {k} : j \in Nat /\ j # None
  BY <1>1 DEF TypeInv, TypeOK, None
<1>3. /\ ws[k + 1] \in Worm /\ k + 1 \in 1..Len(ws)
  BY <1>1
<1>4. PICK last : last = Len(history) + 1
  OBVIOUS
<1>5. /\ Len(history') = last \/ Len(history') = last + 1
      /\ \A n \in 1..Len(history) : history'[n] = history[n]
      /\ history'[last].player = k
      /\ Len(history') = last + 1 => history'[last + 1].player = None
  BY <1>2, <1>4, EatAppends, DieAppends DEF MoveWorm, Arrives
<1>6. \A n \in 1..Len(history') :
        n \in 1..Len(history) \/ n = last \/ (Len(history') = last + 1 /\ n = last + 1)
  BY <1>2, <1>4, <1>5
<1>7. /\ Players' = Players \cup {k}
      /\ \A j \in Players \ {k} : worms'[j + 1] = worms[j + 1]
  <2>1. CASE Die(ws, k)
    <3>1. worms' = [ws EXCEPT ![k + 1].alive = FALSE]
      BY <2>1 DEF Die, Killed
    <3>2. Len(worms') = Len(ws) /\ \A j \in Players \ {k} : worms'[j + 1] = ws[j + 1]
      BY <1>1, <1>3, <3>1 DEF Players
    <3> QED
      BY <1>1, <3>2 DEF Players
  <2>2. CASE Eat(ws, k)
    BY <1>1, <2>2 DEF Eat, Players
  <2> QED
    BY <2>1, <2>2 DEF MoveWorm, Arrives
<1>8. \A n \in 1..Len(history') : history'[n].player \in Players' \cup {None}
  BY <1>5, <1>6, <1>7 DEF LifeInv
<1>9. ASSUME NEW j \in Players \ {k}
      PROVE  (OnTrail(j) /\ Announced(j))'
  <2>1. EventsOf(j)' = EventsOf(j)
    BY <1>2, <1>4, <1>5, <1>6 DEF EventsOf
  <2>2. \A n \in EventsOf(j) : history'[n] = history[n]
    BY <1>5 DEF EventsOf
  <2>3. OnTrail(j) /\ Announced(j)
    BY DEF LifeInv
  <2> QED
    BY <1>7, <2>1, <2>2, <2>3, ToldAsBefore
<1>10. /\ EventsOf(k)' = EventsOf(k) \cup {last}
       /\ \A n \in EventsOf(k) : n \in 1..Len(history) /\ n <= last
  BY <1>2, <1>4, <1>5, <1>6 DEF EventsOf
<1>11. \A n \in EventsOf(k) : ~EliminatedAt(k, n)
  <2>1. CASE k \in Players
    BY <1>1, <2>1 DEF Dead, LifeInv, Announced
  <2>2. CASE k \notin Players
    BY <1>2, <2>2 DEF LifeInv, EventsOf
  <2> QED
    BY <2>1, <2>2
<1>12. \A n \in EventsOf(k) : ~EliminatedAt(k, n)'
  BY <1>5, <1>10, <1>11 DEF EliminatedAt, EventsOf
<1>13. last \in 1..Len(history') /\ last \in Nat
  BY <1>2, <1>4, <1>5
<1>14. CASE Die(ws, k)
  <2>1. ~worms'[k + 1].alive
    BY <1>1, <1>3, <1>14 DEF Die, Killed, Worm
  <2>2. EliminatedAt(k, last)'
    BY <1>4, <1>13, <1>14, DieAppends DEF EliminatedAt
  <2>3. OnTrail(k)'
    BY <2>1 DEF OnTrail
  <2>4. Announced(k)'
    BY <2>1, <2>2, <1>10, <1>12, <1>13 DEF Announced
  <2> QED
    BY <1>7, <1>8, <1>9, <2>3, <2>4 DEF LifeInv
<1>15. CASE Eat(ws, k)
  <2>1. worms' = ws
    BY <1>15 DEF Eat
  <2>2. /\ last \in PixelEvents' /\ PixelAt(last)' = Pos(worms'[k + 1])
        /\ ~EliminatedAt(k, last)'
    BY <1>4, <1>13, <1>15, <2>1, EatAppends
       DEF PixelEvents, PixelAt, EliminatedAt, PIXEL, PLAYER_ELIMINATED
  <2>3. OnTrail(k)'
    BY <2>2, <1>10, <1>13 DEF OnTrail
  <2>4. Announced(k)'
    BY <1>1, <2>1, <2>2, <1>10, <1>12, <1>13 DEF Announced
  <2> QED
    BY <1>7, <1>8, <1>9, <2>3, <2>4 DEF LifeInv
<1> QED
  BY <1>14, <1>15 DEF MoveWorm, Arrives

\* A step that says nothing, kills nobody and leaves every worm on its pixel.
LEMMA SameLives ==
  ASSUME LifeInv, history' = history, Len(worms') = Len(worms),
         \A k \in Players : /\ worms'[k + 1].alive = worms[k + 1].alive
                            /\ Pos(worms'[k + 1]) = Pos(worms[k + 1])
  PROVE  LifeInv'
<1>1. Players' = Players
  BY DEF Players
<1>2. ASSUME NEW k \in Players PROVE (OnTrail(k) /\ Announced(k))'
  <2>1. EventsOf(k)' = EventsOf(k)
    BY DEF EventsOf
  <2>2. OnTrail(k) /\ Announced(k)
    BY DEF LifeInv
  <2> QED
    BY <2>1, <2>2, ToldAsBefore
<1> QED
  BY <1>1, <1>2 DEF LifeInv

LEMMA InitLife == Init => LifeInv
<1> SUFFICES ASSUME Init PROVE LifeInv
  OBVIOUS
<1>1. Len(worms) = 0 /\ Len(history) = 0
  BY DEF Init
<1>2. Players = {}
  BY <1>1 DEF Players
<1> QED
  BY <1>1, <1>2 DEF LifeInv

LEMMA NextLife == TypeInv /\ LifeInv /\ [Next]_vars => LifeInv'
<1> SUFFICES ASSUME TypeInv, LifeInv, [Next]_vars PROVE LifeInv'
  OBVIOUS
<1>1. worms \in Seq(Worm) /\ Len(worms) \in Nat
  BY DEF TypeInv, TypeOK
<1>2. CASE \E n \in 2..MaxPlayers : \E dirs \in [1..n -> Turns] : StartRefresh(dirs)
  <2>1. Len(worms') = 0 /\ history' = <<NewGameEvent(cnt)>>
    BY <1>2 DEF StartRefresh, Announce
  <2>2. Players' = {}
    BY <2>1 DEF Players
  <2>3. Len(history') = 1 /\ history'[1].player = None
    BY <2>1 DEF NewGameEvent, Event
  <2> QED
    BY <2>2, <2>3 DEF LifeInv
<1>3. CASE SpawnWorm
  BY <1>3, SpawnWormArrives, MoveWormLife
<1>4. CASE LeavePixel
  BY <1>4, LeavePixelArrives, MoveWormLife
<1>5. CASE StayOnPixel
  <2>1. /\ i \in Nat /\ i + 1 \in 1..Len(worms) /\ worms[i + 1] \in Worm
        /\ Len(worms') = Len(worms) /\ worms'[i + 1] = Advance(worms[i + 1])
    BY <1>5, AdvanceInRound DEF StayOnPixel
  <2>2. \A j \in Players \ {i} : worms'[j + 1] = worms[j + 1]
    BY <1>1, <1>5, <2>1 DEF StayOnPixel, Players
  <2>3. worms'[i + 1].alive = worms[i + 1].alive
    BY <2>1 DEF Advance, Worm
  <2>4. Pos(worms'[i + 1]) = Pos(worms[i + 1])
    BY <1>5, <2>1 DEF StayOnPixel, SamePixel
  <2>5. history' = history
    BY <1>5 DEF StayOnPixel
  <2> QED
    BY <2>1, <2>2, <2>3, <2>4, <2>5, SameLives
<1>6. CASE RefreshDone \/ StartIncrement \/ SkipDead \/ IncrementDone
  BY <1>6, SameLives DEF RefreshDone, StartIncrement, SkipDead, IncrementDone
<1>7. CASE \E k \in 0..(worms_num - 1), turn \in Turns : UpdateWorm(k, turn)
  <2>1. PICK k \in 0..(worms_num - 1), turn \in Turns : UpdateWorm(k, turn)
    BY <1>7
  <2>2. k \in Nat /\ k + 1 \in 1..Len(worms)
    BY <2>1 DEF TypeInv, TypeOK, Shape, SomeoneLives, UpdateWorm
  <2>3. worms[k + 1] \in Worm
    BY <1>1, <2>2
  <2>4. worms' = [worms EXCEPT ![k + 1].last_turn = turn] /\ history' = history
    BY <2>1 DEF UpdateWorm
  <2>5. Len(worms') = Len(worms)
    BY <1>1, <2>4
  <2>6. /\ worms'[k + 1].alive = worms[k + 1].alive
        /\ worms'[k + 1].x = worms[k + 1].x /\ worms'[k + 1].y = worms[k + 1].y
    BY <1>1, <2>2, <2>3, <2>4 DEF Worm
  <2>7. \A j \in Players \ {k} : worms'[j + 1] = worms[j + 1]
    BY <1>1, <2>2, <2>4 DEF Players
  <2> QED
    BY <2>4, <2>5, <2>6, <2>7, SameLives, PositionKept
<1>8. CASE UNCHANGED vars
  BY <1>8, SameLives DEF vars
<1> QED
  BY <1>2, <1>3, <1>4, <1>5, <1>6, <1>7, <1>8 DEF Next, Refresh, Round

LEMMA LifeInvariance == Spec => []LifeInv
<1>1. TypeInv /\ LifeInv /\ [Next]_vars => LifeInv'
  BY NextLife
<1> QED
  BY <1>1, InitLife, TypeInvariance, PTL DEF Spec

\* A worm is dead exactly when PLAYER_ELIMINATED was generated for it, which
\* happens once, and nothing is said of its player after that.
THEOREM DeathsAreAnnounced == Spec => []DeadIsAnnounced
<1>1. LifeInv => DeadIsAnnounced
  BY DEF LifeInv, Announced, DeadIsAnnounced
<1> QED
  BY <1>1, LifeInvariance, PTL

\* The last event of a living worm's player names the pixel that it is on,
\* although a worm may turn and move for several rounds without an event.
THEOREM TrailsAreTrue == Spec => []AliveOnTrail
<1>1. LifeInv => AliveOnTrail
  BY DEF LifeInv, OnTrail, AliveOnTrail
<1> QED
  BY <1>1, LifeInvariance, PTL

-----------------------------------------------------------------------------
(* The rounds. *)

\* The players of whom the round has told are those the loop has passed.
RoundInv ==
  pc = "increment" =>
    /\ before <= Len(history)
    /\ \A n \in (before + 1)..Len(history) : history[n].player < i
    /\ RoundReported

LEMMA PlayerIsInteger ==
  ASSUME TypeOK, NEW n \in 1..Len(history)
  PROVE  history[n].player \in Int
<1>1. history[n] \in EventRecord
  BY DEF TypeOK
<1> QED
  BY <1>1 DEF EventRecord, None

LEMMA LeavePixelRound ==
  ASSUME TypeInv, HistoryInv, RoundInv, LeavePixel, history' \in Seq(EventRecord)
  PROVE  RoundInv'
<1>1. /\ pc = "increment" /\ i \in Nat /\ before \in Nat /\ Len(history) \in Nat
      /\ Len(history') \in Nat /\ i' = i + 1 /\ before' = before /\ pc' = pc
      /\ first_inserted' = FirstInserted /\ ~Finished
  BY DEF LeavePixel, InRound, TypeInv, TypeOK
<1>2. PICK last : last = Len(history) + 1
  OBVIOUS
<1>3. PICK ws : MoveWorm(ws, i)
  BY DEF LeavePixel
<1>4. /\ Len(history') = last \/ Len(history') = last + 1
      /\ \A n \in 1..Len(history) : history'[n] = history[n]
      /\ history'[last].player = i
      /\ Len(history') = last + 1 =>
           history'[last + 1].player = None /\ history'[last + 1].type = GAME_OVER
  BY <1>1, <1>2, <1>3, EatAppends, DieAppends DEF MoveWorm
<1>5. /\ before <= Len(history)
      /\ \A n \in (before + 1)..Len(history) : history[n].player < i
      /\ first_inserted = IF Len(history) = before THEN None ELSE before
  BY <1>1 DEF RoundInv, RoundReported
<1>6. first_inserted' = before /\ Len(history') # before /\ before <= Len(history')
  BY <1>1, <1>2, <1>4, <1>5 DEF FirstInserted, None
<1>7. \A n \in (before + 1)..Len(history') :
        \/ n \in (before + 1)..Len(history) /\ n \in 1..Len(history)
        \/ n = last
        \/ n = last + 1 /\ Len(history') = last + 1
  BY <1>1, <1>2, <1>4
<1>8. \A n \in (before + 1)..Len(history) : history'[n].player < i
  BY <1>1, <1>4, <1>5
<1>9. \A n \in (before + 1)..Len(history') : history'[n].player < i + 1
  <2>1. \A n \in 1..Len(history) : history'[n].player \in Int
    BY <1>4, PlayerIsInteger DEF TypeInv
  <2> QED
    BY <1>1, <1>4, <1>7, <1>8, <2>1 DEF None
<1>10. ASSUME NEW m \in (before + 1)..Len(history'), NEW n \in (before + 1)..Len(history'),
              m < n
       PROVE  \/ history'[m].player < history'[n].player
              \/ history'[n].type = GAME_OVER /\ n = Len(history')
  <2>1. CASE n \in 1..Len(history)
    <3>1. /\ m \in (before + 1)..Len(history) /\ n \in (before + 1)..Len(history)
          /\ history'[m] = history[m] /\ history'[n] = history[n]
      BY <1>1, <1>4, <1>10, <2>1
    <3>2. history[n].type # GAME_OVER
      BY <1>1, <2>1 DEF HistoryInv, OverIffFinished
    <3> QED
      BY <1>1, <1>10, <3>1, <3>2 DEF RoundInv, RoundReported
  <2>2. CASE n = last
    <3>1. m \in (before + 1)..Len(history)
      BY <1>1, <1>2, <1>10, <2>2
    <3> QED
      BY <1>4, <1>8, <2>2, <3>1
  <2>3. CASE n = last + 1 /\ Len(history') = last + 1
    BY <1>4, <2>3
  <2> QED
    BY <1>7, <2>1, <2>2, <2>3
<1>11. RoundReported'
  BY <1>1, <1>6, <1>10 DEF RoundReported
<1> QED
  BY <1>1, <1>6, <1>9, <1>11 DEF RoundInv

LEMMA NextRound ==
  TypeInv /\ TypeInv' /\ HistoryInv /\ RoundInv /\ [Next]_vars => RoundInv'
<1> SUFFICES ASSUME TypeInv, TypeInv', HistoryInv, RoundInv, [Next]_vars PROVE RoundInv'
  OBVIOUS
<1>1. CASE LeavePixel
  <2>1. history' \in Seq(EventRecord)
    BY DEF TypeInv, TypeOK
  <2> QED
    BY <1>1, <2>1, LeavePixelRound
<1>2. CASE StartIncrement
  <2>1. before' = Len(history') /\ Len(history') \in Nat /\ first_inserted' = None
    BY <1>2 DEF StartIncrement, TypeInv, TypeOK
  <2>2. (before' + 1)..Len(history') = {}
    BY <2>1
  <2> QED
    BY <2>1, <2>2 DEF RoundInv, RoundReported
<1>3. CASE SkipDead \/ StayOnPixel
  <2>1. /\ pc = "increment" /\ i \in Nat /\ i' = i + 1
        /\ UNCHANGED <<pc, history, before, first_inserted>>
    BY <1>3 DEF SkipDead, StayOnPixel, InRound, TypeInv, TypeOK
  <2>2. RoundReported'
    BY <2>1 DEF RoundInv, RoundReported
  <2>3. \A n \in (before + 1)..Len(history) : history[n].player \in Int
    <3>1. before \in Nat /\ Len(history) \in Nat
      BY DEF TypeInv, TypeOK
    <3> QED
      BY <3>1, PlayerIsInteger DEF TypeInv
  <2> QED
    BY <2>1, <2>2, <2>3 DEF RoundInv
<1>4. CASE RefreshDone \/ IncrementDone
  BY <1>4 DEF RefreshDone, IncrementDone, RoundInv
<1>5. CASE SpawnWorm
  BY <1>5 DEF SpawnWorm, RoundInv
<1>6. CASE \E n \in 2..MaxPlayers : \E dirs \in [1..n -> Turns] : StartRefresh(dirs)
  BY <1>6 DEF StartRefresh, RoundInv
<1>7. CASE \E k \in 0..(worms_num - 1), turn \in Turns : UpdateWorm(k, turn)
  BY <1>7 DEF UpdateWorm, RoundInv
<1>8. CASE UNCHANGED vars
  BY <1>8 DEF vars, RoundInv, RoundReported
<1> QED
  BY <1>1, <1>2, <1>3, <1>4, <1>5, <1>6, <1>7, <1>8 DEF Next, Refresh, Round

\* What increment() returns is where the round's events begin, or that there
\* are none: the server broadcasts from there on, so that no event is left out
\* and none is broadcast twice.
THEOREM RoundsAreReported == Spec => []RoundReported
<1>1. Init => RoundInv
  BY DEF Init, RoundInv
<1>2. TypeInv /\ TypeInv' /\ HistoryInv /\ RoundInv /\ [Next]_vars => RoundInv'
  BY NextRound
<1>3. RoundInv => RoundReported
  BY DEF RoundInv, RoundReported
<1> QED
  BY <1>1, <1>2, <1>3, TypeInvariance, HistoryInvariance, PTL DEF Spec
=============================================================================
