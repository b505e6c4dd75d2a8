----------------------------- MODULE EventBuffer -----------------------------
(***************************************************************************)
(* The client's buffers of game events: client::game_t and                 *)
(* client::game_to_gui_t (src/client/from_game.h, from_game.cpp) and how a *)
(* message is written to the GUI, to_GUI_t::send_to_GUI()                  *)
(* (src/client/events.cpp).                                                *)
(*                                                                         *)
(* The class for itself, open to a caller of its operations: records of    *)
(* events are handed over as the loop of recv() does it, in any order,     *)
(* some never and some again, and send() is called at any time.  A record  *)
(* that the loop passes over changes nothing.  (In the program recv()      *)
(* never comes to that loop, see Client.)                                  *)
(*                                                                         *)
(* A message to the GUI has Size pieces; the socket takes one or more of   *)
(* what it is given, or would block.  One step is one call of ::send();    *)
(* nothing else happens while a call of game_to_gui_t::send() goes on      *)
(* (at # "idle").                                                          *)
(***************************************************************************)
EXTENDS Integers, Sequences, FiniteSetsExt, Functions

CONSTANTS
  GameIds,          \* ids of games
  EventNos,         \* numbers of the events that are stored
  Size,             \* pieces of a message to the GUI
  MaxOffset,        \* bound: pieces written of a message and the memory behind
  MaxGames,         \* bound: records of NEW_GAME
  MaxSent           \* bound: messages of a game that are sent, repeats included

ASSUME BufferAssumption ==
  /\ EventNos \in SUBSET (Nat \ {0}) /\ Size \in Nat \ {0}
  /\ MaxOffset \in Nat /\ Size <= MaxOffset /\ MaxGames \in Nat /\ MaxSent \in Nat

VARIABLES
  q,                \* the buffers of games, the newest last
  at,               \* "idle", or where game_to_gui_t::send() is
  ret,              \* its last result
  added,            \* auxiliary: by buffer, the numbers that were handed over
  shown,            \* auxiliary: by buffer, the numbers wholly written
  last              \* auxiliary: the latest piece written to the GUI

bufferVars == <<q, at, ret, added, shown, last>>

\* game_t(): NEW_GAME counts as number 0, whatever number it came with.
NewGameNo == 0

\* Faulty variant: NEW_GAME counts as sent, as it counts as received.
BufferSent(g) ==
  [id |-> g, serial |-> Len(added) + 1, event_nums |-> {NewGameNo},
   smallest_not_sent |-> 1, ev0 |-> 0, received |-> <<>>, sending_the_rest |-> FALSE]

Buffer(g) ==
  [id |-> g,
   serial |-> Len(added) + 1,              \* auxiliary: buffers in their order
   event_nums |-> {NewGameNo},
   smallest_not_sent |-> 0,
   ev0 |-> 0,                              \* pieces of NEW_GAME that were sent
   received |-> <<>>,                      \* by number: pieces that were sent
   sending_the_rest |-> FALSE]

\* game_t::expected()
Expected(b) ==
  Min((0..Cardinality(b.event_nums)) \ b.event_nums)

Newest == q[Len(q)]

\* game_to_gui_t::expected()
NextExpected == IF q = <<>> THEN 0 ELSE Expected(Newest)

-----------------------------------------------------------------------------
(* Receiving: the switch at the end of recv()'s loop. *)

\* Every NEW_GAME opens a buffer, also that of a game that has one.
IntegrateNewGame(g) ==
  /\ at = "idle" /\ Len(added) < MaxGames
  /\ q' = Append(q, Buffer(g))
  /\ added' = Append(added, {NewGameNo})
  /\ shown' = Append(shown, {})
  /\ UNCHANGED <<at, ret, last>>

\* Faulty variant: add() forgets which numbers it has seen.
AddedUncounted(b, no) ==
  [b EXCEPT !.received = [n \in DOMAIN @ \cup {no} |-> IF n = no THEN 0 ELSE @[n]]]

\* game_t::add() replaces what is stored, be it half sent, and does not know what
\* was sent.
Added(b, no) ==
  [b EXCEPT !.event_nums = @ \cup {no},
            !.received = [n \in DOMAIN @ \cup {no} |-> IF n = no THEN 0 ELSE @[n]]]

\* An event goes to the newest buffer if it is its game's.
IntegrateEvent(g, no) ==
  /\ at = "idle" /\ q # <<>> /\ Newest.id = g
  /\ Newest.smallest_not_sent + Cardinality(DOMAIN Newest.received) < MaxSent
  /\ q' = [q EXCEPT ![Len(q)] = Added(@, no)]
  /\ added' = [added EXCEPT ![Newest.serial] = @ \cup {no}]
  /\ UNCHANGED <<at, ret, shown, last>>

Integrate(g, no) == IF no = NewGameNo THEN IntegrateNewGame(g) ELSE IntegrateEvent(g, no)

-----------------------------------------------------------------------------
(* Sending. *)

Oldest == Head(q)
SetOldest(b) == q' = <<b>> \o Tail(q)

\* The stored event that the loops look at: the smallest one.
Waiting == DOMAIN Oldest.received
Least == Min(Waiting)

\* Faulty variant: what is stored is sent although earlier events are missing.
ReadyDespiteHoles == Waiting # {}

\* Faulty variant: the last event before the hole is held back.
ReadyShort == Waiting # {} /\ Least + 1 < Expected(Oldest)

\* game_t::send() goes on only to the first hole.
Ready == Waiting # {} /\ Least < Expected(Oldest)

Erased(b, no) == [b EXCEPT !.received = Restrict(@, DOMAIN @ \ {no})]

\* How much the socket may take: ::send() is given size() bytes from the offset
\* on, also when only a part of the message is left.
Takes(done) == {n \in 1..Size : done + n <= MaxOffset}

\* The socket takes n pieces after the first `done` ones; what lies beyond Size
\* is the memory behind the message.
Written(no, done, n) ==
  /\ last' = [serial |-> Oldest.serial, no |-> no, piece |-> done + n]
  /\ shown' = IF done + n = Size THEN [shown EXCEPT ![Oldest.serial] = @ \cup {no}] ELSE shown

\* ::send() for event no, stored in the front buffer.  It is finished when the
\* offset equals the size; smallest_not_sent counts what was sent.
WriteStored(no) ==
  \E n \in Takes(Oldest.received[no]) :
    LET done == Oldest.received[no] + n
    IN  /\ Written(no, Oldest.received[no], n)
        /\ SetOldest(IF done = Size
                      THEN [Erased(Oldest, no) EXCEPT !.smallest_not_sent = @ + 1]
                      ELSE [Oldest EXCEPT !.received[no] = done])

\* The client's loop calls send().
StartSend ==
  /\ at = "idle"
  /\ at' = "front"
  /\ UNCHANGED <<q, ret, added, shown, last>>

\* The beginning of an iteration over the queue, and of game_t::send().
EmptyQueue ==
  /\ at = "front" /\ q = <<>>
  /\ at' = "idle" /\ ret' = TRUE
  /\ UNCHANGED <<q, added, shown, last>>

FrontGame ==
  /\ at = "front" /\ q # <<>>
  /\ at' = CASE Oldest.sending_the_rest -> "rest"
             [] ~Oldest.sending_the_rest /\ Oldest.smallest_not_sent >= Expected(Oldest) -> "sent"
             [] ~Oldest.sending_the_rest /\ Oldest.smallest_not_sent < Expected(Oldest)
                  -> IF Oldest.smallest_not_sent = 0 THEN "ev0" ELSE "events"
  /\ UNCHANGED <<q, ret, added, shown, last>>

WriteNewGame ==
  /\ at = "ev0"
  /\ \E n \in Takes(Oldest.ev0) :
       LET done == Oldest.ev0 + n
       IN  /\ Written(NewGameNo, Oldest.ev0, n)
           /\ IF done = Size
                THEN SetOldest([Oldest EXCEPT !.ev0 = done, !.smallest_not_sent = 1]) /\ at' = "events"
                ELSE SetOldest([Oldest EXCEPT !.ev0 = done]) /\ UNCHANGED at
  /\ UNCHANGED <<ret, added>>

WriteEvent ==
  /\ at = "events" /\ Ready
  /\ WriteStored(Least)
  /\ UNCHANGED <<at, ret, added>>

EventsDone ==
  /\ at = "events" /\ ~Ready
  /\ at' = "sent"
  /\ UNCHANGED <<q, ret, added, shown, last>>

\* A buffer is given up once there is a newer one.
GivesUp == Len(q) > 1

Sent ==
  /\ at = "sent"
  /\ IF GivesUp
       THEN SetOldest([Oldest EXCEPT !.sending_the_rest = TRUE])
              /\ at' = "rest" /\ UNCHANGED ret
       ELSE at' = "idle" /\ ret' = TRUE /\ UNCHANGED q
  /\ UNCHANGED <<added, shown, last>>

\* Faulty variant: send_the_rest(), too, goes on only to the first hole.
RestReady == Ready

\* Faulty variant: a buffer is given up with all that it still holds.
RestForgotten == FALSE

\* send_the_rest(): whatever is stored, holes or not.
RestLeft == Waiting # {}

WriteRest ==
  /\ at = "rest" /\ RestLeft
  /\ WriteStored(Least)
  /\ UNCHANGED <<at, ret, added>>

RestDone ==
  /\ at = "rest" /\ ~RestLeft
  /\ q' = Tail(q) /\ at' = "front"
  /\ UNCHANGED <<ret, added, shown, last>>

\* The socket would block: send() returns false and is called again some time.
Blocks ==
  /\ \/ at = "ev0"
     \/ at = "events" /\ Ready
     \/ at = "rest" /\ RestLeft
  /\ at' = "idle" /\ ret' = FALSE
  /\ UNCHANGED <<q, added, shown, last>>

-----------------------------------------------------------------------------

BufferInit ==
  /\ q = <<>> /\ at = "idle" /\ ret = TRUE
  /\ added = <<>> /\ shown = <<>> /\ last = [serial |-> 0, no |-> 0, piece |-> 0]

Writes == WriteNewGame \/ WriteEvent \/ WriteRest

\* A step of game_to_gui_t::send(), once it has been called.
SendStep ==
  Writes \/ EmptyQueue \/ FrontGame \/ EventsDone \/ Sent \/ RestDone \/ Blocks

BufferNext ==
  \/ \E g \in GameIds, no \in {NewGameNo} \cup EventNos : Integrate(g, no)
  \/ StartSend \/ SendStep

BufferSpec == BufferInit /\ [][BufferNext]_bufferVars

-----------------------------------------------------------------------------
(* Properties. *)

\* The queue holds the latest buffers, in their order.  Only numbers that add() has
\* seen wait to be sent, none of them wholly sent, and NEW_GAME is wholly sent
\* exactly when something has been counted as sent.
BufferTypeOK ==
  /\ at \in {"idle", "front", "ev0", "events", "sent", "rest"} /\ ret \in BOOLEAN
  /\ \A k \in 1..Len(q) :
       /\ q[k].id \in GameIds /\ q[k].sending_the_rest \in BOOLEAN
       /\ q[k].serial = Len(added) - Len(q) + k
       /\ q[k].event_nums \subseteq {NewGameNo} \cup EventNos
       /\ DOMAIN q[k].received \subseteq q[k].event_nums \ {NewGameNo}
       /\ q[k].received \in [DOMAIN q[k].received -> Nat \ {Size}]
       /\ q[k].smallest_not_sent \in Nat /\ q[k].ev0 \in Nat
       /\ q[k].ev0 = Size <=> q[k].smallest_not_sent > 0

\* from_game.h: send() "sends events not sent, up to the first hole in history".
\* Whatever comes again, and however much the socket takes at a time, while a
\* game is the newest one no piece of an event is written before all the events
\* with smaller numbers were, and no game's events before its NEW_GAME.
NoHoles ==
  /\ last.no > 0 => NewGameNo \in shown[last.serial]
  /\ q # <<>> /\ last.serial = Newest.serial => 0..(last.no - 1) \subseteq shown[last.serial]

\* Message no of buffer b is to be written, or written on.
Waits(b, no) == IF no = NewGameNo THEN b.ev0 # Size ELSE no \in DOMAIN b.received

\* from_game.h: send_the_rest() "sends all events not sent".  What was handed over
\* is wholly written some time or waits in a buffer of the queue: no buffer is
\* given up, and no event taken out of one, before that.
NothingDropped ==
  \A s \in 1..Len(added) : \A no \in added[s] \ shown[s] :
    \E k \in 1..Len(q) : q[k].serial = s /\ Waits(q[k], no)

\* README: the GUI "receives commands in order consistent with the game
\* trajectory": nothing of a game is written before all that was handed over of the
\* games before it, events behind their holes included.
OldGamesFirst ==
  \A s \in 1..(last.serial - 1) : added[s] \subseteq shown[s]

\* from_game.h: expected() is the "smallest event number which wasn't received":
\* all before it wait here or have been written, and it has not, though buffers
\* forget what they have sent, and events come again and out of order.
AsksFromFirstGap ==
  q # <<>> =>
    LET known == shown[Newest.serial] \cup {no \in {NewGameNo} \cup EventNos : Waits(Newest, no)}
    IN  0..(NextExpected - 1) \subseteq known /\ NextExpected \notin known

\* More was counted as sent than there are messages that have been.
CountedAhead(b, written) == b.smallest_not_sent > Cardinality(written)

\* from_game.h: send() returns "`false` if there is still something to be sent".
\* When it returns true, the buffers of older games are gone, and an event of the
\* newest one that might be sent has been before, unless events that came again
\* have made the count run ahead.
CaughtUp ==
  [][at # "idle" /\ at' = "idle" /\ ret' /\ q # <<>> =>
       /\ Len(q) = 1
       /\ \A no \in 0..(NextExpected - 1) :
            no \in shown[Newest.serial] \/ CountedAhead(Newest, shown[Newest.serial])]_bufferVars
=============================================================================
