------------------------------- MODULE Client -------------------------------
(***************************************************************************)
(* The client: client::client_t and its loop (src/client/client.cpp)       *)
(* around the buffer of events (EventBuffer), the keys (KeyInput) and the  *)
(* messages to the server (ClientMessage), composed as the program does it.*)
(*                                                                         *)
(* poll() tells which handlers are to run; they run in the order of the    *)
(* loop's conditions, each to its end.  The game's socket can always be    *)
(* written, so poll() never sleeps.  Two of the handlers fail every time:  *)
(* recv() gives up what it reads, and sendto() is given the address of a   *)
(* pointer.  Exceptions, which end the program, are left out.              *)
(***************************************************************************)
EXTENDS EventBuffer, KeyInput, ClientMessage

CONSTANTS
  SessionId,        \* client_t::id
  PlayerName        \* its name, in ASCII

ASSUME ClientAssumption ==
  /\ SessionId \in Nat /\ Fits(SessionId, SessionBytes)
  /\ PlayerName \in Seq(33..126) /\ Len(PlayerName) <= MaxNameLen

VARIABLES
  revents,          \* the handlers that are still to run in this iteration
  pollout,          \* POLLOUT is polled for on the GUI's socket
  expired,          \* the timer is readable
  tried,            \* auxiliary: what this iteration has given to sendto()
  begun             \* auxiliary: games whose NEW_GAME was received

loopVars == <<revents, pollout, expired>>
clientVars == <<bufferVars, keyVars, loopVars, tried, begun>>

Nothing == <<>>

\* The order of the loop's conditions.
Handlers == <<"game", "gui", "out", "time">>

\* Faulty variant: the handlers do not wait for each other.
RunsAtOnce(h) == \E n \in 1..Len(revents) : revents[n] = h

Runs(h) == revents # <<>> /\ Head(revents) = h

-----------------------------------------------------------------------------

\* The interval of 30 ms is over; nobody reads the timer, so it stays readable.
Expire ==
  /\ ~expired
  /\ expired' = TRUE
  /\ UNCHANGED <<bufferVars, keyVars, revents, pollout, tried, begun>>

\* The GUI sends a line or closes the connection.
Gui ==
  /\ Close \/ \E line \in Lines : PressOrRelease(line)
  /\ UNCHANGED <<bufferVars, loopVars, tried, begun>>

\* What poll() may find ready, but for the timer.
MayBeReady ==
  {"game"} \cup {h \in {"gui"} : pipe # <<>> \/ closed} \cup {h \in {"out"} : pollout}

\* A condition of the loop, and its handler if it holds.
IfReady(h, ready) == IF h \in ready \/ (h = "time" /\ expired) THEN <<h>> ELSE <<>>

\* Faulty variant: else if instead of if.
FirstToRun(ready) ==
  LET all == SelectSeq(Handlers, LAMBDA h : IfReady(h, ready) # <<>>)
  IN  IF all = <<>> THEN all ELSE <<Head(all)>>

ToRun(ready) ==
  IfReady("game", ready) \o IfReady("gui", ready) \o IfReady("out", ready)
    \o IfReady("time", ready)

Poll ==
  /\ revents = <<>>
  /\ \E ready \in SUBSET MayBeReady : revents' = ToRun(ready)
  /\ tried' = Nothing
  /\ UNCHANGED <<bufferVars, keyVars, pollout, expired, begun>>

-----------------------------------------------------------------------------
(* The handlers. *)

\* What read_num() returns as a bool, where a number is there or is not: -1 is
\* true and 0 is false.
ReadNum(there) == ~there

\* game_to_gui_t::recv() of a datagram of game g that begins with record no.  Its
\* caller returns if read_num() returned false, and the game's id is there.
Recv(g, no) ==
  /\ begun' = begun \cup {x \in {g} : no = NewGameNo}
  /\ IF ReadNum(TRUE) THEN Integrate(g, no) ELSE UNCHANGED bufferVars

\* receive_from_game(): such a datagram, or one that is given up even before.
ReceiveFromGame ==
  /\ Runs("game")
  /\ \/ \E g \in GameIds, no \in {NewGameNo} \cup EventNos : Recv(g, no)
     \/ UNCHANGED <<bufferVars, begun>>
  /\ revents' = Tail(revents)
  /\ UNCHANGED <<keyVars, pollout, expired, tried>>

\* receive_from_gui(): receive(), step by step until it returns.
ReceiveFromGui ==
  /\ Runs("gui") /\ KeyStep
  /\ IF stage' = "idle" THEN revents' = Tail(revents) /\ pollout' = TRUE
                        ELSE UNCHANGED <<revents, pollout>>
  /\ UNCHANGED <<bufferVars, expired, tried, begun>>

\* send_to_gui(): the call, and its steps until it returns.
SendToGui ==
  /\ Runs("out") /\ (StartSend \/ SendStep)
  /\ IF at' = "idle" THEN revents' = Tail(revents) /\ pollout' = ~ret'
                     ELSE UNCHANGED <<revents, pollout>>
  /\ UNCHANGED <<keyVars, expired, tried, begun>>

\* sendto() fails, as the bytes of a pointer are no address of the game's family,
\* and perror() is all that follows: the server receives nothing.
SendToGame ==
  /\ Runs("time")
  /\ tried' = ToGame(SessionId, turn_dir, NextExpected, PlayerName)
  /\ revents' = Tail(revents)
  /\ UNCHANGED <<bufferVars, keyVars, pollout, expired, begun>>

-----------------------------------------------------------------------------

ClientInit ==
  /\ BufferInit /\ KeyInit
  /\ revents = <<>> /\ pollout = FALSE /\ expired = FALSE
  /\ tried = Nothing /\ begun = {}

Loop == Poll \/ ReceiveFromGame \/ ReceiveFromGui \/ SendToGui \/ SendToGame

ClientNext == Expire \/ Gui \/ Loop

\* The program goes on.
ClientSpec == ClientInit /\ [][ClientNext]_clientVars /\ WF_clientVars(Loop)

-----------------------------------------------------------------------------
(* Properties. *)

\* The loop's variables keep their types, those of the buffer too; a call of send()
\* or receive() goes on only while its handler runs.
ClientTypeOK ==
  /\ BufferTypeOK
  /\ revents \in Seq(Range(Handlers)) /\ pollout \in BOOLEAN /\ expired \in BOOLEAN
  /\ at # "idle" => Runs("out")
  /\ stage # "idle" => Runs("gui")

\* README (messages from the client to the server): what is given to sendto() is
\* a message that the server's constructor takes, and what it reads of it is the
\* client's session and name, the direction that the keys leave and the number
\* that the buffer expects.
MessageIsMeant ==
  tried # Nothing =>
    /\ Accepted(tried)
    /\ FromClient(tried) = [session_id |-> SessionId, turn_direction |-> turn_dir,
                            next_expected_event_no |-> NextExpected,
                            player_name |-> PlayerName]

\* README: "Communication is maintained always", and "latency issues in
\* communication with a GUI server cannot influence communication with a game
\* server": once the interval is over the client tries to send again and again,
\* however often the other handlers run, as long as receive() returns.
KeepsTrying == []<>(stage = "idle") => (expired ~> tried # Nothing)

\* from_game.h: recv() "receives a message ... and integrates it into the
\* <Game> queue": after a datagram with a NEW_GAME the newest buffer is of that
\* game.
NewGameIntegrated ==
  [][\A g \in begun' \ begun : q' # <<>> /\ q'[Len(q')].id = g]_clientVars
=============================================================================
