------------------------------ MODULE Delivery ------------------------------
(***************************************************************************)
(* What the queue of Outbox delivers while clients come, ask and go, and   *)
(* the game goes on.  A client that asks for the events from ev_no on, and *)
(* every client connected when a round makes new ones, is due them.        *)
(*                                                                         *)
(* The events of a round fit in one datagram, and so do as many others of  *)
(* a game, its NEW_GAME excepted.  In the code the largest of them is a    *)
(* PIXEL of 18 bytes, and a round makes at most 25 of those and one        *)
(* GAME_OVER: with the header of 4 bytes less than MAX_GAME_MSG_LEN, 550.  *)
(***************************************************************************)
EXTENDS Outbox

CONSTANTS
  EventSize,        \* size of the largest event that is not a NEW_GAME
  Openings,         \* sizes of the events refresh() makes, as sequences
  Rounds,           \* sizes of the events of a round
  AskFrom,          \* values of next_expected_event_no clients send
  MaxEvents,        \* bound: events of a game
  MaxGames,         \* bound: games
  MaxQueue          \* bound: messages in the queue

ASSUME AskAssumption == AskFrom \subseteq Nat
ASSUME EventsAssumption ==
  /\ EventSize \in Nat /\ Header + EventSize <= Cap
  /\ Openings \subseteq Seq(Nat) /\ Rounds \subseteq Seq(0..EventSize)
  /\ \A sizes \in Openings : /\ sizes # <<>> => Header + sizes[1] <= Cap
                            /\ \A n \in 2..Len(sizes) : sizes[n] <= EventSize
ASSUME RoundFits ==
  \A sizes \in Rounds : sizes # <<>> /\ Header + Len(sizes) * EventSize <= Cap

VARIABLES
  games,            \* games begun
  aborted,          \* the assertion in send() has failed
  due,              \* by client: events of this game it is entitled to
  got               \* by client: events of this game sent to it

deliveryVars == <<q, hist, connected, games, aborted, due, got>>

DeliveryInit ==
  /\ q = <<>> /\ hist = <<>> /\ connected = {} /\ games = 0 /\ aborted = FALSE
  /\ due = [c \in Clients |-> {}] /\ got = [c \in Clients |-> {}]

Connect(c) ==
  /\ c \notin connected
  /\ connected' = connected \cup {c}
  /\ UNCHANGED <<q, hist, games, aborted, due, got>>

Disconnect(c) ==
  /\ c \in connected
  /\ connected' = connected \ {c}
  /\ due' = [due EXCEPT ![c] = {}] /\ got' = [got EXCEPT ![c] = {}]
  /\ UNCHANGED <<q, hist, games, aborted>>

\* A message of a connected client is received.
Ask(c, ev_no) ==
  /\ c \in connected /\ Len(q) < MaxQueue
  /\ AddMsg(c, ev_no)
  /\ due' = [due EXCEPT ![c] = @ \cup (ev_no..(Len(hist) - 1))]
  /\ UNCHANGED <<hist, connected, games, aborted, got>>

\* update_game(), with a round that generates something.
PlayRound(sizes) ==
  /\ hist # <<>> /\ Len(q) < MaxQueue /\ Len(hist) + Len(sizes) <= MaxEvents
  /\ hist' = hist \o sizes
  /\ AddBroadcast(Len(hist), Len(hist) + Len(sizes))
  /\ due' = [c \in Clients |->
               IF c \in connected
                 THEN due[c] \cup (Len(hist)..(Len(hist) + Len(sizes) - 1))
                 ELSE due[c]]
  /\ UNCHANGED <<connected, games, aborted, got>>

\* game_ready(): the history starts anew, and what it holds is not broadcast:
\* refresh() returns the number of events, and the broadcast starts there.
NewGame(sizes) ==
  /\ games < MaxGames /\ Len(q) < MaxQueue
  /\ games' = games + 1
  /\ hist' = sizes
  /\ AddBroadcast(Len(sizes), Len(sizes))
  /\ due' = [c \in Clients |-> {}] /\ got' = [c \in Clients |-> {}]
  /\ UNCHANGED <<connected, aborted>>

\* A datagram that fails for another reason than blocking is given up.
Deliver(outcome) ==
  /\ Send(outcome)
  /\ got' = IF Sends /\ outcome = "sent"
              THEN [got EXCEPT ![Recipient] = @ \cup Datagram] ELSE got
  /\ due' = IF Sends /\ outcome = "failed"
              THEN [due EXCEPT ![Recipient] = @ \ Datagram] ELSE due
  /\ UNCHANGED <<hist, connected, games, aborted>>

Abort ==
  /\ SendAborts
  /\ aborted' = TRUE
  /\ UNCHANGED <<q, hist, connected, games, due, got>>

DeliveryNext ==
  /\ ~aborted
  /\ \/ \E c \in Clients : Connect(c) \/ Disconnect(c)
     \/ \E c \in Clients, ev_no \in AskFrom : Ask(c, ev_no)
     \/ \E sizes \in Rounds : PlayRound(sizes)
     \/ \E sizes \in Openings : NewGame(sizes)
     \/ \E outcome \in Outcomes : Deliver(outcome)
     \/ Abort

\* While the queue is not empty the loops poll for POLLOUT, and a socket that
\* is writable takes a datagram.
DeliverySpec ==
  /\ DeliveryInit /\ [][DeliveryNext]_deliveryVars
  /\ WF_deliveryVars(~aborted /\ Deliver("sent"))

-----------------------------------------------------------------------------
(* Properties. *)

\* Every variable keeps its type.
DeliveryTypeOK ==
  /\ \A n \in 1..Len(q) :
       /\ q[n].to \in Seq(Clients)
       /\ q[n].start \in Nat /\ q[n].ev_no \in Nat
       /\ q[n].end \in Nat \cup {ToTheEnd}
  /\ connected \subseteq Clients
  /\ aborted \in BOOLEAN

\* Event e is on its way to c: a message in the queue will send it.  A message
\* goes on from ev_no whoever is on top of the stack: when a recipient leaves,
\* send() pops it without going back to start.
OnItsWay(c, e) ==
  \E n \in 1..Len(q) : /\ \E k \in 1..Len(q[n].to) : q[n].to[k] = c
                       /\ q[n].ev_no <= e /\ e < Goal(q[n])

\* Nothing a client is due is forgotten, whatever blocks, whoever leaves while
\* a message is half sent, and although a message carries one ev_no for all of
\* its recipients.
NothingLost ==
  \A c \in connected : \A e \in due[c] : e \in got[c] \/ OnItsWay(c, e)

\* ... because a message for several clients is never half sent to one of
\* them: its events fit in one datagram, and a blocked one is taken back.
BroadcastNeverHalfSent ==
  \A n \in 1..Len(q) : Len(q[n].to) > 1 => q[n].ev_no = q[n].start

\* Whatever a connected client is due is sent in the end, although only the
\* front message is worked on and others keep arriving: again and again there
\* is a moment when the client has all it is due, unless the server aborts.
EventuallySent ==
  \A c \in Clients : []<>(due[c] \subseteq got[c] \/ aborted)
=============================================================================
