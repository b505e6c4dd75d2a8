------------------------------- MODULE Outbox -------------------------------
(***************************************************************************)
(* The queue of message objects of the server: server::from_server_t and   *)
(* server_t::q with add_msg(), add_broadcast_msg() and send()              *)
(* (src/server/server.cpp).  One call of send() sends at most one datagram *)
(* of the message at the front of the queue.                               *)
(*                                                                         *)
(* An event is abstracted to its size; hist and connected belong to other  *)
(* parts of the server.  Clients are (address, session id) keys.           *)
(***************************************************************************)
EXTENDS Integers, Sequences, FiniteSets

CONSTANTS
  Clients,          \* keys of clients, in the order of the map clients
  Header,           \* sizeof(game_id)
  Cap               \* MAX_GAME_MSG_LEN

ASSUME ClientsAssumption == Clients \subseteq Nat
ASSUME SizesAssumption == Header \in Nat /\ Cap \in Nat /\ Header < Cap

VARIABLES
  q,                \* [to, ev_no, start, end]; Head(to) is the stack's top
  hist,             \* the sizes of the events of the current game
  connected         \* keys the server contains

ToTheEnd == -1      \* end of a message that goes on to the latest event

Message(to, start, end) == [to |-> to, ev_no |-> start, start |-> start, end |-> end]

\* The recipients of a broadcast: the stack's top is the last client pushed.
Pushed(S) ==
  [n \in 1..Cardinality(S) |-> CHOOSE c \in S : Cardinality({d \in S : d > c}) = n - 1]

\* from_server_t::send(): how far the message goes.
Goal(m) == IF m.end = ToTheEnd THEN Len(hist) ELSE m.end

\* The assertion at the top of send().
GoalExists(m) == Goal(m) <= Len(hist)

\* Recipients that left are popped off the top.
Remaining(m) ==
  LET present == {n \in 1..Len(m.to) : m.to[n] \in connected}
  IN  IF present = {} THEN <<>>
      ELSE SubSeq(m.to, CHOOSE n \in present : \A k \in present : n <= k, Len(m.to))

\* The size of a datagram with events first..(last - 1), which are added one by
\* one; events count from 0.
Bytes(first, last) ==
  LET Added[n \in first..last] == IF n = first THEN Header ELSE Added[n - 1] + hist[n]
  IN  Added[last]

\* Faulty variant: the loop stops before the last event.
PackedButLast(m) ==
  CHOOSE n \in {m.ev_no} \cup (m.ev_no..(Goal(m) - 1)) :
    /\ n > m.ev_no => Bytes(m.ev_no, n) <= Cap
    /\ n < Goal(m) - 1 => Bytes(m.ev_no, n + 1) > Cap

\* As many events as fit in a datagram: the index of the first one left out.
Packed(m) ==
  CHOOSE n \in {m.ev_no} \cup (m.ev_no..Goal(m)) :
    /\ n > m.ev_no => Bytes(m.ev_no, n) <= Cap
    /\ n < Goal(m) => Bytes(m.ev_no, n + 1) > Cap

\* Faulty variant: the events of a datagram that would block are lost.
AfterNoRollback(m, outcome) == Packed(m)

\* sendto() may succeed, be told it would block, or fail in another way;
\* only the second is tried again.  No events, no datagram.
Outcomes == {"sent", "blocked", "failed"}
After(m, outcome) == IF outcome = "blocked" THEN m.ev_no ELSE Packed(m)

\* The datagram of this call, if any: to whom, and which events.
Front == Head(q)
Sends == q # <<>> /\ Remaining(Front) # <<>> /\ Packed(Front) > Front.ev_no
Recipient == Head(Remaining(Front))
Datagram == Front.ev_no..(Packed(Front) - 1)

\* The front message after the call; a recipient that has everything is
\* popped, and the next one starts from the start.
Advanced(outcome) ==
  LET to == Remaining(Front)
  IN  IF to = <<>> THEN [Front EXCEPT !.to = <<>>]
      ELSE IF After(Front, outcome) >= Goal(Front)
             THEN [Front EXCEPT !.to = Tail(to), !.ev_no = Front.start]
             ELSE [Front EXCEPT !.to = to, !.ev_no = After(Front, outcome)]

Send(outcome) ==
  /\ q # <<>> /\ GoalExists(Front)
  /\ ~Sends => outcome = "sent"
  /\ q' = IF Advanced(outcome).to = <<>> THEN Tail(q)
                                         ELSE <<Advanced(outcome)>> \o Tail(q)

\* The assertion fails: the program aborts.
SendAborts == q # <<>> /\ ~GoalExists(Front)

\* Faulty variant: a reply starts one event too early.
AddMsgFromPrevious(c, ev_no) == q' = Append(q, Message(<<c>>, ev_no - 1, ToTheEnd))

AddMsg(c, ev_no) == q' = Append(q, Message(<<c>>, ev_no, ToTheEnd))

\* Faulty variant: a broadcast of the whole history.
AddBroadcastFromZero(start, size) ==
  q' = Append(q, Message(Pushed(connected), 0, size))

\* Called when the history has grown to size.
AddBroadcast(start, size) ==
  q' = Append(q, Message(Pushed(connected), start, size))
=============================================================================
