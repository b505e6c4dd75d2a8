--------------------------- MODULE ClientMessage ---------------------------
(***************************************************************************)
(* The datagrams that clients send, as the client writes them             *)
(* (client::to_game_t, src/client/to_game.cpp) and as the server reads     *)
(* them (server::from_client_t, src/server/from_client.cpp): sequences of  *)
(* bytes.                                                                  *)
(***************************************************************************)
EXTENDS Integers, Sequences

SessionBytes == 8
EventNoBytes == 4
MaxNameLen == 20
Required == SessionBytes + 1 + EventNoBytes     \* the 1 is the turn direction

TurnDirections == 0..2

\* What is left of a number when its last n bytes are cut off, by n.
Shifted(x, width) ==
  LET Left[n \in 0..width] == IF n = 0 THEN x ELSE Left[n - 1] \div 256 IN Left

\* The number is one of the type that has so many bytes.
Fits(x, width) == Shifted(x, width)[width] = 0

\* htobe64(), htonl(): byte k of a number is what is left when those behind it
\* are cut off.
BigEndian(x, width) == [k \in 1..width |-> Shifted(x, width)[width - k] % 256]

\* BEbytes_to_num()
Number(bytes) ==
  LET Ret[n \in 0..Len(bytes)] == IF n = 0 THEN 0 ELSE Ret[n - 1] * 256 + bytes[n]
  IN  Ret[Len(bytes)]

\* Faulty variant: the number stands before the direction.
ToGameSwapped(session_id, turn_direction, next_expected_event_no, player_name) ==
  BigEndian(session_id, SessionBytes) \o BigEndian(next_expected_event_no, EventNoBytes)
    \o <<turn_direction>> \o player_name

\* to_game_t()
ToGame(session_id, turn_direction, next_expected_event_no, player_name) ==
  BigEndian(session_id, SessionBytes) \o <<turn_direction>>
    \o BigEndian(next_expected_event_no, EventNoBytes) \o player_name

\* from_client_t(): it throws an exception if the length, the direction or a
\* character is out of range, and reads the fields if not.
Accepted(bytes) ==
  /\ Len(bytes) \in Required..(Required + MaxNameLen)
  /\ bytes[SessionBytes + 1] \in TurnDirections
  /\ \A k \in (Required + 1)..Len(bytes) : bytes[k] \in 33..126

FromClient(bytes) ==
  [session_id |-> Number(SubSeq(bytes, 1, SessionBytes)),
   turn_direction |-> bytes[SessionBytes + 1],
   next_expected_event_no |-> Number(SubSeq(bytes, SessionBytes + 2, Required)),
   player_name |-> SubSeq(bytes, Required + 1, Len(bytes))]
============================================================================
