------------------------------ MODULE KeyInput ------------------------------
(***************************************************************************)
(* The keys that the client reads from the GUI: client::from_GUI_t         *)
(* (src/client/from_gui.h, from_gui.cpp).  receive() reads the stream      *)
(* until it would block and then looks at the lines from the last one      *)
(* back, until it knows the direction they leave.  The line end that it     *)
(* has come to is what it finds again, so that it comes to earlier lines   *)
(* never and returns only with a KEY_DOWN behind the last line end, or     *)
(* with no line end at all.                                                *)
(*                                                                         *)
(* The text of a message is two characters, a key and what happened to it, *)
(* so that the stream may be cut anywhere; a line is a text and NewLine.   *)
(* The GUI sends whole lines and may close the connection.                 *)
(***************************************************************************)
EXTENDS Integers, SequencesExt

CONSTANT MaxKeys    \* bound: messages the GUI sends

ASSUME KeysAssumption == MaxKeys \in Nat

VARIABLES
  pipe,             \* characters sent by the GUI and not read: they arrive in
                    \* order, but not at once
  closed,           \* the GUI has closed the connection
  str,              \* what was read, from the line on that is not complete
  turn_dir,
  stage,            \* "idle", "reading" or "scanning": where receive() is
  i,                \* the scan has come to the i-th character of str
  met,              \* direction of the first KEY_UP from the end
  heard             \* auxiliary: everything that was read

keyVars == <<pipe, closed, str, turn_dir, stage, i, met, heard>>
stream == <<pipe, closed, heard>>

STRAIGHT == 0
RIGHT == 1
LEFT == 2
Directions == {RIGHT, LEFT}
DOWN == 68
UP == 85
NewLine == 10

Down(t) == <<t, DOWN>>
Up(t) == <<t, UP>>
Lines == UNION {{Append(Down(t), NewLine), Append(Up(t), NewLine)} : t \in Directions}
Length == 3         \* of a line

-----------------------------------------------------------------------------
(* The GUI. *)

PressOrRelease(line) ==
  /\ ~closed /\ Len(heard) + Len(pipe) < Length * MaxKeys
  /\ pipe' = pipe \o line
  /\ UNCHANGED <<closed, str, turn_dir, stage, i, met, heard>>

Close ==
  /\ ~closed
  /\ closed' = TRUE
  /\ UNCHANGED <<pipe, str, turn_dir, stage, i, met, heard>>

-----------------------------------------------------------------------------
(* receive_data() *)

\* The loop calls receive() when the socket is readable, as it is at its end.
Receive ==
  /\ stage = "idle" /\ (pipe # <<>> \/ closed)
  /\ stage' = "reading"
  /\ UNCHANGED <<stream, str, turn_dir, i, met>>

Read ==
  /\ stage = "reading"
  /\ \E n \in 1..Len(pipe) :
       /\ str' = str \o SubSeq(pipe, 1, n)
       /\ heard' = heard \o SubSeq(pipe, 1, n)
       /\ pipe' = SubSeq(pipe, n + 1, Len(pipe))
  /\ UNCHANGED <<closed, turn_dir, stage, i, met>>

\* At the end of the stream recv() returns 0, for ever, which is not -1.
ReadNothing ==
  /\ stage = "reading" /\ pipe = <<>> /\ closed
  /\ UNCHANGED keyVars

LineEnds == {n \in 1..Len(str) : str[n] = NewLine}

\* Nothing more has arrived, wherever the stream is cut.  Without a complete line
\* receive() returns before the scan.
WouldBlock ==
  /\ stage = "reading" /\ (pipe # <<>> \/ ~closed)
  /\ IF LineEnds = {} THEN stage' = "idle" /\ UNCHANGED <<i, met>>
                      ELSE stage' = "scanning" /\ i' = Len(str) + 1 /\ met' = STRAIGHT
  /\ UNCHANGED <<stream, str, turn_dir>>

-----------------------------------------------------------------------------
(* The scan.  At character i (which is a line's end, or behind the last    *)
(* one) the segment before it is looked at.                                *)

\* The ends that rfind() may find from i backwards, the one at i among them.
\* After an end that is found again comes no message: of length -1, without a
\* sign, there is none.
EndsBefore == {n \in LineEnds : n <= i}

\* Faulty variant: the scan goes on one character before an end.
PreviousOff == IF EndsBefore = {} THEN 0 ELSE Max(EndsBefore) - 1

Previous == IF EndsBefore = {} THEN 0 ELSE Max(EndsBefore)
Segment == SubSeq(str, Previous + 1, i - 1)

\* Faulty variant: the last line's end stays.
RestFrom(n) == SubSeq(str, n, Len(str))

\* Behind the last line's end.
Rest(n) == SubSeq(str, n + 1, Len(str))

Return ==
  /\ str' = Rest(Max(LineEnds)) /\ stage' = "idle"
  /\ i' = 0 /\ met' = STRAIGHT

\* On to the segment before, unless this was the first one.
Continue(up) ==
  IF EndsBefore = {} THEN Return
                     ELSE i' = Previous /\ met' = up /\ UNCHANGED <<str, stage>>

NotAMessage ==
  /\ stage = "scanning" /\ \A t \in Directions : Segment \notin {Down(t), Up(t)}
  /\ Continue(met)
  /\ UNCHANGED <<stream, turn_dir>>

\* Faulty variant: the wrong one of two directions is taken.
PressedMet(t) == IF met = STRAIGHT THEN met ELSE t

\* A key that was released later is not pressed any more.
Pressed(t) == IF t = met THEN STRAIGHT ELSE t

KeyDown(t) ==
  /\ stage = "scanning" /\ Segment = Down(t)
  /\ turn_dir' = Pressed(t)
  /\ Return
  /\ UNCHANGED stream

\* Another key that was released later leaves no direction.  Should there be no
\* KEY_DOWN at all, what was pressed before is released.
KeyUp(t) ==
  /\ stage = "scanning" /\ Segment = Up(t)
  /\ IF met \in Directions \ {t}
       THEN turn_dir' = STRAIGHT /\ Return
       ELSE /\ turn_dir' = IF met = STRAIGHT /\ t = turn_dir THEN STRAIGHT ELSE turn_dir
            /\ Continue(t)
  /\ UNCHANGED stream

Scan == NotAMessage \/ \E t \in Directions : KeyDown(t) \/ KeyUp(t)

-----------------------------------------------------------------------------

KeyInit ==
  /\ pipe = <<>> /\ closed = FALSE /\ str = <<>> /\ heard = <<>>
  /\ turn_dir = STRAIGHT /\ stage = "idle" /\ i = 0 /\ met = STRAIGHT

KeyStep == Receive \/ Read \/ ReadNothing \/ WouldBlock \/ Scan

KeyNext == KeyStep \/ Close \/ \E line \in Lines : PressOrRelease(line)

\* The client does nothing else until receive() returns.
KeySpec == KeyInit /\ [][KeyNext]_keyVars /\ WF_keyVars(KeyStep)
-----------------------------------------------------------------------------
(* Properties. *)

\* Every variable keeps its type; the scan stands on a line's end or behind the
\* last character, and receive() leaves nothing of it behind.
KeyTypeOK ==
  /\ turn_dir \in Directions \cup {STRAIGHT} /\ met \in Directions \cup {STRAIGHT}
  /\ stage \in {"idle", "reading", "scanning"}
  /\ i \in LineEnds \cup {Len(str) + 1} \/ (i = 0 /\ met = STRAIGHT)
  /\ stage = "scanning" <=> i > 0

\* from_gui.h: str "contains characters received from the GUI server after the
\* most recently received new line character".  However the stream is cut, no
\* character is lost, read twice, or left behind as a part of a finished line.
RestIsKept ==
  /\ IsSuffix(str, heard)
  /\ stage = "idle" => Len(str) = Len(heard) % Length

\* What the first n messages mean, read from the front: a key turns until it is
\* released or the other one is pressed.
Meaning[n \in 0..MaxKeys] ==
  IF n = 0 THEN STRAIGHT
  ELSE LET key == heard[Length * n - 2]
           before == Meaning[n - 1]
       IN  IF heard[Length * n - 1] = DOWN THEN key
           ELSE IF before = key THEN STRAIGHT ELSE before

\* from_gui.h: receive() "updates turn_dir accordingly".  The scan goes from the
\* end and stops early, calls begin in the middle of lines, and a text whose
\* line has not ended may be read twice; still turn_dir is always what all the
\* messages so far mean, the last one counted as soon as its text is complete
\* or when its line has ended.
TurnFollowsKeys ==
  LET lines == Len(heard) \div Length
      texts == (Len(heard) + 1) \div Length
  IN  stage = "idle" => turn_dir \in {Meaning[lines], Meaning[texts]}

\* receive() returns, which the client's loop waits for, unless the GUI has
\* closed the connection.
ReceiveReturns == stage # "idle" ~> stage = "idle" \/ closed
=============================================================================
