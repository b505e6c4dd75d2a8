--------------------------- MODULE KeyInput_proofs ---------------------------
(***************************************************************************)
(* Theorems about the keys that the client reads: however the stream is    *)
(* cut, nothing of it is lost, and the scan from the end gives what a      *)
(* reading from the front gives.  They hold for any number of messages;    *)
(* that a scan mostly has no end makes nothing wrong.                      *)
(***************************************************************************)
EXTENDS KeyInput, SequenceTheorems, WellFoundedInduction, TLAPS

USE DEF Length

-----------------------------------------------------------------------------
(* Counting. *)

\* Of a line, or of a rest.
LEMMA Thirds ==
  /\ \A n \in Nat : n = 3 * (n \div 3) + (n % 3) /\ n % 3 \in 0..2 /\ n \div 3 \in Nat
  /\ \A a, b \in Nat : (3 * a + b) % 3 = b % 3 /\ (3 * a + b) \div 3 = a + (b \div 3)
  OBVIOUS

\* A set of numbers that holds 0 and the successor of each of its numbers below
\* b holds all up to b.
LEMMA UpTo ==
  ASSUME NEW b \in Nat, NEW S, 0 \in S,
         \A n \in 0..b : n \in S /\ n + 1 <= b => n + 1 \in S
  PROVE  0..b \subseteq S
<1> DEFINE Bad == (0..b) \ S
           Less == {ss \in Nat \X Nat : ss[1] < ss[2]}
<1> SUFFICES ASSUME Bad # {} PROVE FALSE
  OBVIOUS
<1>1. IsWellFoundedOn(Less, Nat)
  BY NatLessThanWellFounded, Zenon DEF OpToRel
<1>2. Bad \in SUBSET Nat
  OBVIOUS
<1> HIDE DEF Bad, Less
<1>3. PICK n \in Bad : \A m \in Bad : <<m, n>> \notin Less
  BY <1>1, <1>2, WFMin
<1>4. n \in 0..b /\ n \notin S /\ n # 0
  BY DEF Bad
<1>5. n - 1 \in 0..b /\ n - 1 < n /\ n - 1 + 1 = n
  BY <1>4
<1>6. <<n - 1, n>> \in Less
  BY <1>4, <1>5 DEF Less
<1>7. n - 1 \in S
  BY <1>3, <1>5, <1>6 DEF Bad
<1> QED
  BY <1>4, <1>5, <1>7

-----------------------------------------------------------------------------
(* The stream. *)

Chars == Directions \cup {DOWN, UP, NewLine}

\* Character x may be the p-th one of a stream of lines.
MayStand(p, x) ==
  /\ p % 3 = 1 => x \in Directions
  /\ p % 3 = 2 => x \in {DOWN, UP}
  /\ p % 3 = 0 => x = NewLine

\* The lines that the search has left behind.
Base == (Len(heard) - Len(str)) \div 3

\* What is read and what is not are whole lines; str is the end of what is read,
\* from the beginning of a line on.
StreamInv ==
  /\ pipe \in Seq(Chars) /\ heard \in Seq(Chars) /\ str \in Seq(Chars)
  /\ (Len(heard) + Len(pipe)) % 3 = 0 /\ Len(heard) + Len(pipe) <= 3 * MaxKeys
  /\ \A p \in 1..Len(heard) : MayStand(p, heard[p])
  /\ \A p \in 1..Len(pipe) : MayStand(Len(heard) + p, pipe[p])
  /\ Base \in Nat /\ Len(heard) = 3 * Base + Len(str)
  /\ \A p \in 1..Len(str) : str[p] = heard[3 * Base + p]
  /\ stage = "idle" => Len(str) < 3

\* Where receive() is.
StageInv ==
  /\ stage \in {"idle", "reading", "scanning"}
  /\ stage # "scanning" => i = 0 /\ met = STRAIGHT
  /\ stage = "scanning" => /\ LineEnds # {} /\ i \in LineEnds \cup {Len(str) + 1}
                           /\ met \in Directions \cup {STRAIGHT}

LEMMA LineEndsAre ==
  ASSUME StreamInv
  PROVE  /\ LineEnds = {p \in 1..Len(str) : p % 3 = 0}
         /\ LineEnds # {} => /\ Max(LineEnds) = 3 * (Len(str) \div 3)
                             /\ Max(LineEnds) \in 3..Len(str)
<1>1. Len(str) \in Nat /\ Base \in Nat /\ Len(heard) = 3 * Base + Len(str)
  BY DEF StreamInv
<1>2. ASSUME NEW p \in 1..Len(str) PROVE str[p] = NewLine <=> p % 3 = 0
  <2>1. 3 * Base + p \in 1..Len(heard) /\ str[p] = heard[3 * Base + p]
    BY <1>1 DEF StreamInv
  <2>2. MayStand(3 * Base + p, str[p]) /\ (3 * Base + p) % 3 = p % 3 /\ p % 3 \in 0..2
    BY <1>1, <2>1, Thirds DEF StreamInv
  <2> QED
    BY <2>2 DEF MayStand, Directions, RIGHT, LEFT, DOWN, UP, NewLine
<1>3. LineEnds = {p \in 1..Len(str) : p % 3 = 0}
  BY <1>2 DEF LineEnds
<1>4. ASSUME LineEnds # {}
      PROVE  Max(LineEnds) = 3 * (Len(str) \div 3) /\ Max(LineEnds) \in 3..Len(str)
  <2> DEFINE last == 3 * (Len(str) \div 3)
  <2>1. PICK p \in 1..Len(str) : p % 3 = 0
    BY <1>3, <1>4
  <2>2. last \in 3..Len(str) /\ last % 3 = 0 /\ Len(str) < last + 3
    BY <1>1, <2>1, Thirds
  <2>3. last \in LineEnds /\ \A n \in LineEnds : n <= last
    BY <1>1, <1>3, <2>2
  <2>4. LineEnds \subseteq Int
    BY <1>3
  <2> HIDE DEF last
  <2>5. Max(LineEnds) = last
    <3> DEFINE top == Max(LineEnds)
    <3>1. top \in LineEnds /\ \A n \in LineEnds : top >= n
      BY <2>3, <2>4 DEF Max
    <3> HIDE DEF top
    <3>2. top >= last /\ top <= last /\ top \in Int /\ last \in Int
      BY <2>3, <2>4, <3>1
    <3> QED
      BY <3>2 DEF top
  <2> QED
    BY <2>2, <2>5 DEF last
<1> QED
  BY <1>3, <1>4

\* Reading on: what is added to str is added to what is heard.
LEMMA ReadKeeps ==
  ASSUME StreamInv, stage = "reading", Read
  PROVE  /\ StreamInv' /\ Base' = Base /\ Len(heard') >= Len(heard)
         /\ \A p \in 1..Len(heard) : heard'[p] = heard[p]
<1>1. PICK n \in 1..Len(pipe) : /\ str' = str \o SubSeq(pipe, 1, n)
                                /\ heard' = heard \o SubSeq(pipe, 1, n)
                                /\ pipe' = SubSeq(pipe, n + 1, Len(pipe))
  BY DEF Read
<1> DEFINE new == SubSeq(pipe, 1, n)
<1>2. pipe \in Seq(Chars) /\ heard \in Seq(Chars) /\ str \in Seq(Chars) /\ Len(pipe) \in Nat
      /\ Len(heard) \in Nat /\ Len(str) \in Nat
  BY DEF StreamInv
<1>3. /\ new \in Seq(Chars) /\ Len(new) = n
      /\ \A p \in 1..n : new[p] = pipe[p]
      /\ pipe' \in Seq(Chars) /\ Len(pipe') = Len(pipe) - n
      /\ \A p \in 1..Len(pipe') : pipe'[p] = pipe[n + p]
  <2>1. /\ \A p \in 1..n : pipe[p] \in Chars
        /\ \A p \in (n + 1)..Len(pipe) : pipe[p] \in Chars
    BY <1>2
  <2>2. new \in Seq(Chars) /\ Len(new) = n /\ \A p \in 1..n : new[p] = pipe[p]
    BY <2>1, SubSeqProperties
  <2>3. /\ pipe' \in Seq(Chars) /\ Len(pipe') = Len(pipe) - n
        /\ \A p \in 1..(Len(pipe) - n) : pipe'[p] = pipe[n + p]
    <3> DEFINE rest == SubSeq(pipe, n + 1, Len(pipe))
    <3>1. /\ rest \in Seq(Chars)
          /\ Len(rest) = IF n + 1 <= Len(pipe) THEN Len(pipe) - (n + 1) + 1 ELSE 0
          /\ \A p \in 1..(Len(pipe) - (n + 1) + 1) : rest[p] = pipe[n + 1 + p - 1]
      BY <1>2, <2>1, SubSeqProperties
    <3>2. pipe' = rest
      BY <1>1
    <3> HIDE DEF rest
    <3>3. \A p \in 1..(Len(pipe) - n) : n + 1 + p - 1 = n + p
      BY <1>2
    <3> QED
      BY <1>2, <3>1, <3>2, <3>3
  <2> QED
    BY <2>2, <2>3
<1> HIDE DEF new
<1>4. /\ heard' = heard \o new /\ heard' \in Seq(Chars) /\ Len(heard') = Len(heard) + n
      /\ str' = str \o new /\ str' \in Seq(Chars) /\ Len(str') = Len(str) + n
  BY <1>1, <1>2, <1>3 DEF new
<1>5. Base' = Base
  BY <1>2, <1>4 DEF Base
<1>6. \A p \in 1..Len(heard) : heard'[p] = heard[p]
  BY <1>2, <1>3, <1>4
<1>7. \A p \in 1..n : heard'[Len(heard) + p] = pipe[p] /\ str'[Len(str) + p] = pipe[p]
  BY <1>2, <1>3, <1>4
<1>8. ASSUME NEW p \in 1..Len(heard') PROVE MayStand(p, heard'[p])
  <2>1. CASE p <= Len(heard)
    <3>1. p \in 1..Len(heard)
      BY <1>2, <1>4, <2>1
    <3> QED
      BY <1>6, <3>1 DEF StreamInv
  <2>2. CASE p > Len(heard)
    <3>1. p - Len(heard) \in 1..n /\ p - Len(heard) \in 1..Len(pipe)
          /\ Len(heard) + (p - Len(heard)) = p
      BY <1>2, <1>4, <2>2
    <3> QED
      BY <1>7, <3>1 DEF StreamInv
  <2> QED
    BY <1>2, <1>4, <2>1, <2>2
<1>9. ASSUME NEW p \in 1..Len(pipe') PROVE MayStand(Len(heard') + p, pipe'[p])
  <2>1. n + p \in 1..Len(pipe) /\ Len(heard) + (n + p) = Len(heard') + p /\ pipe'[p] = pipe[n + p]
    BY <1>2, <1>3, <1>4
  <2> QED
    BY <2>1 DEF StreamInv
<1>10. ASSUME NEW p \in 1..Len(str') PROVE str'[p] = heard'[3 * Base + p]
  <2>1. Base \in Nat /\ Len(heard) = 3 * Base + Len(str)
    BY DEF StreamInv
  <2>2. CASE p <= Len(str)
    <3>1. p \in 1..Len(str) /\ 3 * Base + p \in 1..Len(heard)
      BY <1>2, <1>4, <2>1, <2>2
    <3>2. str'[p] = str[p]
      BY <1>2, <1>3, <1>4, <3>1
    <3> QED
      BY <1>6, <3>1, <3>2 DEF StreamInv
  <2>3. CASE p > Len(str)
    <3>1. p - Len(str) \in 1..n /\ Len(str) + (p - Len(str)) = p
          /\ Len(heard) + (p - Len(str)) = 3 * Base + p
      BY <1>2, <1>4, <2>1, <2>3
    <3>2. /\ heard'[Len(heard) + (p - Len(str))] = pipe[p - Len(str)]
          /\ str'[Len(str) + (p - Len(str))] = pipe[p - Len(str)]
      BY <1>7, <3>1
    <3> QED
      BY <3>1, <3>2
  <2>4. p <= Len(str) \/ p > Len(str)
    BY <1>2, <1>4
  <2> QED
    BY <2>2, <2>3, <2>4
<1>11. /\ (Len(heard') + Len(pipe')) % 3 = 0 /\ Len(heard') + Len(pipe') <= 3 * MaxKeys
       /\ Base' \in Nat /\ Len(heard') = 3 * Base' + Len(str')
  <2>1. Len(heard') + Len(pipe') = Len(heard) + Len(pipe)
    BY <1>2, <1>3, <1>4
  <2>2. Base \in Nat /\ Len(heard) = 3 * Base + Len(str)
    BY DEF StreamInv
  <2>3. Len(heard') = 3 * Base + Len(str')
    BY <1>2, <1>4, <2>2
  <2> QED
    BY <1>5, <2>1, <2>2, <2>3 DEF StreamInv
<1>12. stage' # "idle"
  BY DEF Read
<1>13. StreamInv'
  BY <1>3, <1>4, <1>5, <1>8, <1>9, <1>10, <1>11, <1>12 DEF StreamInv
<1> QED
  BY <1>2, <1>4, <1>5, <1>6, <1>13

\* The GUI sends whole lines.
LEMMA LineKeeps ==
  ASSUME StreamInv, NEW line \in Lines, PressOrRelease(line)
  PROVE  StreamInv'
<1>1. PICK t \in Directions, a \in {DOWN, UP} : line = <<t, a, NewLine>>
  <2>1. \A t \in Directions, a \in {DOWN, UP} : Append(<<t, a>>, NewLine) = <<t, a, NewLine>>
    <3> SUFFICES ASSUME NEW t \in Directions, NEW a \in {DOWN, UP}
                 PROVE  Append(<<t, a>>, NewLine) = <<t, a, NewLine>>
      OBVIOUS
    <3>1. <<t, a>> \in Seq(Chars) /\ NewLine \in Chars /\ <<t, a, NewLine>> \in Seq(Chars)
      BY DEF Chars
    <3>2. /\ Append(<<t, a>>, NewLine) \in Seq(Chars) /\ Len(Append(<<t, a>>, NewLine)) = 3
          /\ \A p \in 1..3 : Append(<<t, a>>, NewLine)[p] = <<t, a, NewLine>>[p]
      BY <3>1, AppendProperties
    <3> QED
      BY <3>1, <3>2, SeqEqual
  <2>2. PICK t \in Directions : line \in {Append(Down(t), NewLine), Append(Up(t), NewLine)}
    BY DEF Lines
  <2>3. line = <<t, DOWN, NewLine>> \/ line = <<t, UP, NewLine>>
    BY <2>1, <2>2 DEF Down, Up
  <2> QED
    BY <2>3
<1>2. line \in Seq(Chars) /\ Len(line) = 3 /\ line[1] = t /\ line[2] = a /\ line[3] = NewLine
  BY <1>1 DEF Chars
<1>3. /\ pipe' = pipe \o line /\ UNCHANGED <<heard, str, stage>>
      /\ Len(heard) + Len(pipe) < 3 * MaxKeys
  BY DEF PressOrRelease
<1>4. /\ pipe \in Seq(Chars) /\ Len(pipe) \in Nat /\ Len(heard) \in Nat
      /\ (Len(heard) + Len(pipe)) % 3 = 0 /\ MaxKeys \in Nat
  BY KeysAssumption DEF StreamInv
<1>5. /\ pipe' \in Seq(Chars) /\ Len(pipe') = Len(pipe) + 3
      /\ \A p \in 1..(Len(pipe) + 3) :
           pipe'[p] = IF p <= Len(pipe) THEN pipe[p] ELSE line[p - Len(pipe)]
  <2>1. /\ pipe \o line \in Seq(Chars) /\ Len(pipe \o line) = Len(pipe) + Len(line)
        /\ \A p \in 1..(Len(pipe) + Len(line)) :
             (pipe \o line)[p] = IF p <= Len(pipe) THEN pipe[p] ELSE line[p - Len(pipe)]
    BY <1>2, <1>4, ConcatProperties
  <2>2. pipe' = pipe \o line
    BY <1>3
  <2> QED
    BY <1>2, <2>1, <2>2
<1>6. /\ (Len(heard) + Len(pipe')) % 3 = 0 /\ Len(heard) + Len(pipe') <= 3 * MaxKeys
  <2> DEFINE all == Len(heard) + Len(pipe)
  <2>1. all \in Nat /\ all % 3 = 0 /\ all < 3 * MaxKeys
    <3>1. Len(heard) + Len(pipe) < 3 * MaxKeys
      BY <1>3
    <3> QED
      BY <1>4, <3>1
  <2>2. Len(heard) + Len(pipe') = all + 3
    BY <1>4, <1>5
  <2> HIDE DEF all
  <2>3. (all + 3) % 3 = 0 /\ all + 3 <= 3 * MaxKeys
    BY <1>4, <2>1
  <2> QED
    BY <2>2, <2>3
<1>7. ASSUME NEW p \in 1..Len(pipe') PROVE MayStand(Len(heard) + p, pipe'[p])
  <2>1. CASE p <= Len(pipe)
    <3>1. p \in 1..Len(pipe) /\ pipe'[p] = pipe[p]
      BY <1>4, <1>5, <2>1
    <3> QED
      BY <3>1 DEF StreamInv
  <2>2. CASE p > Len(pipe)
    <3>1. p - Len(pipe) \in 1..3 /\ pipe'[p] = line[p - Len(pipe)]
      BY <1>4, <1>5, <2>2
    <3>2. (Len(heard) + p) % 3 = (p - Len(pipe)) % 3
      BY <1>4
    <3> HIDE DEF MayStand
    <3>3. MayStand(Len(heard) + p, line[p - Len(pipe)])
      <4>1. CASE p - Len(pipe) = 1
        BY <1>2, <3>2, <4>1 DEF MayStand
      <4>2. CASE p - Len(pipe) = 2
        BY <1>2, <3>2, <4>2 DEF MayStand
      <4>3. CASE p - Len(pipe) = 3
        BY <1>2, <3>2, <4>3 DEF MayStand
      <4> QED
        BY <3>1, <4>1, <4>2, <4>3
    <3> QED
      BY <3>1, <3>3
  <2> QED
    BY <1>4, <1>5, <2>1, <2>2
<1>8. Base' = Base
  BY <1>3 DEF Base
<1> QED
  BY <1>3, <1>5, <1>6, <1>7, <1>8 DEF StreamInv

\* receive() takes away all lines that have ended.
LEMMA ReturnKeeps ==
  ASSUME StreamInv, LineEnds # {}, Return, UNCHANGED stream
  PROVE  /\ StreamInv' /\ Base' = Len(heard) \div 3
         /\ Len(str') < 3 /\ stage' = "idle" /\ i' = 0 /\ met' = STRAIGHT
<1> DEFINE last == 3 * (Len(str) \div 3)
<1>1. /\ str' = SubSeq(str, last + 1, Len(str)) /\ last \in 3..Len(str)
      /\ stage' = "idle" /\ i' = 0 /\ met' = STRAIGHT /\ UNCHANGED <<heard, pipe>>
  BY LineEndsAre DEF Return, Rest, stream
<1>2. /\ str \in Seq(Chars) /\ Len(str) \in Nat /\ Len(heard) \in Nat
      /\ Base \in Nat /\ Len(heard) = 3 * Base + Len(str)
  BY DEF StreamInv
<1>3. Len(str) - last \in 0..2
  BY <1>2, Thirds
<1>4. Base + (Len(str) \div 3) = Len(heard) \div 3
  BY <1>2, Thirds
<1> DEFINE gone == Len(str) \div 3
<1>5. gone \in Nat /\ last = 3 * gone
  BY <1>2, Thirds
<1> HIDE DEF last, gone
<1>6. /\ str' \in Seq(Chars) /\ Len(str') = Len(str) - last
      /\ \A p \in 1..Len(str') : str'[p] = str[last + p]
  BY <1>1, <1>2
<1>7. Base' = Base + gone
  <2>1. Len(heard') = Len(heard) /\ Len(str') = Len(str) - last
    BY <1>1, <1>6
  <2>2. Len(heard') - Len(str') = 3 * (Base + gone)
    BY <1>2, <1>5, <2>1
  <2>3. \A n \in Nat : (3 * n) \div 3 = n
    OBVIOUS
  <2> QED
    BY <1>2, <1>5, <2>2, <2>3 DEF Base
<1>8. \A p \in 1..Len(str') : str'[p] = heard'[3 * Base' + p]
  <2> SUFFICES ASSUME NEW p \in 1..Len(str') PROVE str'[p] = heard[3 * Base' + p]
    BY <1>1
  <2>1. last + p \in 1..Len(str) /\ 3 * Base + (last + p) = 3 * Base' + p
    BY <1>1, <1>2, <1>5, <1>6, <1>7
  <2>2. str[last + p] = heard[3 * Base + (last + p)]
    BY <2>1 DEF StreamInv
  <2> QED
    BY <1>6, <2>1, <2>2
<1>9. Base' \in Nat /\ Len(heard') = 3 * Base' + Len(str')
  <2>1. Len(heard') = Len(heard) /\ Len(str') = Len(str) - last
    BY <1>1, <1>6
  <2> QED
    BY <1>2, <1>5, <1>7, <2>1
<1>10. Len(str') < 3
  BY <1>3, <1>6
<1>11. StreamInv'
  BY <1>1, <1>6, <1>8, <1>9, <1>10 DEF StreamInv
<1> QED
  BY <1>1, <1>4, <1>7, <1>10, <1>11 DEF gone

-----------------------------------------------------------------------------
(* The scan. *)

LEMMA MaxIs ==
  ASSUME NEW S \in SUBSET Int, NEW m \in S, \A n \in S : n <= m
  PROVE  Max(S) = m
<1> DEFINE top == Max(S)
<1>1. top \in S /\ \A n \in S : top >= n
  BY DEF Max
<1> HIDE DEF top
<1>2. top >= m /\ top <= m /\ top \in Int /\ m \in Int
  BY <1>1
<1> QED
  BY <1>2 DEF top

\* The message whose text ends before character i, if one does, and else the
\* last one before that place.
At == Base + (i \div 3)
HasText == i % 3 = 0 /\ i = Len(str) + 1

LEMMA ScanFacts ==
  ASSUME StreamInv, StageInv, stage = "scanning"
  PROVE  /\ i \in 3..(Len(str) + 1)
         /\ HasText => /\ Segment = <<heard[3 * At - 2], heard[3 * At - 1]>>
                       /\ At \in 1..((Len(heard) + 1) \div 3)
         /\ ~HasText => Len(Segment) < 2
         /\ EndsBefore = {} => HasText /\ At = Base + 1
         /\ EndsBefore # {} => /\ Previous \in LineEnds
                               /\ Base + (Previous \div 3) = IF HasText THEN At - 1 ELSE At
<1>1. /\ str \in Seq(Chars) /\ Len(str) \in Nat /\ Base \in Nat
      /\ heard \in Seq(Chars) /\ Len(heard) = 3 * Base + Len(str)
  BY DEF StreamInv
<1>2. /\ LineEnds = {p \in 1..Len(str) : p % 3 = 0} /\ LineEnds # {}
      /\ i \in LineEnds \cup {Len(str) + 1}
  BY LineEndsAre DEF StageInv
<1>3. i \in 3..(Len(str) + 1)
  <2>1. Max(LineEnds) \in 3..Len(str)
    BY <1>2, LineEndsAre
  <2>2. \A p \in Nat \ {0} : p % 3 = 0 => p >= 3
    OBVIOUS
  <2> QED
    BY <1>1, <1>2, <2>1, <2>2
<1>4. i \div 3 \in Nat /\ i % 3 \in 0..2 /\ i = 3 * (i \div 3) + (i % 3)
  BY <1>3, Thirds
<1>5. CASE i \in LineEnds
  <2>1. EndsBefore = {n \in LineEnds : n <= i} /\ i \in EndsBefore
    BY <1>1, <1>2, <1>5 DEF EndsBefore
  <2>2. EndsBefore \in SUBSET Int /\ \A n \in EndsBefore : n <= i
    BY <1>2, <2>1
  <2>3. Max(EndsBefore) = i
    BY <2>1, <2>2, MaxIs
  <2>4. Previous = i
    BY <2>1, <2>3 DEF Previous
  <2>5. ~HasText
    BY <1>1, <1>2, <1>5 DEF HasText
  <2>6. Len(Segment) < 2
    <3>1. i + 1 \in Int /\ i - 1 \in Int /\ i - 1 < i + 1
      BY <1>3
    <3>2. SubSeq(str, i + 1, i - 1) = <<>>
      BY <3>1, SubSeqEmpty
    <3>3. Segment = <<>>
      BY <2>4, <3>2 DEF Segment
    <3> QED
      BY <3>3
  <2> QED
    BY <1>3, <1>5, <2>1, <2>4, <2>5, <2>6 DEF At
<1>6. CASE i \notin LineEnds
  <2> DEFINE p == 3 * ((i - 1) \div 3)
  <2>1. EndsBefore = {n \in 1..(i - 1) : n % 3 = 0}
    <3>1. \A n \in LineEnds : n # i
      BY <1>6
    <3>2. EndsBefore = {n \in LineEnds : n < i}
      BY <1>1, <1>2, <1>3, <3>1 DEF EndsBefore
    <3> QED
      BY <1>1, <1>2, <1>3, <3>2
  <2>2. i - 1 \in Nat /\ p \in 0..(i - 1) /\ i - 1 - p = (i - 1) % 3 /\ p % 3 = 0
        /\ p \in Nat /\ p \div 3 = (i - 1) \div 3
    <3>1. i - 1 \in Nat /\ (i - 1) \div 3 \in Nat
      BY <1>3, Thirds
    <3>2. \A n \in Nat : (3 * n) % 3 = 0 /\ (3 * n) \div 3 = n
      OBVIOUS
    <3> QED
      BY <3>1, <3>2, Thirds
  <2>3. HasText <=> i % 3 = 0
    BY <1>2, <1>6 DEF HasText
  <2>4. /\ i % 3 = 0 => (i - 1) % 3 = 2 /\ (i - 1) \div 3 = (i \div 3) - 1
        /\ i % 3 # 0 => (i - 1) % 3 < 2 /\ (i - 1) \div 3 = i \div 3
    BY <1>3
  <2>5. EndsBefore = {} => p = 0
    BY <2>1, <2>2
  <2>6. EndsBefore # {} => Max(EndsBefore) = p /\ p \in LineEnds
    <3> SUFFICES ASSUME EndsBefore # {} PROVE Max(EndsBefore) = p /\ p \in LineEnds
      OBVIOUS
    <3>1. PICK n \in 1..(i - 1) : n % 3 = 0
      BY <2>1
    <3>2. \A m \in Nat : m <= i - 1 /\ m % 3 = 0 => m <= p
      BY <1>3, <2>2
    <3>3. n \in Nat /\ n <= p /\ p \in 1..(i - 1)
      BY <1>3, <2>2, <3>1, <3>2
    <3>4. p \in EndsBefore /\ EndsBefore \in SUBSET Int /\ \A m \in EndsBefore : m <= p
      BY <2>1, <2>2, <3>2, <3>3
    <3> HIDE DEF p
    <3>5. Max(EndsBefore) = p
      BY <3>4, MaxIs
    <3> QED
      BY <3>4, <3>5 DEF EndsBefore
  <2>7. Previous = p
    BY <2>5, <2>6 DEF Previous
  <2>8. EndsBefore = {} => HasText /\ At = Base + 1
    <3> SUFFICES ASSUME EndsBefore = {} PROVE HasText /\ At = Base + 1
      OBVIOUS
    <3>1. ~ (i - 1 >= 3)
      BY <2>1
    <3>2. i = 3
      BY <1>3, <3>1
    <3> QED
      BY <1>1, <2>3, <3>2 DEF At
  <2>9. EndsBefore # {} => Base + (Previous \div 3) = IF HasText THEN At - 1 ELSE At
    <3>1. Previous \div 3 = (i - 1) \div 3
      BY <2>2, <2>7
    <3>2. Base + (Previous \div 3) = IF HasText THEN Base + ((i \div 3) - 1) ELSE Base + (i \div 3)
      BY <2>3, <2>4, <3>1
    <3>3. Base + ((i \div 3) - 1) = (Base + (i \div 3)) - 1
      BY <1>1, <1>4
    <3> QED
      BY <3>2, <3>3 DEF At
  <2> HIDE DEF p
  <2>10. /\ Segment \in Seq(Chars) /\ Len(Segment) = (i - 1) % 3
         /\ \A k \in 1..((i - 1) % 3) : Segment[k] = str[p + k]
    <3>1. \A k \in (p + 1)..(i - 1) : k \in 1..Len(str)
      BY <1>1, <1>3, <2>2
    <3>2. \A k \in (p + 1)..(i - 1) : str[k] \in Chars
      BY <1>1, <3>1
    <3>3. Segment = SubSeq(str, p + 1, i - 1) /\ p + 1 \in Int /\ i - 1 \in Int
      BY <2>2, <2>7 DEF Segment
    <3>4. /\ Segment \in Seq(Chars)
          /\ Len(Segment) = IF p + 1 <= i - 1 THEN i - 1 - (p + 1) + 1 ELSE 0
          /\ \A k \in 1..(i - 1 - (p + 1) + 1) : Segment[k] = str[p + 1 + k - 1]
      BY <3>2, <3>3, SubSeqProperties
    <3>5. i - 1 - (p + 1) + 1 = (i - 1) % 3 /\ \A k \in Int : p + 1 + k - 1 = p + k
      BY <1>3, <2>2
    <3> QED
      BY <1>3, <2>2, <3>4, <3>5
  <2>11. ~HasText => Len(Segment) < 2
    BY <2>3, <2>4, <2>10
  <2>12. ASSUME HasText
         PROVE  /\ Segment = <<heard[3 * At - 2], heard[3 * At - 1]>>
                /\ At \in 1..((Len(heard) + 1) \div 3)
    <3>1. i % 3 = 0 /\ Len(Segment) = 2 /\ p = i - 3
      BY <1>3, <2>2, <2>3, <2>4, <2>10, <2>12
    <3>2. Segment[1] = str[i - 2] /\ Segment[2] = str[i - 1]
      BY <1>3, <2>4, <2>10, <3>1
    <3>3. At \in Nat /\ 3 * At = 3 * Base + i
      BY <1>1, <1>4, <3>1 DEF At
    <3>4. str[i - 2] = heard[3 * Base + (i - 2)] /\ str[i - 1] = heard[3 * Base + (i - 1)]
      <4>1. i - 2 \in 1..Len(str) /\ i - 1 \in 1..Len(str)
        BY <1>1, <1>3
      <4> QED
        BY <4>1 DEF StreamInv
    <3>5. Segment[1] = heard[3 * At - 2] /\ Segment[2] = heard[3 * At - 1]
      <4>1. 3 * At - 2 = 3 * Base + (i - 2) /\ 3 * At - 1 = 3 * Base + (i - 1)
        BY <1>1, <1>3, <3>3
      <4> QED
        BY <3>2, <3>4, <4>1
    <3>6. Segment = <<heard[3 * At - 2], heard[3 * At - 1]>>
      BY <2>10, <3>1, <3>5
    <3>7. At \in 1..((Len(heard) + 1) \div 3)
      <4>1. 3 * At >= 3 /\ 3 * At <= Len(heard) + 1 /\ Len(heard) \in Nat
        BY <1>1, <1>3, <3>3
      <4> QED
        BY <3>3, <4>1
    <3> QED
      BY <3>6, <3>7
  <2> QED
    BY <1>3, <2>6, <2>7, <2>8, <2>9, <2>11, <2>12
<1> QED
  BY <1>5, <1>6

\* A step of the scan ends it or goes on to the segment before.
LEMMA ScanDoes ==
  ASSUME StreamInv, StageInv, Scan
  PROVE  /\ stage = "scanning" /\ UNCHANGED stream
         /\ \/ Return
            \/ /\ EndsBefore # {} /\ i' = Previous /\ met' \in Directions \cup {STRAIGHT}
               /\ UNCHANGED <<str, stage>>
<1>1. stage = "scanning"
  BY DEF Scan, NotAMessage, KeyDown, KeyUp
<1>2. met \in Directions \cup {STRAIGHT}
  BY <1>1 DEF StageInv
<1>3. CASE NotAMessage
  BY <1>1, <1>2, <1>3 DEF NotAMessage, Continue
<1>4. ASSUME NEW t \in Directions, KeyDown(t) \/ KeyUp(t)
      PROVE  UNCHANGED stream /\ (Return \/ Continue(t) \/ Continue(met))
  BY <1>4 DEF KeyDown, KeyUp
<1> QED
  BY <1>1, <1>2, <1>3, <1>4 DEF Scan, Continue

LEMMA StreamInit == KeyInit => StreamInv /\ StageInv
<1> SUFFICES ASSUME KeyInit PROVE StreamInv /\ StageInv
  OBVIOUS
<1>1. pipe = <<>> /\ heard = <<>> /\ str = <<>> /\ stage = "idle" /\ i = 0 /\ met = STRAIGHT
  BY DEF KeyInit
<1>2. pipe \in Seq(Chars) /\ Len(pipe) = 0 /\ heard \in Seq(Chars) /\ Len(heard) = 0
      /\ str \in Seq(Chars) /\ Len(str) = 0
  BY <1>1
<1>3. Base = 0
  BY <1>2 DEF Base
<1>4. MaxKeys \in Nat
  BY KeysAssumption
<1> QED
  BY <1>1, <1>2, <1>3, <1>4 DEF StreamInv, StageInv

LEMMA StreamStep ==
  ASSUME StreamInv, StageInv, [KeyNext]_keyVars
  PROVE  StreamInv' /\ StageInv'
<1>1. ASSUME UNCHANGED <<pipe, heard, str, stage, i, met>> PROVE StreamInv' /\ StageInv'
  BY <1>1 DEF StreamInv, StageInv, Base, LineEnds
<1>2. ASSUME NEW line \in Lines, PressOrRelease(line) PROVE StreamInv' /\ StageInv'
  BY <1>2, LineKeeps DEF PressOrRelease, StageInv, LineEnds
<1>3. CASE Receive
  BY <1>3 DEF Receive, stream, StreamInv, StageInv, Base, LineEnds
<1>4. CASE Read
  <2>1. stage = "reading" /\ UNCHANGED <<stage, i, met>>
    BY <1>4 DEF Read
  <2> QED
    BY <1>4, <2>1, ReadKeeps DEF StageInv
<1>5. CASE WouldBlock
  <2>1. UNCHANGED <<pipe, heard, str>> /\ stage = "reading" /\ i = 0 /\ met = STRAIGHT
    BY <1>5 DEF WouldBlock, stream, StageInv
  <2>2. CASE LineEnds = {}
    <3>1. stage' = "idle" /\ UNCHANGED <<i, met>>
      BY <1>5, <2>2 DEF WouldBlock
    <3>2. Len(str) < 3
      <4>1. Len(str) \in Nat
        BY DEF StreamInv
      <4>2. 3 % 3 = 0
        OBVIOUS
      <4> QED
        BY <2>2, <4>1, <4>2, LineEndsAre
    <3> QED
      BY <2>1, <3>1, <3>2 DEF StreamInv, StageInv, Base
  <2>3. CASE LineEnds # {}
    <3>1. stage' = "scanning" /\ i' = Len(str) + 1 /\ met' = STRAIGHT
      BY <1>5, <2>3 DEF WouldBlock
    <3> QED
      BY <2>1, <2>3, <3>1 DEF StreamInv, StageInv, Base, LineEnds
  <2> QED
    BY <2>2, <2>3
<1>6. CASE Scan
  <2>1. stage = "scanning" /\ LineEnds # {} /\ UNCHANGED <<pipe, heard>>
    BY <1>6, ScanDoes DEF StageInv, stream
  <2>2. CASE Return
    BY <1>6, <2>1, <2>2, ReturnKeeps, ScanDoes DEF StageInv
  <2>3. CASE /\ EndsBefore # {} /\ i' = Previous /\ met' \in Directions \cup {STRAIGHT}
             /\ UNCHANGED <<str, stage>>
    <3>1. Previous \in LineEnds
      BY <2>1, <2>3, ScanFacts
    <3> QED
      BY <2>1, <2>3, <3>1 DEF StreamInv, StageInv, Base, LineEnds
  <2> QED
    BY <1>6, <2>2, <2>3, ScanDoes
<1>7. ReadNothing \/ Close \/ UNCHANGED keyVars => UNCHANGED <<pipe, heard, str, stage, i, met>>
  BY DEF ReadNothing, Close, keyVars
<1> QED
  BY <1>1, <1>2, <1>3, <1>4, <1>5, <1>6, <1>7 DEF KeyNext, KeyStep

\* KeySpec without its fairness.
KeyMoves == KeyInit /\ [][KeyNext]_keyVars

LEMMA StreamAlways == KeyMoves => [](StreamInv /\ StageInv)
  BY StreamInit, StreamStep, PTL DEF KeyMoves

\* What follows the last line's end, and only that, is what str holds between
\* two calls: nothing is lost, read twice or left behind.
THEOREM RestStays == KeyMoves => []RestIsKept
<1>1. StreamInv => RestIsKept
  <2> SUFFICES ASSUME StreamInv PROVE RestIsKept
    OBVIOUS
  <2>1. /\ str \in Seq(Chars) /\ heard \in Seq(Chars) /\ Len(str) \in Nat /\ Len(heard) \in Nat
        /\ Base \in Nat /\ Len(heard) = 3 * Base + Len(str)
        /\ \A p \in 1..Len(str) : str[p] = heard[3 * Base + p]
    BY DEF StreamInv
  <2> DEFINE s == Reverse(str)
             h == Reverse(heard)
  <2>2. /\ s \in Seq(Chars) /\ Len(s) = Len(str)
        /\ \A p \in 1..Len(str) : s[p] = str[Len(str) - p + 1]
    BY <2>1 DEF Reverse
  <2>3. /\ h \in Seq(Chars) /\ Len(h) = Len(heard)
        /\ \A p \in 1..Len(heard) : h[p] = heard[Len(heard) - p + 1]
    BY <2>1 DEF Reverse
  <2> HIDE DEF s, h
  <2>4. \A p \in 1..Len(s) : s[p] = h[p]
    <3> SUFFICES ASSUME NEW p \in 1..Len(str) PROVE s[p] = h[p]
      BY <2>2
    <3>1. /\ Len(str) - p + 1 \in 1..Len(str) /\ p \in 1..Len(heard)
          /\ 3 * Base + (Len(str) - p + 1) = Len(heard) - p + 1
      BY <2>1
    <3> QED
      BY <2>1, <2>2, <2>3, <3>1
  <2>5. SubSeq(s, 1, Len(s)) = s
    BY <2>2, SubSeqFull
  <2>6. SubSeq(h, 1, Len(s)) = s
    <3> DEFINE t == SubSeq(h, 1, Len(s))
    <3>1. \A p \in 1..Len(s) : h[p] \in Chars
      BY <2>2, <2>4
    <3>2. t \in Seq(Chars) /\ Len(t) = Len(s) /\ \A p \in 1..Len(s) : t[p] = h[p]
      BY <2>1, <2>2, <3>1, SubSeqProperties
    <3> HIDE DEF t
    <3>3. t = s
      BY <2>2, <2>4, <3>2, SeqEqual
    <3> QED
      BY <3>3 DEF t
  <2>7. IsSuffix(str, heard)
    <3>1. Len(s) <= Len(h)
      BY <2>1, <2>2, <2>3
    <3>2. IsPrefix(s, h)
      BY <2>5, <2>6, <3>1 DEF IsPrefix
    <3> QED
      BY <3>2 DEF IsSuffix, s, h
  <2>8. ASSUME stage = "idle" PROVE Len(str) = Len(heard) % 3
    <3>1. Len(str) < 3
      BY <2>8 DEF StreamInv
    <3> QED
      BY <2>1, <3>1, Thirds
  <2> QED
    BY <2>7, <2>8 DEF RestIsKept
<1> QED
  BY <1>1, StreamAlways, PTL

-----------------------------------------------------------------------------
(* A reading from the front. *)

\* What is left of direction x when key t is released.
Minus(t, x) == IF x = t THEN STRAIGHT ELSE x

\* The direction after the n-th message of h, if it is before ahead of it.
Step(h, n, before) ==
  IF h[3 * n - 1] = DOWN THEN h[3 * n - 2] ELSE Minus(h[3 * n - 2], before)

Reading(h) ==
  CHOOSE f : f = [n \in 0..MaxKeys |-> IF n = 0 THEN STRAIGHT ELSE Step(h, n, f[n - 1])]

LEMMA MeaningIs == Meaning = Reading(heard)
  BY DEF Meaning, Reading, Step, Minus

LEMMA ReadingIs ==
  ASSUME NEW h
  PROVE  \A n \in 0..MaxKeys :
           Reading(h)[n] = IF n = 0 THEN STRAIGHT ELSE Step(h, n, Reading(h)[n - 1])
<1> DEFINE Upto(f, m) ==
             f = [n \in 0..m |-> IF n = 0 THEN STRAIGHT ELSE Step(h, n, f[n - 1])]
           Good == {m \in 0..MaxKeys : \E f : Upto(f, m)}
<1>1. MaxKeys \in Nat
  BY KeysAssumption
<1>2. 0 \in Good
  <2> DEFINE g == [n \in 0..0 |-> STRAIGHT]
  <2>1. Upto(g, 0)
    OBVIOUS
  <2> HIDE DEF g, Upto
  <2>2. \E f : Upto(f, 0)
    BY <2>1
  <2> QED
    BY <1>1, <2>2
<1>3. ASSUME NEW m \in 0..MaxKeys, m \in Good, m + 1 <= MaxKeys
      PROVE  m + 1 \in Good
  <2>1. PICK g : Upto(g, m)
    BY <1>3
  <2> DEFINE f == [n \in 0..(m + 1) |-> IF n = m + 1 THEN Step(h, n, g[m]) ELSE g[n]]
  <2>2. ASSUME NEW n \in 0..(m + 1)
        PROVE  f[n] = IF n = 0 THEN STRAIGHT ELSE Step(h, n, f[n - 1])
    <3>1. CASE n = m + 1
      <4>1. m \in 0..(m + 1) /\ m # m + 1 /\ n # 0 /\ n - 1 = m
        BY <3>1
      <4> QED
        BY <3>1, <4>1
    <3>2. CASE n # m + 1
      <4>1. n \in 0..m /\ (n # 0 => n - 1 \in 0..m /\ n - 1 # m + 1 /\ n - 1 \in 0..(m + 1))
        BY <3>2
      <4>2. g[n] = IF n = 0 THEN STRAIGHT ELSE Step(h, n, g[n - 1])
        BY <2>1, <4>1
      <4> QED
        BY <3>2, <4>1, <4>2
    <3> QED
      BY <3>1, <3>2
  <2>3. Upto(f, m + 1)
    <3> HIDE DEF f
    <3>1. f = [n \in 0..(m + 1) |-> f[n]]
      BY DEF f
    <3> QED
      BY <2>2, <3>1
  <2>4. m + 1 \in 0..MaxKeys
    BY <1>3
  <2> HIDE DEF f, Upto
  <2> QED
    BY <2>3, <2>4
<1>4. MaxKeys \in Good
  <2> HIDE DEF Good
  <2>1. \A n \in 0..MaxKeys : n \in Good /\ n + 1 <= MaxKeys => n + 1 \in Good
    BY <1>3
  <2>2. 0..MaxKeys \subseteq Good
    BY <1>1, <1>2, <2>1, UpTo
  <2> QED
    BY <1>1, <2>2
<1>5. Reading(h) = [n \in 0..MaxKeys |-> IF n = 0 THEN STRAIGHT ELSE Step(h, n, Reading(h)[n - 1])]
  BY <1>4 DEF Reading
<1> QED
  BY <1>5

\* The messages whose text is complete.
Texts == (Len(heard) + 1) \div 3

LEMMA Numbers ==
  ASSUME StreamInv
  PROVE  /\ Base \in 0..Texts /\ Texts \in 0..MaxKeys /\ Len(heard) \in Nat
         /\ \A n \in 1..Texts : /\ heard[3 * n - 2] \in Directions
                                /\ heard[3 * n - 1] \in {DOWN, UP}
<1>1. /\ Len(heard) \in Nat /\ Len(pipe) \in Nat /\ Len(str) \in Nat /\ Base \in Nat
      /\ MaxKeys \in Nat /\ Len(heard) = 3 * Base + Len(str)
      /\ (Len(heard) + Len(pipe)) % 3 = 0 /\ Len(heard) + Len(pipe) <= 3 * MaxKeys
  BY KeysAssumption DEF StreamInv
<1>2. Texts \in Nat /\ 3 * Texts <= Len(heard) + 1 /\ Base <= Texts /\ Texts <= MaxKeys
  BY <1>1 DEF Texts
<1>3. ASSUME NEW n \in 1..Texts
      PROVE  heard[3 * n - 2] \in Directions /\ heard[3 * n - 1] \in {DOWN, UP}
  <2>1. 3 * n - 2 \in 1..Len(heard) /\ 3 * n - 1 \in 1..Len(heard)
    BY <1>1, <1>2
  <2>2. (3 * n - 2) % 3 = 1 /\ (3 * n - 1) % 3 = 2
    BY <1>2
  <2>3. MayStand(3 * n - 2, heard[3 * n - 2]) /\ MayStand(3 * n - 1, heard[3 * n - 1])
    BY <2>1 DEF StreamInv
  <2> QED
    BY <2>2, <2>3 DEF MayStand
<1> QED
  BY <1>1, <1>2, <1>3

\* Every message that is read means a direction or none.
LEMMA ReadingType ==
  ASSUME StreamInv
  PROVE  \A n \in 0..Texts : Reading(heard)[n] \in Directions \cup {STRAIGHT}
<1> DEFINE S == {n \in 0..Texts : Reading(heard)[n] \in Directions \cup {STRAIGHT}}
<1>1. Texts \in 0..MaxKeys /\ MaxKeys \in Nat
  BY Numbers, KeysAssumption
<1>2. 0 \in S
  BY <1>1, ReadingIs
<1>3. ASSUME NEW n \in 0..Texts, n \in S, n + 1 <= Texts PROVE n + 1 \in S
  <2>1. n + 1 \in 1..Texts /\ n + 1 \in 0..MaxKeys /\ n + 1 # 0 /\ (n + 1) - 1 = n
    BY <1>1, <1>3
  <2>2. Reading(heard)[n + 1] = Step(heard, n + 1, Reading(heard)[n])
    BY <2>1, ReadingIs
  <2>3. heard[3 * (n + 1) - 2] \in Directions
    BY <2>1, Numbers
  <2> QED
    BY <1>3, <2>1, <2>2, <2>3 DEF Step, Minus
<1>4. 0..Texts \subseteq S
  <2> HIDE DEF S
  <2>1. Texts \in Nat
    BY <1>1
  <2>2. \A n \in 0..Texts : n \in S /\ n + 1 <= Texts => n + 1 \in S
    BY <1>3
  <2> QED
    BY <1>2, <2>1, <2>2, UpTo
<1> QED
  BY <1>4

\* What has been read means the same when more has been.
LEMMA ReadingGoesOn ==
  ASSUME StreamInv, NEW h, \A p \in 1..Len(heard) : h[p] = heard[p]
  PROVE  \A n \in 0..Texts : Reading(h)[n] = Reading(heard)[n]
<1> DEFINE S == {n \in 0..Texts : Reading(h)[n] = Reading(heard)[n]}
<1>1. Texts \in 0..MaxKeys /\ MaxKeys \in Nat /\ Len(heard) \in Nat
  BY Numbers, KeysAssumption
<1>2. 0 \in S
  BY <1>1, ReadingIs
<1>3. ASSUME NEW n \in 0..Texts, n \in S, n + 1 <= Texts PROVE n + 1 \in S
  <2>1. n + 1 \in 0..Texts /\ n + 1 \in 0..MaxKeys /\ n + 1 # 0 /\ (n + 1) - 1 = n
    BY <1>1, <1>3
  <2>2. /\ Reading(heard)[n + 1] = Step(heard, n + 1, Reading(heard)[n])
        /\ Reading(h)[n + 1] = Step(h, n + 1, Reading(h)[n])
    BY <2>1, ReadingIs
  <2>3. 3 * (n + 1) - 2 \in 1..Len(heard) /\ 3 * (n + 1) - 1 \in 1..Len(heard)
    BY <1>1, <2>1 DEF Texts
  <2>4. Step(h, n + 1, Reading(h)[n]) = Step(heard, n + 1, Reading(heard)[n])
    BY <1>3, <2>3 DEF Step
  <2> QED
    BY <2>1, <2>2, <2>4
<1>4. 0..Texts \subseteq S
  <2> HIDE DEF S
  <2>1. Texts \in Nat
    BY <1>1
  <2>2. \A n \in 0..Texts : n \in S /\ n + 1 <= Texts => n + 1 \in S
    BY <1>3
  <2> QED
    BY <1>2, <2>1, <2>2, UpTo
<1> QED
  BY <1>4

-----------------------------------------------------------------------------
(* The scan agrees with it. *)

\* The direction before the scan: a text whose line had not ended may have been
\* looked at already.
Before(d) ==
  \/ d = Reading(heard)[Base]
  \/ Base + 1 <= Texts /\ d = Reading(heard)[Base + 1]

\* From the message on that the scan has come to, the others release key met;
\* so does the direction that the scan has found.
TurnInv ==
  /\ stage # "scanning" => Before(turn_dir)
  /\ stage = "scanning" =>
       /\ Reading(heard)[Texts] = Minus(met, Reading(heard)[At])
       /\ \E d : Before(d) /\ turn_dir = Minus(met, d)

LEMMA Releases ==
  /\ \A x : Minus(STRAIGHT, x) = x
  /\ \A t, x : t # STRAIGHT => Minus(t, Minus(t, x)) = Minus(t, x)
  BY DEF Minus

\* The message that the scan looks at.
LEMMA MessageMeans ==
  ASSUME StreamInv, StageInv, stage = "scanning", NEW t \in Directions
  PROVE  /\ Segment = Down(t) => HasText /\ Reading(heard)[At] = t
         /\ Segment = Up(t) => HasText /\ Reading(heard)[At] = Minus(t, Reading(heard)[At - 1])
         /\ HasText => \E u \in Directions : Segment \in {Down(u), Up(u)}
<1>1. /\ HasText => /\ Segment = <<heard[3 * At - 2], heard[3 * At - 1]>>
                    /\ At \in 1..Texts
      /\ ~HasText => Len(Segment) < 2
  BY ScanFacts DEF Texts
<1>2. Len(Down(t)) = 2 /\ Len(Up(t)) = 2
  BY DEF Down, Up
<1>3. Segment \in {Down(t), Up(t)} => HasText
  <2> SUFFICES ASSUME ~HasText, Segment = Down(t) \/ Segment = Up(t) PROVE FALSE
    OBVIOUS
  <2>1. Len(Segment) = 2 /\ Len(Segment) < 2
    BY <1>1, <1>2
  <2> QED
    BY <2>1
<1>4. CASE ~HasText
  BY <1>3, <1>4
<1>5. CASE HasText
  <2>1. Segment = <<heard[3 * At - 2], heard[3 * At - 1]>> /\ At \in 1..Texts
    BY <1>1, <1>5
  <2>2. heard[3 * At - 2] \in Directions /\ heard[3 * At - 1] \in {DOWN, UP}
    BY <2>1, Numbers
  <2>3. Reading(heard)[At] = Step(heard, At, Reading(heard)[At - 1])
    <3>1. At \in 0..MaxKeys /\ At # 0
      <4>1. Texts \in 0..MaxKeys /\ MaxKeys \in Nat
        BY Numbers, KeysAssumption
      <4> HIDE DEF At, Texts
      <4> QED
        BY <2>1, <4>1
    <3> QED
      BY <3>1, ReadingIs
  <2>4. /\ \A a, b, c, d : <<a, b>> = <<c, d>> => a = c /\ b = d
    OBVIOUS
  <2>5. Segment = Down(t) => heard[3 * At - 2] = t /\ heard[3 * At - 1] = DOWN
    BY <2>1, <2>4 DEF Down
  <2>6. Segment = Up(t) => heard[3 * At - 2] = t /\ heard[3 * At - 1] = UP
    BY <2>1, <2>4 DEF Up
  <2>7. \E u \in Directions : Segment \in {Down(u), Up(u)}
    BY <2>1, <2>2 DEF Down, Up
  <2> HIDE DEF At
  <2> QED
    BY <1>5, <2>3, <2>5, <2>6, <2>7 DEF Step, DOWN, UP
<1> QED
  BY <1>4, <1>5

\* The scan ends with what all of the messages mean.
LEMMA ReturnsMeaning ==
  ASSUME StreamInv, LineEnds # {}, Return, UNCHANGED stream,
         turn_dir' = Reading(heard)[Texts]
  PROVE  TurnInv'
<1>1. /\ StreamInv' /\ Base' = Len(heard) \div 3 /\ stage' = "idle" /\ UNCHANGED heard
  BY ReturnKeeps DEF stream
<1>2. Texts' = Texts /\ Texts \in {Base', Base' + 1} /\ Base' \in Nat
  <2>1. Len(heard) \in Nat
    BY Numbers
  <2> QED
    BY <1>1, <2>1 DEF Texts
<1>3. Before(turn_dir)'
  BY <1>1, <1>2 DEF Before
<1> QED
  BY <1>1, <1>3 DEF TurnInv

\* The next segment, when the messages from up on release a key or there are none.
LEMMA ContinuesMeaning ==
  ASSUME StreamInv, StageInv, stage = "scanning", UNCHANGED stream,
         NEW up \in Directions \cup {STRAIGHT}, Continue(up),
         Reading(heard)[Texts] =
           Minus(up, Reading(heard)[IF HasText THEN At - 1 ELSE At]),
         HasText => /\ up \in Directions
                    /\ Reading(heard)[At] = Minus(up, Reading(heard)[At - 1]),
         \E d : Before(d) /\ turn_dir' = Minus(up, d)
  PROVE  TurnInv'
<1>1. UNCHANGED heard /\ LineEnds # {}
  BY DEF stream, StageInv
<1>2. PICK d : Before(d) /\ turn_dir' = Minus(up, d)
  OBVIOUS
<1>3. CASE EndsBefore = {}
  <2>1. Return /\ HasText /\ At = Base + 1 /\ Base \in Nat
    BY <1>3, ScanFacts DEF Continue, StreamInv
  <2>2. /\ Reading(heard)[Texts] = Minus(up, Reading(heard)[Base])
        /\ Reading(heard)[Base + 1] = Minus(up, Reading(heard)[Base])
        /\ up # STRAIGHT
    <3>1. (Base + 1) - 1 = Base
      BY <2>1
    <3> QED
      BY <2>1, <3>1 DEF Directions, RIGHT, LEFT, STRAIGHT
  <2>3. Minus(up, d) = Minus(up, Reading(heard)[Base])
    BY <1>2, <2>2, Releases DEF Before
  <2> QED
    BY <1>1, <1>2, <2>1, <2>2, <2>3, ReturnsMeaning
<1>4. CASE EndsBefore # {}
  <2>1. i' = Previous /\ met' = up /\ UNCHANGED <<str, stage>>
    BY <1>4 DEF Continue
  <2>2. Base + (Previous \div 3) = IF HasText THEN At - 1 ELSE At
    BY <1>4, ScanFacts
  <2>3. Base' = Base /\ Texts' = Texts
    BY <1>1, <2>1 DEF Base, Texts
  <2>4. At' = IF HasText THEN At - 1 ELSE At
    BY <2>1, <2>2, <2>3 DEF At
  <2>5. Before(d)'
    BY <1>1, <1>2, <2>3 DEF Before
  <2>6. Reading(heard)[Texts] = Minus(up, Reading(heard)[At'])
    BY <2>4
  <2> QED
    BY <1>1, <1>2, <2>1, <2>3, <2>5, <2>6 DEF TurnInv
<1> QED
  BY <1>3, <1>4

LEMMA TurnInit == KeyInit => TurnInv
<1> SUFFICES ASSUME KeyInit PROVE TurnInv
  OBVIOUS
<1>1. heard = <<>> /\ str = <<>> /\ stage = "idle" /\ turn_dir = STRAIGHT
  BY DEF KeyInit
<1>2. Base = 0
  <2>1. Len(heard) = 0 /\ Len(str) = 0
    BY <1>1
  <2> QED
    BY <2>1 DEF Base
<1>3. Reading(heard)[0] = STRAIGHT
  BY ReadingIs, KeysAssumption
<1> QED
  BY <1>1, <1>2, <1>3 DEF TurnInv, Before

LEMMA TurnScan ==
  ASSUME StreamInv, StageInv, TurnInv, Scan
  PROVE  TurnInv'
<1>1. stage = "scanning" /\ UNCHANGED stream /\ LineEnds # {}
  BY ScanDoes DEF StageInv
<1>2. met \in Directions \cup {STRAIGHT} /\ Reading(heard)[Texts] = Minus(met, Reading(heard)[At])
  BY <1>1 DEF TurnInv, StageInv
<1>3. PICK d : Before(d) /\ turn_dir = Minus(met, d)
  BY <1>1 DEF TurnInv
<1>4. \A t \in Directions : t # STRAIGHT
  BY DEF Directions, STRAIGHT, LEFT, RIGHT
<1>5. CASE NotAMessage
  <2>1. Continue(met) /\ turn_dir' = turn_dir /\ \A t \in Directions : Segment \notin {Down(t), Up(t)}
    BY <1>5 DEF NotAMessage
  <2>2. ~HasText
    <3>1. LEFT \in Directions
      BY DEF Directions
    <3> QED
      BY <1>1, <2>1, <3>1, MessageMeans
  <2> QED
    BY <1>1, <1>2, <1>3, <2>1, <2>2, ContinuesMeaning
<1>6. ASSUME NEW t \in Directions, KeyDown(t) PROVE TurnInv'
  <2>1. Segment = Down(t) /\ turn_dir' = Pressed(t) /\ Return
    BY <1>6 DEF KeyDown
  <2>2. Reading(heard)[At] = t
    BY <1>1, <2>1, MessageMeans
  <2>3. Pressed(t) = Minus(met, t)
    BY DEF Pressed, Minus
  <2> QED
    BY <1>1, <1>2, <2>1, <2>2, <2>3, ReturnsMeaning
<1>7. ASSUME NEW t \in Directions, KeyUp(t) PROVE TurnInv'
  <2>1. stage = "scanning" /\ Segment = Up(t)
    BY <1>7 DEF KeyUp
  <2>2. HasText /\ Reading(heard)[At] = Minus(t, Reading(heard)[At - 1])
    BY <1>1, <2>1, MessageMeans
  <2>3. CASE met \in Directions \ {t}
    <3>1. Return /\ turn_dir' = STRAIGHT
      BY <1>7, <2>3 DEF KeyUp
    <3>2. Reading(heard)[At - 1] \in Directions \cup {STRAIGHT}
      <4>1. At \in 1..Texts /\ Texts \in Nat
        BY <1>1, <2>2, ScanFacts, Numbers DEF Texts
      <4> HIDE DEF At, Texts
      <4>2. At - 1 \in 0..Texts
        BY <4>1
      <4> QED
        BY <4>2, ReadingType
    <3>3. Reading(heard)[At] \in {met, STRAIGHT}
      BY <2>2, <2>3, <3>2 DEF Minus, Directions
    <3>4. Reading(heard)[Texts] = STRAIGHT
      BY <1>2, <3>3 DEF Minus
    <3> QED
      BY <1>1, <3>1, <3>4, ReturnsMeaning
  <2>4. CASE met = STRAIGHT
    <3>1. Continue(t) /\ turn_dir' = Minus(t, turn_dir)
      BY <1>4, <1>7, <2>4 DEF KeyUp, Minus
    <3>2. /\ Reading(heard)[Texts] = Minus(t, Reading(heard)[At - 1])
          /\ turn_dir' = Minus(t, d)
      BY <1>2, <1>3, <2>2, <2>4, <3>1, Releases
    <3> QED
      BY <1>1, <1>3, <2>2, <3>1, <3>2, ContinuesMeaning
  <2>5. CASE met = t
    <3>1. Continue(t) /\ turn_dir' = turn_dir
      BY <1>4, <1>7, <2>5 DEF KeyUp
    <3>2. Reading(heard)[Texts] = Minus(t, Reading(heard)[At - 1])
      BY <1>2, <1>4, <2>2, <2>5, Releases
    <3> QED
      BY <1>1, <1>3, <2>2, <2>5, <3>1, <3>2, ContinuesMeaning
  <2> QED
    BY <1>2, <2>3, <2>4, <2>5
<1> QED
  BY <1>5, <1>6, <1>7 DEF Scan

LEMMA TurnStep ==
  ASSUME StreamInv, StageInv, TurnInv, [KeyNext]_keyVars
  PROVE  TurnInv'
<1>1. ASSUME UNCHANGED <<heard, str, turn_dir, stage, i, met>> PROVE TurnInv'
  <2>1. Base' = Base /\ Texts' = Texts /\ At' = At
    BY <1>1 DEF Base, Texts, At
  <2>2. \A d : Before(d)' <=> Before(d)
    BY <1>1, <2>1 DEF Before
  <2> QED
    BY <1>1, <2>1, <2>2 DEF TurnInv
<1>2. CASE Receive
  <2>1. stage # "scanning" /\ stage' # "scanning" /\ UNCHANGED <<heard, str, turn_dir>>
    BY <1>2 DEF Receive, stream
  <2>2. Base' = Base /\ Texts' = Texts
    BY <2>1 DEF Base, Texts
  <2> QED
    BY <2>1, <2>2 DEF TurnInv, Before
<1>3. CASE Read
  <2>1. /\ stage = "reading" /\ UNCHANGED <<turn_dir, stage>>
        /\ StreamInv' /\ Base' = Base /\ Len(heard') >= Len(heard)
        /\ \A p \in 1..Len(heard) : heard'[p] = heard[p]
    BY <1>3, ReadKeeps DEF Read
  <2>2. Base \in 0..Texts /\ Len(heard) \in Nat /\ Texts \in Nat
    BY Numbers
  <2>3. Texts <= Texts' /\ Texts' \in Nat
    <3>1. Len(heard') \in Nat
      BY <2>1 DEF StreamInv
    <3> QED
      BY <2>1, <2>2, <3>1 DEF Texts
  <2>4. \A n \in 0..Texts : Reading(heard')[n] = Reading(heard)[n]
    BY <2>1, ReadingGoesOn
  <2>5. Before(turn_dir)
    BY <2>1 DEF TurnInv
  <2>6. Before(turn_dir)'
    <3>1. CASE turn_dir = Reading(heard)[Base]
      BY <2>1, <2>2, <2>4, <3>1 DEF Before
    <3>2. CASE Base + 1 <= Texts /\ turn_dir = Reading(heard)[Base + 1]
      <4> HIDE DEF Texts, Base
      <4>1. Base + 1 \in 0..Texts /\ Base + 1 <= Texts'
        BY <2>2, <2>3, <3>2
      <4>2. turn_dir' = Reading(heard')[Base' + 1]
        BY <2>1, <2>4, <3>2, <4>1
      <4> QED
        BY <2>1, <4>1, <4>2 DEF Before
    <3> QED
      BY <2>5, <3>1, <3>2 DEF Before
  <2> QED
    BY <2>1, <2>6 DEF TurnInv
<1>4. CASE WouldBlock
  <2>1. stage = "reading" /\ UNCHANGED <<heard, str, turn_dir>>
    BY <1>4 DEF WouldBlock, stream
  <2>2. Base' = Base /\ Texts' = Texts
    BY <2>1 DEF Base, Texts
  <2>3. Before(turn_dir) /\ Before(turn_dir)'
    BY <2>1, <2>2 DEF TurnInv, Before
  <2>4. CASE LineEnds = {}
    BY <1>4, <2>3, <2>4 DEF WouldBlock, TurnInv
  <2>5. CASE LineEnds # {}
    <3>1. i' = Len(str) + 1 /\ met' = STRAIGHT
      BY <1>4, <2>5 DEF WouldBlock
    <3>2. At' = Texts
      <4>1. Len(str) \in Nat /\ Base \in Nat /\ Len(heard) = 3 * Base + Len(str)
        BY DEF StreamInv
      <4>2. (Len(heard) + 1) \div 3 = Base + ((Len(str) + 1) \div 3)
        BY <4>1, Thirds
      <4> QED
        BY <2>2, <3>1, <4>2 DEF At, Texts
    <3>3. (\E d : Before(d) /\ turn_dir = Minus(met, d))'
      BY <2>1, <2>3, <3>1, Releases
    <3> QED
      BY <2>1, <2>2, <2>3, <3>1, <3>2, <3>3, Releases DEF TurnInv
  <2> QED
    BY <2>4, <2>5
<1>5. ASSUME NEW line \in Lines, PressOrRelease(line) PROVE TurnInv'
  BY <1>1, <1>5 DEF PressOrRelease
<1>6. ReadNothing \/ Close \/ UNCHANGED keyVars => UNCHANGED <<heard, str, turn_dir, stage, i, met>>
  BY DEF ReadNothing, Close, keyVars
<1> QED
  BY <1>1, <1>2, <1>3, <1>4, <1>5, <1>6, TurnScan DEF KeyNext, KeyStep

LEMMA TurnAlways == KeyMoves => []TurnInv
  BY TurnInit, TurnStep, StreamAlways, PTL DEF KeyMoves

\* Between two calls turn_dir is what a reading from the front gives, although
\* the scan goes from the end and stops early, begins in the middle of a line,
\* and may see a text twice.
THEOREM TurnIsMeaning == KeyMoves => []TurnFollowsKeys
<1>1. StreamInv /\ TurnInv => TurnFollowsKeys
  <2> SUFFICES ASSUME StreamInv, TurnInv, stage = "idle"
               PROVE  turn_dir \in {Meaning[Len(heard) \div 3], Meaning[(Len(heard) + 1) \div 3]}
    BY DEF TurnFollowsKeys
  <2>1. Len(str) \in 0..2 /\ Base \in Nat /\ Len(heard) = 3 * Base + Len(str)
    <3>1. Len(str) < 3 /\ Base \in Nat /\ Len(heard) = 3 * Base + Len(str)
      BY DEF StreamInv
    <3>2. Len(str) \in Nat
      BY DEF StreamInv
    <3>3. \A n \in Nat : n < 3 => n \in 0..2
      OBVIOUS
    <3> QED
      BY <3>1, <3>2, <3>3, Zenon
  <2>2. Len(heard) \div 3 = Base /\ (Base + 1 <= Texts => Texts = Base + 1)
    <3>1. \A b \in Nat, r \in 0..2 :
            (3 * b + r) \div 3 = b /\ ((3 * b + r) + 1) \div 3 \in {b, b + 1}
      OBVIOUS
    <3>2. Len(heard) \div 3 = Base /\ Texts \in {Base, Base + 1}
      BY <2>1, <3>1, Zenon DEF Texts
    <3>3. ~ (Base + 1 <= Base)
      BY <2>1
    <3> QED
      BY <3>2, <3>3
  <2>3. Before(turn_dir)
    BY DEF TurnInv
  <2> QED
    BY <2>2, <2>3, MeaningIs DEF Before, Texts
<1> QED
  BY <1>1, StreamAlways, TurnAlways, PTL

\* The keys keep their types, wherever the scan stands.
THEOREM KeyTypeCorrect == KeyMoves => []KeyTypeOK
<1>1. StreamInv /\ StageInv /\ TurnInv => KeyTypeOK
  <2> SUFFICES ASSUME StreamInv, StageInv, TurnInv PROVE KeyTypeOK
    OBVIOUS
  <2>1. \A d : Before(d) => d \in Directions \cup {STRAIGHT}
    <3>1. Base \in 0..Texts /\ Base \in Nat /\ Texts \in Nat
      BY Numbers
    <3> HIDE DEF Base, Texts
    <3>2. Base + 1 <= Texts => Base + 1 \in 0..Texts
      BY <3>1
    <3> QED
      BY <3>1, <3>2, ReadingType DEF Before
  <2>2. turn_dir \in Directions \cup {STRAIGHT}
    BY <2>1 DEF TurnInv, Minus
  <2>3. stage = "scanning" => i > 0
    BY ScanFacts
  <2>4. ~ (0 > 0)
    OBVIOUS
  <2> QED
    BY <2>2, <2>3, <2>4 DEF StageInv, KeyTypeOK
<1> QED
  BY <1>1, StreamAlways, TurnAlways, PTL
=============================================================================
