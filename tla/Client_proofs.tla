---------------------------- MODULE Client_proofs ----------------------------
(***************************************************************************)
(* Theorems about the client.  Its buffer of events for itself: whatever   *)
(* comes twice, and however much the socket takes at a time, nothing of    *)
(* the newest game is written past a hole, nothing that was handed over is *)
(* dropped, no game is written before those ahead of it, and what is asked *)
(* for is the first number missing.  The client's loop: one handler runs   *)
(* at a time, the keys are what they are for themselves, nothing is ever   *)
(* stored, and what is given to sendto() is what the server would read.    *)
(***************************************************************************)
EXTENDS Client, KeyInput_proofs, FiniteSetTheorems

-----------------------------------------------------------------------------
(* Numbers. *)

\* The smallest of some natural numbers.
LEMMA MinOfNumbers ==
  ASSUME NEW S \in SUBSET Nat, S # {}
  PROVE  Min(S) \in S /\ \A n \in S : Min(S) <= n
<1> DEFINE Less == {ss \in Nat \X Nat : ss[1] < ss[2]}
<1>1. IsWellFoundedOn(Less, Nat)
  BY NatLessThanWellFounded, Zenon DEF OpToRel
<1> HIDE DEF Less
<1>3. \E n \in S : \A m \in S : <<m, n>> \notin Less
  BY <1>1, WFMin
<1>4. ASSUME NEW m \in S, NEW n \in S, <<m, n>> \notin Less
      PROVE  n <= m
  <2>1. <<m, n>> \in Nat \X Nat /\ <<m, n>>[1] = m /\ <<m, n>>[2] = n
    OBVIOUS
  <2>2. ~ (m < n)
    BY <1>4, <2>1 DEF Less
  <2> QED
    BY <2>2
<1>2. \E n \in S : \A m \in S : n <= m
  BY <1>3, <1>4
<1> QED
  BY <1>2 DEF Min

\* expected(): the buffer has every number before it, and not this one.
LEMMA FirstMissing ==
  ASSUME NEW b, b.event_nums \in SUBSET Nat, IsFiniteSet(b.event_nums)
  PROVE  /\ Expected(b) \in Nat /\ Expected(b) \notin b.event_nums
         /\ \A n \in 0..(Expected(b) - 1) : n \in b.event_nums
<1> DEFINE S == b.event_nums
           c == Cardinality(S)
           missing == (0..c) \ S
<1>1. c \in Nat
  BY FS_CardinalityType
<1>2. missing # {}
  <2> SUFFICES ASSUME 0..c \subseteq S PROVE FALSE
    OBVIOUS
  <2> HIDE DEF c
  <2>1. Cardinality(0..c) = c + 1
    BY <1>1, FS_Interval
  <2>2. Cardinality(0..c) <= c
    BY FS_Subset DEF c
  <2> QED
    BY <1>1, <2>1, <2>2
<1>3. missing \in SUBSET Nat
  BY <1>1
<1>4. Expected(b) = Min(missing)
  BY DEF Expected
<1> HIDE DEF missing
<1>5. Expected(b) \in missing /\ \A n \in missing : Expected(b) <= n
  BY <1>2, <1>3, <1>4, MinOfNumbers
<1> QED
  BY <1>1, <1>5 DEF missing

-----------------------------------------------------------------------------
\* More numbers known, and more is expected.
LEMMA ExpectedGrows ==
  ASSUME NEW b, NEW c, b.event_nums \in SUBSET Nat, IsFiniteSet(b.event_nums),
         c.event_nums \in SUBSET Nat, IsFiniteSet(c.event_nums),
         b.event_nums \subseteq c.event_nums
  PROVE  Expected(b) <= Expected(c)
<1>1. /\ Expected(b) \in Nat /\ \A n \in 0..(Expected(b) - 1) : n \in b.event_nums
      /\ Expected(c) \in Nat /\ Expected(c) \notin c.event_nums
  BY FirstMissing
<1>2. Expected(c) \notin 0..(Expected(b) - 1)
  BY <1>1
<1> QED
  BY <1>1, <1>2

-----------------------------------------------------------------------------
(* One buffer. *)

Offsets == UNION {[D -> Nat \ {Size}] : D \in SUBSET Nat}

Buffers ==
  [id : GameIds, serial : Nat, event_nums : SUBSET Nat, smallest_not_sent : Nat,
   ev0 : Nat, received : Offsets, sending_the_rest : BOOLEAN]

\* What add() and send() keep true of a buffer.
Sound(b) ==
  /\ NewGameNo \in b.event_nums /\ b.event_nums \subseteq {NewGameNo} \cup EventNos
  /\ IsFiniteSet(b.event_nums)
  /\ DOMAIN b.received \subseteq b.event_nums \ {NewGameNo}
  /\ b.ev0 = Size <=> b.smallest_not_sent > 0

\* The buffer knows what was handed over to it; of that, each number was written
\* or waits, or both if it came again; NEW_GAME does not come again; and what
\* was written is before the first hole, until the rest is sent.
Right(b, heard_of, written) ==
  /\ Sound(b)
  /\ b.event_nums = heard_of /\ written \subseteq heard_of
  /\ \A no \in heard_of : no \in written \/ Waits(b, no)
  /\ NewGameNo \in written <=> ~Waits(b, NewGameNo)
  /\ ~b.sending_the_rest => written \subseteq 0..(Expected(b) - 1)

LEMMA OffsetsAreFunctions ==
  /\ \A f \in Offsets : f \in [DOMAIN f -> Nat \ {Size}] /\ DOMAIN f \in SUBSET Nat
  /\ \A D \in SUBSET Nat : \A f \in [D -> Nat \ {Size}] : f \in Offsets /\ DOMAIN f = D
BY DEF Offsets

LEMMA Fields ==
  ASSUME NEW b \in Buffers
  PROVE  /\ b.id \in GameIds /\ b.serial \in Nat /\ b.event_nums \in SUBSET Nat
         /\ b.smallest_not_sent \in Nat /\ b.ev0 \in Nat /\ b.received \in Offsets
         /\ b.sending_the_rest \in BOOLEAN
         /\ b = [id |-> b.id, serial |-> b.serial, event_nums |-> b.event_nums,
                 smallest_not_sent |-> b.smallest_not_sent, ev0 |-> b.ev0,
                 received |-> b.received, sending_the_rest |-> b.sending_the_rest]
BY DEF Buffers

\* Buffer(): nothing is stored, NEW_GAME waits.
LEMMA BufferIsNew ==
  ASSUME NEW g \in GameIds, Len(added) \in Nat
  PROVE  /\ Buffer(g) \in Buffers /\ Buffer(g).serial = Len(added) + 1
         /\ Right(Buffer(g), {NewGameNo}, {})
         /\ ~Buffer(g).sending_the_rest
<1> DEFINE c == Buffer(g)
<1>1. <<>> \in Offsets /\ DOMAIN <<>> = {}
  <2>1. <<>> \in Seq(Nat \ {Size}) /\ Len(<<>>) = 0
    OBVIOUS
  <2>2. <<>> \in [1..0 -> Nat \ {Size}]
    BY <2>1
  <2>3. 1..0 = {}
    OBVIOUS
  <2>4. <<>> \in [{} -> Nat \ {Size}]
    BY <2>2, <2>3
  <2> QED
    BY <2>4, OffsetsAreFunctions
<1>2. Size # 0 /\ Size \in Nat /\ NewGameNo \in Nat
  BY BufferAssumption DEF NewGameNo
<1>3. c = [id |-> g, serial |-> Len(added) + 1, event_nums |-> {NewGameNo},
           smallest_not_sent |-> 0, ev0 |-> 0, received |-> <<>>, sending_the_rest |-> FALSE]
  BY DEF Buffer
<1> HIDE DEF c
<1>4. /\ c \in Buffers /\ c.serial = Len(added) + 1 /\ c.event_nums = {NewGameNo}
      /\ c.smallest_not_sent = 0 /\ c.ev0 = 0 /\ c.received = <<>>
      /\ c.sending_the_rest = FALSE
  BY <1>1, <1>2, <1>3 DEF Buffers
<1>5. IsFiniteSet({NewGameNo})
  BY FS_Singleton
<1>6. Sound(c)
  BY <1>1, <1>2, <1>4, <1>5 DEF Sound
<1>7. Waits(c, NewGameNo)
  BY <1>2, <1>4 DEF Waits
<1>8. Right(c, {NewGameNo}, {})
  BY <1>4, <1>6, <1>7 DEF Right
<1> QED
  BY <1>4, <1>8 DEF c

\* add(): the event waits from its beginning on, written or not.
LEMMA AddedIsRight ==
  ASSUME NEW b \in Buffers, NEW h, NEW w, Right(b, h, w), ~b.sending_the_rest,
         NEW no \in EventNos
  PROVE  /\ Added(b, no) \in Buffers /\ Added(b, no).serial = b.serial
         /\ Right(Added(b, no), h \cup {no}, w)
         /\ ~Added(b, no).sending_the_rest
<1> DEFINE c == Added(b, no)
           D == DOMAIN b.received
           r == [n \in D \cup {no} |-> IF n = no THEN 0 ELSE b.received[n]]
<1>1. no \in Nat /\ no # NewGameNo /\ 0 \in Nat \ {Size}
  BY BufferAssumption DEF NewGameNo
<1>2. b.received \in [D -> Nat \ {Size}] /\ D \in SUBSET Nat
  BY Fields, OffsetsAreFunctions
<1>3. r \in [D \cup {no} -> Nat \ {Size}]
  BY <1>1, <1>2
<1>4. r \in Offsets /\ DOMAIN r = D \cup {no}
  BY <1>1, <1>2, <1>3, OffsetsAreFunctions
<1>5. c = [b EXCEPT !.event_nums = b.event_nums \cup {no}, !.received = r]
  BY DEF Added
<1> HIDE DEF c, r
<1>6. /\ c \in Buffers /\ c.serial = b.serial
      /\ c.event_nums = b.event_nums \cup {no} /\ c.received = r
      /\ c.smallest_not_sent = b.smallest_not_sent /\ c.ev0 = b.ev0
      /\ c.sending_the_rest = b.sending_the_rest
  BY <1>1, <1>4, <1>5, Fields DEF Buffers
<1>7. IsFiniteSet(c.event_nums)
  BY <1>6, FS_AddElement DEF Right, Sound
<1>8. Sound(c)
  BY <1>1, <1>4, <1>6, <1>7 DEF Right, Sound
<1>9. /\ Waits(c, NewGameNo) <=> Waits(b, NewGameNo)
      /\ Waits(c, no)
      /\ \A n \in h : Waits(b, n) => Waits(c, n)
  BY <1>1, <1>4, <1>6 DEF Waits
<1>10. w \subseteq 0..(Expected(c) - 1)
  <2>1. /\ b.event_nums \in SUBSET Nat /\ IsFiniteSet(b.event_nums)
        /\ c.event_nums \in SUBSET Nat /\ b.event_nums \subseteq c.event_nums
    BY <1>6, Fields DEF Right, Sound
  <2>2. Expected(b) <= Expected(c) /\ Expected(b) \in Nat /\ Expected(c) \in Nat
    BY <1>7, <2>1, ExpectedGrows, FirstMissing
  <2> QED
    BY <2>2 DEF Right
<1>11. Right(c, h \cup {no}, w)
  BY <1>6, <1>8, <1>9, <1>10 DEF Right
<1> QED
  BY <1>6, <1>11 DEF c

\* b goes on as c after message no was written up to piece d of it: it waits no
\* more if that was the last one.
WrittenOn(b, c, no, d) ==
  /\ c \in Buffers /\ Sound(c) /\ c.serial = b.serial
  /\ c.event_nums = b.event_nums /\ c.sending_the_rest = b.sending_the_rest
  /\ \A m : Waits(c, m) <=> Waits(b, m) /\ (m # no \/ d # Size)
  /\ c.smallest_not_sent > 0 <=> b.smallest_not_sent > 0 \/ d = Size

\* ::send() for a stored event, and what is done with its offset.
LEMMA StoredWrittenOn ==
  ASSUME NEW b \in Buffers, Sound(b), NEW no \in DOMAIN b.received, NEW d \in Nat,
         b.smallest_not_sent > 0
  PROVE  /\ d = Size => WrittenOn(b, [Erased(b, no) EXCEPT !.smallest_not_sent = @ + 1], no, d)
         /\ d # Size => WrittenOn(b, [b EXCEPT !.received[no] = d], no, d)
<1> DEFINE D == DOMAIN b.received
<1>1. b.received \in [D -> Nat \ {Size}] /\ D \in SUBSET Nat
  BY Fields, OffsetsAreFunctions
<1>2. D \subseteq b.event_nums \ {NewGameNo} /\ b.ev0 = Size
  BY DEF Sound
<1>3. CASE d = Size
  <2> DEFINE r == Restrict(b.received, D \ {no})
             x == b.smallest_not_sent + 1
             c == [Erased(b, no) EXCEPT !.smallest_not_sent = @ + 1]
  <2>1. r = [n \in D \ {no} |-> b.received[n]]
    BY DEF Restrict
  <2>2. r \in [D \ {no} -> Nat \ {Size}]
    BY <1>1, <2>1
  <2>3. r \in Offsets /\ DOMAIN r = D \ {no}
    BY <1>1, <2>2, OffsetsAreFunctions
  <2>4. x \in Nat /\ x > 0
    BY Fields
  <2>5. c = [b EXCEPT !.received = r, !.smallest_not_sent = x]
    BY Fields DEF Erased
  <2> HIDE DEF r, c, x
  <2>6. /\ c \in Buffers /\ c.serial = b.serial
        /\ c.event_nums = b.event_nums /\ c.received = r
        /\ c.smallest_not_sent = x /\ c.ev0 = b.ev0
        /\ c.sending_the_rest = b.sending_the_rest
    BY <2>3, <2>4, <2>5, Fields DEF Buffers
  <2>7. Sound(c)
    BY <1>2, <2>3, <2>4, <2>6 DEF Sound
  <2>8. \A m : Waits(c, m) <=> Waits(b, m) /\ m # no
    BY <1>2, <2>3, <2>6 DEF Waits
  <2>9. WrittenOn(b, c, no, d)
    BY <1>3, <2>4, <2>6, <2>7, <2>8 DEF WrittenOn
  <2> QED
    BY <1>3, <2>9 DEF c
<1>4. CASE d # Size
  <2> DEFINE r == [b.received EXCEPT ![no] = d]
             c == [b EXCEPT !.received[no] = d]
  <2>1. r \in [D -> Nat \ {Size}]
    BY <1>1, <1>4
  <2>2. r \in Offsets /\ DOMAIN r = D
    BY <1>1, <2>1, OffsetsAreFunctions
  <2>3. c = [b EXCEPT !.received = r]
    BY Fields
  <2> HIDE DEF r, c
  <2>4. /\ c \in Buffers /\ c.serial = b.serial
        /\ c.event_nums = b.event_nums /\ c.received = r
        /\ c.smallest_not_sent = b.smallest_not_sent /\ c.ev0 = b.ev0
        /\ c.sending_the_rest = b.sending_the_rest
    BY <2>2, <2>3, Fields DEF Buffers
  <2>5. Sound(c)
    BY <2>2, <2>4 DEF Sound
  <2>6. \A m : Waits(c, m) <=> Waits(b, m)
    BY <2>2, <2>4 DEF Waits
  <2>7. WrittenOn(b, c, no, d)
    BY <1>4, <2>4, <2>5, <2>6 DEF WrittenOn
  <2> QED
    BY <1>4, <2>7 DEF c
<1> QED
  BY <1>3, <1>4

\* ::send() for NEW_GAME.
LEMMA NewGameWrittenOn ==
  ASSUME NEW b \in Buffers, Sound(b), NEW d \in Nat, b.smallest_not_sent = 0
  PROVE  /\ d = Size => WrittenOn(b, [b EXCEPT !.ev0 = d, !.smallest_not_sent = 1], NewGameNo, d)
         /\ d # Size => WrittenOn(b, [b EXCEPT !.ev0 = d], NewGameNo, d)
<1>1. ASSUME NEW n \in {0, 1}, n = 1 <=> d = Size,
             NEW c, c = [b EXCEPT !.ev0 = d, !.smallest_not_sent = n]
      PROVE  WrittenOn(b, c, NewGameNo, d)
  <2>1. n \in Nat /\ (n > 0 <=> d = Size) /\ b.ev0 # Size
    BY <1>1 DEF Sound
  <2>2. /\ c \in Buffers /\ c.serial = b.serial
        /\ c.event_nums = b.event_nums /\ c.received = b.received
        /\ c.smallest_not_sent = n /\ c.ev0 = d
        /\ c.sending_the_rest = b.sending_the_rest
    BY <1>1, <2>1, Fields DEF Buffers
  <2>3. Sound(c)
    BY <2>1, <2>2 DEF Sound
  <2>4. \A m : Waits(c, m) <=> Waits(b, m) /\ (m # NewGameNo \/ d # Size)
    BY <2>1, <2>2 DEF Waits
  <2> QED
    BY <2>1, <2>2, <2>3, <2>4 DEF WrittenOn
<1>2. [b EXCEPT !.ev0 = d] = [b EXCEPT !.ev0 = d, !.smallest_not_sent = 0]
  BY Fields
<1> QED
  BY <1>1, <1>2

\* A message that waits is written on, below the first hole or with the rest.
LEMMA WrittenIsRight ==
  ASSUME NEW b \in Buffers, NEW h, NEW w, Right(b, h, w), NEW no \in h,
         NEW c, NEW d, WrittenOn(b, c, no, d),
         ~b.sending_the_rest => no < Expected(b)
  PROVE  Right(c, h, IF d = Size THEN w \cup {no} ELSE w)
<1>1. /\ c.event_nums = b.event_nums /\ Sound(c)
      /\ c.sending_the_rest = b.sending_the_rest
      /\ \A m : Waits(c, m) <=> Waits(b, m) /\ (m # no \/ d # Size)
  BY DEF WrittenOn
<1>2. Expected(c) = Expected(b) /\ Expected(b) \in Nat /\ no \in Nat
  BY <1>1, Fields, FirstMissing DEF Expected, Right, Sound
<1> QED
  BY <1>1, <1>2 DEF Right

\* A buffer is given up.
LEMMA GivenUpIsRight ==
  ASSUME NEW b \in Buffers, NEW h, NEW w, Right(b, h, w)
  PROVE  LET c == [b EXCEPT !.sending_the_rest = TRUE]
         IN  /\ c \in Buffers /\ c.serial = b.serial /\ Right(c, h, w)
             /\ c.sending_the_rest /\ c.smallest_not_sent = b.smallest_not_sent
             /\ \A no : Waits(c, no) <=> Waits(b, no)
<1> DEFINE c == [b EXCEPT !.sending_the_rest = TRUE]
<1>1. /\ c \in Buffers /\ c.serial = b.serial
      /\ c.event_nums = b.event_nums /\ c.received = b.received
      /\ c.smallest_not_sent = b.smallest_not_sent /\ c.ev0 = b.ev0
      /\ c.sending_the_rest = TRUE
  BY Fields DEF Buffers
<1> HIDE DEF c
<1>2. \A no : Waits(c, no) <=> Waits(b, no)
  BY <1>1 DEF Waits
<1>3. Right(c, h, w)
  BY <1>1, <1>2 DEF Right, Sound
<1> QED
  BY <1>1, <1>2, <1>3 DEF c

-----------------------------------------------------------------------------
(* The queue of buffers, and what was handed over to it and written of it. *)

TypeInv ==
  /\ q \in Seq(Buffers) /\ added \in Seq(SUBSET Nat) /\ shown \in Seq(SUBSET Nat)
  /\ Len(shown) = Len(added) /\ Len(q) <= Len(added)
  /\ last \in [serial : Nat, no : Nat, piece : Nat]
  /\ at \in {"idle", "front", "ev0", "events", "sent", "rest"} /\ ret \in BOOLEAN

\* The number of buffers that were dropped.
Gone == Len(added) - Len(q)

\* The queue holds the latest buffers, and of those behind the oldest one nothing
\* was written yet.
Histories ==
  \A k \in 1..Len(q) :
    /\ q[k].serial = Gone + k
    /\ Right(q[k], added[Gone + k], shown[Gone + k])
    /\ k > 1 => shown[Gone + k] = {} /\ ~q[k].sending_the_rest

\* Of the buffers that were dropped everything was.
GoneWritten == \A s \in 1..Gone : added[s] \subseteq shown[s]

RestOfOld ==
  q # <<>> /\ Oldest.sending_the_rest => Len(q) > 1 /\ Oldest.smallest_not_sent > 0

\* The latest piece is of the oldest buffer or of one that is gone.
LatestPiece ==
  /\ last.serial <= Gone + 1 /\ last.serial <= Len(added)
  /\ last.no > 0 => last.serial > 0

QueueInv == TypeInv /\ Histories /\ GoneWritten /\ RestOfOld /\ LatestPiece /\ NoHoles

LEMMA Counts ==
  ASSUME TypeInv
  PROVE  /\ Len(q) \in Nat /\ Len(added) \in Nat /\ Gone \in Nat
         /\ Len(added) = Gone + Len(q) /\ Len(shown) = Len(added)
         /\ \A s \in 1..Len(added) : added[s] \in SUBSET Nat /\ shown[s] \in SUBSET Nat
         /\ \A k \in 1..Len(q) : Gone + k \in 1..Len(added) /\ q[k] \in Buffers
<1>1. Len(q) \in Nat /\ Len(added) \in Nat /\ Len(q) <= Len(added)
  BY DEF TypeInv
<1>2. \A s \in 1..Len(added) : added[s] \in SUBSET Nat /\ shown[s] \in SUBSET Nat
  BY DEF TypeInv
<1>3. \A k \in 1..Len(q) : q[k] \in Buffers
  BY DEF TypeInv
<1> QED
  BY <1>1, <1>2, <1>3 DEF Gone, TypeInv

LEMMA Ends ==
  ASSUME QueueInv, q # <<>>
  PROVE  /\ Len(q) > 0 /\ Oldest = q[1] /\ Newest = q[Len(q)]
         /\ Oldest \in Buffers /\ Newest \in Buffers
         /\ Oldest.serial = Gone + 1 /\ Newest.serial = Len(added)
         /\ Right(Oldest, added[Gone + 1], shown[Gone + 1])
         /\ Right(Newest, added[Len(added)], shown[Len(added)])
         /\ ~Newest.sending_the_rest
<1>1. q \in Seq(Buffers)
  BY DEF QueueInv, TypeInv
<1>2. Len(q) > 0 /\ Len(q) \in Nat /\ Oldest = q[1] /\ Newest = q[Len(q)]
  BY <1>1 DEF Oldest, Newest
<1>3. 1 \in 1..Len(q) /\ Len(q) \in 1..Len(q)
  BY <1>2
<1>4. Gone + Len(q) = Len(added)
  BY Counts DEF QueueInv
<1>5. ~Newest.sending_the_rest
  <2>1. CASE Len(q) > 1
    BY <1>2, <1>3, <2>1 DEF QueueInv, Histories
  <2>2. CASE Len(q) = 1
    BY <1>2, <2>2 DEF QueueInv, RestOfOld
  <2> QED
    BY <1>2, <2>1, <2>2
<1> QED
  BY <1>2, <1>3, <1>4, <1>5, Counts DEF QueueInv, Histories

LEMMA AppendedLast ==
  ASSUME NEW S, NEW s \in Seq(S), NEW x \in S
  PROVE  /\ Append(s, x) \in Seq(S) /\ Append(s, x) # <<>>
         /\ Len(Append(s, x)) = Len(s) + 1 /\ Append(s, x)[Len(s) + 1] = x
         /\ \A k \in 1..Len(s) : Append(s, x)[k] = s[k]
OBVIOUS

\* A NEW_GAME opens a buffer behind the others.
LEMMA OpensKeeps ==
  ASSUME QueueInv, NEW g \in GameIds, IntegrateNewGame(g)
  PROVE  QueueInv'
<1> DEFINE c == Buffer(g)
           n == Len(added)
<1>1. /\ q' = Append(q, c) /\ added' = Append(added, {NewGameNo})
      /\ shown' = Append(shown, {}) /\ UNCHANGED <<at, ret, last>>
  BY DEF IntegrateNewGame
<1>2. /\ Len(q) \in Nat /\ n \in Nat /\ Gone \in Nat /\ n = Gone + Len(q) /\ Len(shown) = n
      /\ \A k \in 1..Len(q) : Gone + k \in 1..n
  BY Counts DEF QueueInv
<1>3. /\ c \in Buffers /\ c.serial = n + 1 /\ Right(c, {NewGameNo}, {}) /\ ~c.sending_the_rest
  BY <1>2, BufferIsNew
<1> HIDE DEF c
<1>4. NewGameNo \in Nat /\ {NewGameNo} \in SUBSET Nat /\ {} \in SUBSET Nat
  BY DEF NewGameNo
<1>5. /\ q' \in Seq(Buffers) /\ Len(q') = Len(q) + 1 /\ q'[Len(q) + 1] = c /\ q' # <<>>
      /\ \A k \in 1..Len(q) : q'[k] = q[k]
  BY <1>1, <1>3, AppendedLast DEF QueueInv, TypeInv
<1>6. /\ added' \in Seq(SUBSET Nat) /\ Len(added') = n + 1 /\ added'[n + 1] = {NewGameNo}
      /\ \A s \in 1..n : added'[s] = added[s]
  BY <1>1, <1>4, AppendedLast DEF QueueInv, TypeInv
<1>7. /\ shown' \in Seq(SUBSET Nat) /\ Len(shown') = n + 1 /\ shown'[n + 1] = {}
      /\ \A s \in 1..n : shown'[s] = shown[s]
  BY <1>1, <1>2, <1>4, AppendedLast DEF QueueInv, TypeInv
<1> HIDE DEF n
<1>8. Gone' = Gone
  BY <1>2, <1>5, <1>6 DEF Gone, n
<1>9. TypeInv'
  BY <1>1, <1>2, <1>5, <1>6, <1>7 DEF QueueInv, TypeInv
<1>10. Histories'
  <2> SUFFICES ASSUME NEW k \in 1..Len(q')
               PROVE  /\ q'[k].serial = Gone + k
                      /\ Right(q'[k], added'[Gone + k], shown'[Gone + k])
                      /\ k > 1 => shown'[Gone + k] = {} /\ ~q'[k].sending_the_rest
    BY <1>8 DEF Histories
  <2>1. CASE k \in 1..Len(q)
    BY <1>2, <1>5, <1>6, <1>7, <2>1 DEF QueueInv, Histories
  <2>2. CASE k = Len(q) + 1
    <3>1. Gone + k = n + 1 /\ q'[k] = c
      BY <1>2, <1>5, <2>2
    <3> QED
      BY <1>3, <1>6, <1>7, <3>1
  <2> QED
    BY <1>2, <1>5, <2>1, <2>2
<1>11. GoneWritten'
  BY <1>2, <1>6, <1>7, <1>8 DEF QueueInv, GoneWritten
<1>12. Newest' = c
  BY <1>2, <1>5 DEF Newest
<1>13. RestOfOld'
  <2>1. Oldest' = q'[1]
    BY <1>5 DEF Oldest
  <2>2. CASE q = <<>>
    <3>1. Len(q) = 0
      BY <2>2
    <3> QED
      BY <1>3, <1>5, <2>1, <3>1 DEF RestOfOld
  <2>3. CASE q # <<>>
    <3>1. Oldest = q[1] /\ Len(q) > 0
      BY <2>3, Ends
    <3> QED
      BY <1>2, <1>5, <2>1, <2>3, <3>1 DEF QueueInv, RestOfOld
  <2> QED
    BY <2>2, <2>3
<1>14. last' = last /\ last.serial \in Nat /\ last.no \in Nat
  BY <1>1 DEF QueueInv, TypeInv
<1>15. LatestPiece' /\ last.serial <= n
  BY <1>2, <1>6, <1>8, <1>14 DEF QueueInv, LatestPiece, n
<1>16. NoHoles'
  <2>1. last.no > 0 => shown'[last.serial] = shown[last.serial]
    BY <1>7, <1>14, <1>15 DEF QueueInv, LatestPiece
  <2>2. last.serial # Newest'.serial
    BY <1>2, <1>3, <1>12, <1>14, <1>15
  <2> QED
    BY <1>14, <2>1, <2>2 DEF QueueInv, NoHoles
<1> QED
  BY <1>9, <1>10, <1>11, <1>13, <1>15, <1>16 DEF QueueInv

\* An event goes to the newest buffer, new or again.
LEMMA StoresKeeps ==
  ASSUME QueueInv, NEW g \in GameIds, NEW no \in EventNos, IntegrateEvent(g, no)
  PROVE  QueueInv'
<1> DEFINE b == Newest
           c == Added(b, no)
           n == Len(added)
           m == Len(q)
<1>1. q # <<>> /\ q' = [q EXCEPT ![m] = c] /\ UNCHANGED <<at, ret, shown, last>>
  BY DEF IntegrateEvent, Newest
<1>2. /\ m \in Nat /\ n \in Nat /\ Gone \in Nat /\ n = Gone + m /\ Len(shown) = n
      /\ \A k \in 1..m : Gone + k \in 1..n
  BY Counts DEF QueueInv
<1>3. /\ m > 0 /\ b \in Buffers /\ b.serial = n /\ Right(b, added[n], shown[n])
      /\ ~b.sending_the_rest /\ Oldest = q[1] /\ b = q[m]
  BY <1>1, Ends
<1>4. added' = [added EXCEPT ![n] = added[n] \cup {no}]
  BY <1>3 DEF IntegrateEvent
<1>5. c \in Buffers /\ c.serial = n /\ Right(c, added[n] \cup {no}, shown[n]) /\ ~c.sending_the_rest
  <2> HIDE DEF b, n
  <2> QED
    BY <1>3, AddedIsRight
<1> HIDE DEF b, c
<1>6. /\ q' \in Seq(Buffers) /\ Len(q') = m
      /\ \A k \in 1..m : q'[k] = IF k = m THEN c ELSE q[k]
  BY <1>1, <1>2, <1>3, <1>5, ExceptSeq DEF QueueInv, TypeInv
<1>7. /\ added' \in Seq(SUBSET Nat) /\ Len(added') = n
      /\ \A s \in 1..n : added'[s] = IF s = n THEN added[n] \cup {no} ELSE added[s]
  <2>1. added[n] \cup {no} \in SUBSET Nat /\ n \in 1..n
    BY <1>2, <1>3, Counts, BufferAssumption DEF QueueInv
  <2> QED
    BY <1>4, <2>1, ExceptSeq DEF QueueInv, TypeInv
<1>8. Gone' = Gone
  BY <1>6, <1>7 DEF Gone
<1> HIDE DEF n, m
<1>9. TypeInv'
  BY <1>1, <1>6, <1>7 DEF QueueInv, TypeInv, n, m
<1>10. Histories'
  <2> SUFFICES ASSUME NEW k \in 1..m
               PROVE  /\ q'[k].serial = Gone + k
                      /\ Right(q'[k], added'[Gone + k], shown[Gone + k])
                      /\ k > 1 => shown[Gone + k] = {} /\ ~q'[k].sending_the_rest
    BY <1>1, <1>6, <1>8 DEF Histories
  <2>1. /\ q[k].serial = Gone + k /\ Right(q[k], added[Gone + k], shown[Gone + k])
        /\ k > 1 => shown[Gone + k] = {} /\ ~q[k].sending_the_rest
    BY DEF QueueInv, Histories, m
  <2>2. CASE k = m
    <3>1. Gone + k = n /\ q'[k] = c /\ n \in 1..n
      BY <1>2, <1>6, <2>2
    <3>2. added'[Gone + k] = added[n] \cup {no}
      BY <1>7, <3>1
    <3> QED
      BY <1>5, <2>1, <3>1, <3>2
  <2>3. CASE k # m
    <3>1. Gone + k # n /\ q'[k] = q[k] /\ Gone + k \in 1..n
      BY <1>2, <1>6, <2>3
    <3> QED
      BY <1>7, <2>1, <3>1
  <2> QED
    BY <2>2, <2>3
<1>11. GoneWritten'
  BY <1>1, <1>2, <1>3, <1>7, <1>8 DEF QueueInv, GoneWritten
<1>12. Newest' = c /\ q' # <<>>
  BY <1>2, <1>3, <1>6 DEF Newest
<1>13. RestOfOld'
  <2>1. Oldest' = q'[1]
    BY <1>6, <1>12 DEF Oldest
  <2>2. CASE m = 1
    BY <1>5, <1>6, <2>1, <2>2 DEF RestOfOld
  <2>3. CASE m # 1
    <3>1. Oldest' = Oldest
      BY <1>2, <1>3, <1>6, <2>1, <2>3
    <3> QED
      BY <1>1, <1>6, <3>1 DEF QueueInv, RestOfOld, m
  <2> QED
    BY <2>2, <2>3
<1>14. LatestPiece'
  BY <1>1, <1>7, <1>8 DEF QueueInv, LatestPiece, n
<1>15. NoHoles'
  BY <1>1, <1>3, <1>5, <1>12 DEF QueueInv, NoHoles, b
<1> QED
  BY <1>9, <1>10, <1>11, <1>13, <1>14, <1>15 DEF QueueInv

LEMMA ReplacedFirst ==
  ASSUME NEW S, NEW s \in Seq(S), s # <<>>, NEW x \in S
  PROVE  LET t == <<x>> \o Tail(s)
         IN  /\ t \in Seq(S) /\ t # <<>> /\ Len(t) = Len(s) /\ t[1] = x
             /\ \A k \in 2..Len(s) : t[k] = s[k]
<1>1. Len(s) \in Nat \ {0} /\ Tail(s) \in Seq(S) /\ Len(Tail(s)) = Len(s) - 1
  OBVIOUS
<1>2. <<x>> \in Seq(S) /\ Len(<<x>>) = 1 /\ <<x>>[1] = x
  OBVIOUS
<1> DEFINE t == <<x>> \o Tail(s)
<1>3. t \in Seq(S) /\ Len(t) = 1 + Len(Tail(s))
  BY <1>1, <1>2, ConcatProperties
<1>4. t[1] = x
  BY <1>1, <1>2
<1>5. ASSUME NEW k \in 2..Len(s)
      PROVE  t[k] = s[k]
  <2>1. k \in 2..(1 + Len(Tail(s))) /\ k - 1 \in 1..Len(Tail(s)) /\ (k - 1) + 1 = k
    BY <1>1
  <2>2. t[k] = Tail(s)[k - 1]
    BY <1>1, <1>2, <2>1
  <2>3. Tail(s)[k - 1] = s[(k - 1) + 1]
    BY <2>1, HeadTailProperties
  <2> QED
    BY <2>1, <2>2, <2>3
<1> QED
  BY <1>1, <1>3, <1>4, <1>5

\* The oldest buffer becomes c, of which w has been written; the others stay.
LEMMA OldestKeeps ==
  ASSUME QueueInv, q # <<>>, NEW c \in Buffers, SetOldest(c), c.serial = Oldest.serial,
         NEW w, Right(c, added[Gone + 1], w), added' = added,
         shown' \in Seq(SUBSET Nat), Len(shown') = Len(shown), shown'[Gone + 1] = w,
         \A s \in 1..Len(added) : s # Gone + 1 => shown'[s] = shown[s],
         c.sending_the_rest => Len(q) > 1 /\ c.smallest_not_sent > 0
  PROVE  /\ q' \in Seq(Buffers) /\ Len(q') = Len(q) /\ q' # <<>> /\ Oldest' = c
         /\ Newest'.serial = Newest.serial /\ Gone' = Gone
         /\ Histories' /\ GoneWritten' /\ RestOfOld'
<1>1. /\ q' \in Seq(Buffers) /\ q' # <<>> /\ Len(q') = Len(q) /\ q'[1] = c
      /\ \A k \in 2..Len(q) : q'[k] = q[k]
  BY ReplacedFirst DEF QueueInv, TypeInv, SetOldest
<1>2. /\ Len(q) \in Nat /\ Len(added) \in Nat /\ Gone \in Nat /\ Len(added) = Gone + Len(q)
      /\ \A k \in 1..Len(q) : Gone + k \in 1..Len(added)
  BY Counts DEF QueueInv
<1>3. Len(q) > 0 /\ Oldest.serial = Gone + 1 /\ Newest = q[Len(q)] /\ Oldest = q[1]
  BY Ends
<1>4. Gone' = Gone
  BY <1>1 DEF Gone
<1>5. Oldest' = c
  BY <1>1 DEF Oldest
<1>6. Newest' = q'[Len(q)]
  BY <1>1 DEF Newest
<1>7. Newest'.serial = Newest.serial
  BY <1>1, <1>2, <1>3, <1>6
<1>8. Histories'
  <2> SUFFICES ASSUME NEW k \in 1..Len(q)
               PROVE  /\ q'[k].serial = Gone + k
                      /\ Right(q'[k], added[Gone + k], shown'[Gone + k])
                      /\ k > 1 => shown'[Gone + k] = {} /\ ~q'[k].sending_the_rest
    BY <1>1, <1>4 DEF Histories
  <2>1. CASE k = 1
    BY <1>1, <1>3, <2>1
  <2>2. CASE k # 1
    <3>1. k \in 2..Len(q) /\ Gone + k # Gone + 1 /\ Gone + k \in 1..Len(added)
      BY <1>2, <2>2
    <3> QED
      BY <1>1, <3>1 DEF QueueInv, Histories
  <2> QED
    BY <2>1, <2>2
<1>9. GoneWritten'
  BY <1>2, <1>4 DEF QueueInv, GoneWritten
<1>10. RestOfOld'
  BY <1>1, <1>5 DEF RestOfOld
<1> QED
  BY <1>1, <1>4, <1>5, <1>7, <1>8, <1>9, <1>10

\* Message no of the oldest buffer was written up to piece d.
Writing(c, no, d) ==
  /\ q # <<>> /\ no \in added[Gone + 1] /\ d \in Nat
  /\ ~Oldest.sending_the_rest => no < Expected(Oldest) /\ 0..(no - 1) \subseteq shown[Gone + 1]
  /\ WrittenOn(Oldest, c, no, d) /\ SetOldest(c)
  /\ last' = [serial |-> Oldest.serial, no |-> no, piece |-> d]
  /\ shown' = IF d = Size THEN [shown EXCEPT ![Oldest.serial] = @ \cup {no}] ELSE shown
  /\ UNCHANGED <<ret, added>>

LEMMA WritingKeeps ==
  ASSUME QueueInv, NEW c, NEW no, NEW d, Writing(c, no, d),
         at' \in {"idle", "front", "ev0", "events", "sent", "rest"}
  PROVE  QueueInv' /\ Oldest' = c
<1> DEFINE b == Oldest
           s == Gone + 1
           w == IF d = Size THEN shown[s] \cup {no} ELSE shown[s]
<1>1. /\ q # <<>> /\ no \in added[s] /\ d \in Nat /\ WrittenOn(b, c, no, d) /\ SetOldest(c)
      /\ last' = [serial |-> b.serial, no |-> no, piece |-> d]
      /\ UNCHANGED <<ret, added>>
  BY DEF Writing
<1>2. /\ Len(q) > 0 /\ b \in Buffers /\ b.serial = s /\ Right(b, added[s], shown[s])
      /\ Newest.serial = Len(added)
  BY <1>1, Ends
<1>3. /\ Len(q) \in Nat /\ Len(added) \in Nat /\ Gone \in Nat /\ Len(added) = Gone + Len(q)
      /\ s \in 1..Len(added) /\ Len(shown) = Len(added)
      /\ added[s] \in SUBSET Nat /\ shown[s] \in SUBSET Nat
  BY <1>2, Counts DEF QueueInv
<1>4. no \in Nat /\ w \in SUBSET Nat
  BY <1>1, <1>3
<1>5. shown' = IF d = Size THEN [shown EXCEPT ![s] = shown[s] \cup {no}] ELSE shown
  BY <1>2 DEF Writing
<1>6. /\ shown' \in Seq(SUBSET Nat) /\ Len(shown') = Len(shown) /\ shown'[s] = w
      /\ \A x \in 1..Len(added) : x # s => shown'[x] = shown[x]
  <2> HIDE DEF s
  <2>1. CASE d = Size
    BY <1>3, <1>4, <1>5, <2>1, ExceptSeq DEF QueueInv, TypeInv
  <2>2. CASE d # Size
    BY <1>5, <2>2 DEF QueueInv, TypeInv
  <2> QED
    BY <2>1, <2>2
<1>7. /\ c \in Buffers /\ c.serial = b.serial /\ c.sending_the_rest = b.sending_the_rest
      /\ b.smallest_not_sent > 0 => c.smallest_not_sent > 0
  BY <1>1 DEF WrittenOn
<1>8. Right(c, added[s], w)
  BY <1>1, <1>2, WrittenIsRight DEF Writing
<1>9. c.sending_the_rest => Len(q) > 1 /\ c.smallest_not_sent > 0
  BY <1>1, <1>7 DEF QueueInv, RestOfOld
<1> HIDE DEF w
<1>10. /\ q' \in Seq(Buffers) /\ Len(q') = Len(q) /\ q' # <<>> /\ Oldest' = c
       /\ Newest'.serial = Newest.serial /\ Gone' = Gone
       /\ Histories' /\ GoneWritten' /\ RestOfOld'
  BY <1>1, <1>6, <1>7, <1>8, <1>9, OldestKeeps
<1> HIDE DEF b
<1>11. /\ last' \in [serial : Nat, no : Nat, piece : Nat] /\ last'.serial = s /\ last'.no = no
  BY <1>1, <1>2, <1>3, <1>4
<1>12. TypeInv'
  BY <1>1, <1>6, <1>10, <1>11 DEF QueueInv, TypeInv
<1>13. LatestPiece'
  BY <1>1, <1>3, <1>10, <1>11 DEF LatestPiece
<1>14. NoHoles'
  <2>1. shown[s] \subseteq shown'[s]
    BY <1>6 DEF w
  <2>2. ASSUME no > 0 PROVE NewGameNo \in shown[s]
    <3>1. CASE b.sending_the_rest
      <4>1. b.smallest_not_sent > 0
        BY <1>1, <3>1 DEF QueueInv, RestOfOld, b
      <4> QED
        BY <1>2, <4>1 DEF Right, Sound, Waits
    <3>2. CASE ~b.sending_the_rest
      <4>1. 0 \in 0..(no - 1) /\ 0..(no - 1) \subseteq shown[s]
        BY <1>4, <2>2, <3>2 DEF Writing, b
      <4> QED
        BY <4>1 DEF NewGameNo
    <3> QED
      BY <3>1, <3>2
  <2>3. ASSUME s = Len(added) PROVE 0..(no - 1) \subseteq shown[s]
    <3>1. ~b.sending_the_rest
      BY <1>1, <1>3, <2>3 DEF QueueInv, RestOfOld, b
    <3> QED
      BY <3>1 DEF Writing, b
  <2> QED
    BY <1>2, <1>10, <1>11, <2>1, <2>2, <2>3 DEF NoHoles
<1> QED
  BY <1>10, <1>12, <1>13, <1>14 DEF QueueInv

\* A newer buffer waits: what is left of the oldest one is sent, holes or not.
LEMMA GoesOnKeeps ==
  ASSUME QueueInv, Len(q) > 1, Oldest.smallest_not_sent > 0, q # <<>>,
         SetOldest([Oldest EXCEPT !.sending_the_rest = TRUE]),
         UNCHANGED <<ret, added, shown, last>>,
         at' \in {"idle", "front", "ev0", "events", "sent", "rest"}
  PROVE  QueueInv' /\ q' # <<>> /\ Oldest'.sending_the_rest
<1> DEFINE b == Oldest
           c == [b EXCEPT !.sending_the_rest = TRUE]
           s == Gone + 1
<1>1. /\ b \in Buffers /\ b.serial = s /\ Right(b, added[s], shown[s])
  BY Ends
<1>2. /\ c \in Buffers /\ c.serial = b.serial /\ Right(c, added[s], shown[s])
      /\ c.sending_the_rest /\ c.smallest_not_sent = b.smallest_not_sent
  <2> HIDE DEF b
  <2> QED
    BY <1>1, GivenUpIsRight
<1> HIDE DEF c
<1>3. SetOldest(c) /\ c.smallest_not_sent > 0
  BY <1>2 DEF c
<1>4. shown' = shown /\ shown \in Seq(SUBSET Nat)
  BY DEF QueueInv, TypeInv
<1>5. /\ q' \in Seq(Buffers) /\ Len(q') = Len(q) /\ q' # <<>> /\ Oldest' = c
      /\ Newest'.serial = Newest.serial /\ Gone' = Gone
      /\ Histories' /\ GoneWritten' /\ RestOfOld'
  BY <1>2, <1>3, <1>4, OldestKeeps
<1>6. TypeInv' /\ LatestPiece' /\ NoHoles'
  BY <1>5 DEF QueueInv, TypeInv, LatestPiece, NoHoles
<1> QED
  BY <1>2, <1>5, <1>6 DEF QueueInv

\* The oldest buffer is dropped.
LEMMA DropsKeeps ==
  ASSUME QueueInv, Len(q) > 1, q # <<>>, Waiting = {}, Oldest.smallest_not_sent > 0,
         q' = Tail(q), UNCHANGED <<ret, added, shown, last>>,
         at' \in {"idle", "front", "ev0", "events", "sent", "rest"}
  PROVE  QueueInv'
<1> DEFINE s == Gone + 1
<1>1. /\ q' \in Seq(Buffers) /\ Len(q') = Len(q) - 1
      /\ \A k \in 1..Len(q') : q'[k] = q[k + 1]
  BY HeadTailProperties DEF QueueInv, TypeInv
<1>2. /\ Len(q) \in Nat /\ Len(added) \in Nat /\ Gone \in Nat /\ Len(added) = Gone + Len(q)
  BY Counts DEF QueueInv
<1>3. Gone' = s
  BY <1>1, <1>2 DEF Gone
<1>4. /\ Oldest.serial = s /\ Right(Oldest, added[s], shown[s]) /\ Newest = q[Len(q)]
  BY Ends
<1>5. \A no : ~Waits(Oldest, no)
  BY <1>4 DEF Right, Sound, Waits, Waiting
<1>6. added[s] \subseteq shown[s]
  BY <1>4, <1>5 DEF Right
<1>7. Histories'
  <2> SUFFICES ASSUME NEW k \in 1..Len(q')
               PROVE  /\ q'[k].serial = s + k
                      /\ Right(q'[k], added[s + k], shown[s + k])
                      /\ k > 1 => shown[s + k] = {} /\ ~q'[k].sending_the_rest
    BY <1>3 DEF Histories
  <2>1. k + 1 \in 1..Len(q) /\ k + 1 > 1 /\ s + k = Gone + (k + 1) /\ q'[k] = q[k + 1]
    BY <1>1, <1>2
  <2> QED
    BY <2>1 DEF QueueInv, Histories
<1>8. GoneWritten'
  BY <1>2, <1>3, <1>6 DEF QueueInv, GoneWritten
<1>9. q' # <<>> /\ Len(q') > 0 /\ Oldest' = q'[1] /\ q'[1] = q[2] /\ Newest' = q'[Len(q')]
  <2>1. Len(q') > 0 /\ 1 \in 1..Len(q') /\ 1 + 1 = 2
    BY <1>1, <1>2
  <2>2. q' # <<>> /\ q'[1] = q[2]
    <3>1. q'[1] = q[1 + 1]
      BY <1>1, <2>1
    <3>2. Len(<<>>) = 0
      OBVIOUS
    <3> QED
      BY <2>1, <3>1, <3>2
  <2>3. Oldest' = q'[1] /\ Newest' = q'[Len(q')]
    BY <1>1, <2>2 DEF Oldest, Newest
  <2> QED
    BY <2>1, <2>2, <2>3
<1>10. Newest' = Newest
  <2>1. Len(q') \in 1..Len(q') /\ Len(q') + 1 = Len(q)
    BY <1>1, <1>2
  <2> QED
    BY <1>1, <1>4, <1>9, <2>1
<1>11. RestOfOld'
  <2>1. 2 \in 1..Len(q) /\ 2 > 1
    BY <1>2
  <2>2. ~q[2].sending_the_rest
    BY <2>1 DEF QueueInv, Histories
  <2> QED
    BY <1>9, <2>2 DEF RestOfOld
<1>12. TypeInv' /\ LatestPiece' /\ NoHoles'
  BY <1>1, <1>2, <1>3, <1>10 DEF QueueInv, TypeInv, LatestPiece, NoHoles
<1> QED
  BY <1>7, <1>8, <1>11, <1>12 DEF QueueInv

-----------------------------------------------------------------------------
(* The steps of send(). *)

\* Below the hole every number was written, or more was counted than there is.
SentAll(b, written) ==
  \A no \in 0..(Expected(b) - 1) : no \in written \/ CountedAhead(b, written)

\* Where send() is tells what it has seen of the oldest buffer.
Called ==
  /\ at \in {"ev0", "events", "sent", "rest"} => q # <<>>
  /\ at = "ev0" => Oldest.smallest_not_sent = 0
  /\ at \in {"events", "sent"} => Oldest.smallest_not_sent > 0
  /\ at \in {"ev0", "events", "sent"} => ~Oldest.sending_the_rest
  /\ at = "rest" => Oldest.sending_the_rest
  /\ at = "sent" => SentAll(Oldest, shown[Gone + 1])

BufferInv == QueueInv /\ Called

LEMMA LeastWaits ==
  ASSUME QueueInv, q # <<>>, Waiting # {}
  PROVE  Least \in Waiting /\ Least \in Nat /\ \A w \in Waiting : Least <= w
<1>1. Waiting \in SUBSET Nat
  BY Ends, Fields, OffsetsAreFunctions DEF Waiting
<1> QED
  BY <1>1, MinOfNumbers DEF Least

LEMMA KnownNumbers ==
  ASSUME QueueInv, q # <<>>
  PROVE  /\ Expected(Oldest) \in Nat /\ Expected(Oldest) \notin added[Gone + 1]
         /\ \A no \in 0..(Expected(Oldest) - 1) : no \in added[Gone + 1]
         /\ 0 \in added[Gone + 1] /\ Expected(Oldest) > 0
<1>1. Oldest \in Buffers /\ Right(Oldest, added[Gone + 1], shown[Gone + 1])
  BY Ends
<1>2. /\ Oldest.event_nums \in SUBSET Nat /\ IsFiniteSet(Oldest.event_nums)
      /\ Oldest.event_nums = added[Gone + 1] /\ 0 \in added[Gone + 1]
  BY <1>1, Fields DEF Right, Sound, NewGameNo
<1>3. /\ Expected(Oldest) \in Nat /\ Expected(Oldest) \notin added[Gone + 1]
      /\ \A no \in 0..(Expected(Oldest) - 1) : no \in added[Gone + 1]
  BY <1>2, FirstMissing
<1> QED
  BY <1>2, <1>3

LEMMA NewGameIsWriting ==
  ASSUME QueueInv, q # <<>>, Oldest.smallest_not_sent = 0, ~Oldest.sending_the_rest,
         WriteNewGame
  PROVE  \E c, d : /\ Writing(c, NewGameNo, d)
                   /\ at' = IF d = Size THEN "events" ELSE "ev0"
<1> DEFINE b == Oldest
<1>1. b \in Buffers /\ Sound(b) /\ b.ev0 \in Nat
  BY Ends, Fields DEF Right
<1>2. PICK n \in Takes(b.ev0) :
        /\ Written(NewGameNo, b.ev0, n)
        /\ IF b.ev0 + n = Size
             THEN SetOldest([b EXCEPT !.ev0 = b.ev0 + n, !.smallest_not_sent = 1]) /\ at' = "events"
             ELSE SetOldest([b EXCEPT !.ev0 = b.ev0 + n]) /\ UNCHANGED at
  BY DEF WriteNewGame
<1>3. n \in Nat /\ b.ev0 + n \in Nat
  BY <1>1, <1>2, BufferAssumption DEF Takes
<1> DEFINE d == b.ev0 + n
           c == IF d = Size THEN [b EXCEPT !.ev0 = d, !.smallest_not_sent = 1]
                            ELSE [b EXCEPT !.ev0 = d]
<1>4. d \in Nat /\ SetOldest(c) /\ Written(NewGameNo, b.ev0, n)
      /\ at' = IF d = Size THEN "events" ELSE "ev0"
  BY <1>2, <1>3 DEF WriteNewGame
<1>5. WrittenOn(b, c, NewGameNo, d)
  <2> HIDE DEF b, d
  <2> QED
    BY <1>1, <1>4, NewGameWrittenOn DEF b
<1>6. UNCHANGED <<ret, added>>
  BY DEF WriteNewGame
<1>7. NewGameNo \in added[Gone + 1] /\ NewGameNo < Expected(b) /\ 0..(NewGameNo - 1) = {}
  BY KnownNumbers DEF NewGameNo
<1> HIDE DEF c
<1>8. Writing(c, NewGameNo, d)
  BY <1>4, <1>5, <1>6, <1>7 DEF Writing, Written
<1> QED
  BY <1>4, <1>8

LEMMA StoredIsWriting ==
  ASSUME QueueInv, q # <<>>, Waiting # {}, Oldest.smallest_not_sent > 0,
         Oldest.sending_the_rest \/ Ready, WriteStored(Least), UNCHANGED <<ret, added>>
  PROVE  \E c, d : Writing(c, Least, d)
<1> DEFINE b == Oldest
           no == Least
<1>1. /\ b \in Buffers /\ Sound(b) /\ b.received \in Offsets /\ b.smallest_not_sent \in Nat
      /\ Right(b, added[Gone + 1], shown[Gone + 1])
  BY Ends, Fields DEF Right
<1>2. no \in DOMAIN b.received /\ no \in Nat /\ \A w \in DOMAIN b.received : no <= w
  BY LeastWaits DEF Waiting
<1>3. b.received[no] \in Nat
  BY <1>1, <1>2, OffsetsAreFunctions
<1>4. PICK n \in Takes(b.received[no]) :
        /\ Written(no, b.received[no], n)
        /\ SetOldest(IF b.received[no] + n = Size
                       THEN [Erased(b, no) EXCEPT !.smallest_not_sent = @ + 1]
                       ELSE [b EXCEPT !.received[no] = b.received[no] + n])
  BY DEF WriteStored
<1>5. n \in Nat /\ b.received[no] + n \in Nat
  BY <1>3, <1>4, BufferAssumption DEF Takes
<1> DEFINE d == b.received[no] + n
           c == IF d = Size THEN [Erased(b, no) EXCEPT !.smallest_not_sent = @ + 1]
                            ELSE [b EXCEPT !.received[no] = d]
<1>6. d \in Nat /\ SetOldest(c) /\ Written(no, b.received[no], n)
  BY <1>4, <1>5
<1>7. WrittenOn(b, c, no, d)
  <2> HIDE DEF b, no, d
  <2> QED
    BY <1>1, <1>2, <1>6, StoredWrittenOn DEF b
<1>8. no \in added[Gone + 1]
  BY <1>1, <1>2 DEF Right, Sound
<1>9. ASSUME ~b.sending_the_rest
      PROVE  no < Expected(b) /\ 0..(no - 1) \subseteq shown[Gone + 1]
  <2>1. no < Expected(b) /\ Expected(b) \in Nat
    BY <1>9, KnownNumbers DEF Ready
  <2>2. ASSUME NEW m \in 0..(no - 1) PROVE m \in shown[Gone + 1]
    <3>1. m \in 0..(Expected(b) - 1) /\ m < no /\ m \in Nat
      BY <1>2, <2>1, <2>2
    <3>2. m \in added[Gone + 1]
      BY <3>1, KnownNumbers
    <3>3. m \notin DOMAIN b.received
      BY <1>2, <3>1
    <3>4. ~Waits(b, m)
      BY <1>1, <3>3 DEF Waits, Sound
    <3> QED
      BY <1>1, <3>2, <3>4 DEF Right
  <2> QED
    BY <2>1, <2>2
<1> HIDE DEF c
<1>10. Writing(c, no, d)
  BY <1>6, <1>7, <1>8, <1>9 DEF Writing, Written
<1> QED
  BY <1>10

\* game_t::send() has nothing to do, or no more.
LEMMA NothingToSend ==
  ASSUME QueueInv, q # <<>>, Oldest.smallest_not_sent >= Expected(Oldest),
         ~Oldest.sending_the_rest
  PROVE  SentAll(Oldest, shown[Gone + 1]) /\ Oldest.smallest_not_sent > 0
<1> DEFINE b == Oldest
           w == shown[Gone + 1]
           e == Expected(b)
<1>1. b \in Buffers /\ Right(b, added[Gone + 1], w) /\ b.smallest_not_sent \in Nat
  BY Ends, Fields
<1>2. e \in Nat /\ e > 0 /\ w \subseteq 0..(e - 1) /\ b.smallest_not_sent >= e
  BY <1>1, KnownNumbers DEF Right
<1> HIDE DEF b, w, e
<1>3. ASSUME NEW no \in 0..(e - 1), no \notin w PROVE CountedAhead(b, w)
  <2> DEFINE all == 0..(e - 1)
  <2>1. IsFiniteSet(all) /\ Cardinality(all) = e
    <3>1. e - 1 \in Int /\ 0 \in Int /\ 0 <= e - 1
      BY <1>2
    <3>2. IsFiniteSet(0..(e - 1)) /\ Cardinality(0..(e - 1)) = e - 1 - 0 + 1
      BY <3>1, FS_Interval
    <3> QED
      BY <1>2, <3>2
  <2>2. IsFiniteSet(all \ {no}) /\ Cardinality(all \ {no}) = e - 1
    BY <1>3, <2>1, FS_RemoveElement
  <2>3. w \subseteq all \ {no}
    BY <1>2, <1>3
  <2> HIDE DEF all
  <2>4. Cardinality(w) <= e - 1 /\ Cardinality(w) \in Nat
    BY <2>2, <2>3, FS_Subset, FS_CardinalityType
  <2> QED
    BY <1>1, <1>2, <2>4 DEF CountedAhead
<1>4. SentAll(b, w)
  BY <1>3 DEF SentAll, e
<1> QED
  BY <1>1, <1>2, <1>4 DEF b, w

LEMMA NoMoreToSend ==
  ASSUME QueueInv, q # <<>>, Oldest.smallest_not_sent > 0, ~Ready
  PROVE  SentAll(Oldest, shown[Gone + 1])
<1>1. ASSUME NEW no \in 0..(Expected(Oldest) - 1) PROVE no \in shown[Gone + 1]
  <2>1. /\ no \in added[Gone + 1] /\ Expected(Oldest) \in Nat
        /\ Right(Oldest, added[Gone + 1], shown[Gone + 1])
    BY <1>1, Ends, KnownNumbers
  <2>2. no \notin Waiting
    <3>1. CASE Waiting = {}
      BY <3>1
    <3>2. CASE Waiting # {}
      <4>1. Least \in Nat /\ ~ (Least < Expected(Oldest)) /\ \A w \in Waiting : Least <= w
        BY <3>2, LeastWaits DEF Ready
      <4>2. ~ (Least <= no)
        BY <1>1, <2>1, <4>1
      <4> QED
        BY <4>1, <4>2
    <3> QED
      BY <3>1, <3>2
  <2>3. ~Waits(Oldest, no)
    BY <2>1, <2>2 DEF Right, Sound, Waits, Waiting
  <2> QED
    BY <2>1, <2>3 DEF Right
<1> QED
  BY <1>1 DEF SentAll

LEMMA BufferStarts == BufferInit => BufferInv
<1> SUFFICES ASSUME BufferInit PROVE BufferInv
  OBVIOUS
<1>1. /\ q = <<>> /\ at = "idle" /\ ret = TRUE /\ added = <<>> /\ shown = <<>>
      /\ last = [serial |-> 0, no |-> 0, piece |-> 0]
  BY DEF BufferInit
<1>2. /\ q \in Seq(Buffers) /\ Len(q) = 0 /\ added \in Seq(SUBSET Nat) /\ Len(added) = 0
      /\ shown \in Seq(SUBSET Nat) /\ Len(shown) = 0
  BY <1>1
<1>3. Gone = 0
  BY <1>2 DEF Gone
<1>4. TypeInv /\ Histories /\ GoneWritten /\ RestOfOld /\ LatestPiece /\ NoHoles /\ Called
  BY <1>1, <1>2, <1>3
     DEF TypeInv, Histories, GoneWritten, RestOfOld, LatestPiece, NoHoles, Called
<1> QED
  BY <1>4 DEF BufferInv, QueueInv

\* Nothing but the place in send() changes.
LEMMA PlaceKeeps ==
  ASSUME QueueInv, UNCHANGED <<q, added, shown, last>>, ret' \in BOOLEAN,
         at' \in {"idle", "front", "ev0", "events", "sent", "rest"}
  PROVE  QueueInv' /\ Oldest' = Oldest /\ Gone' = Gone
<1>1. Oldest' = Oldest /\ Gone' = Gone /\ Newest' = Newest
  BY DEF Oldest, Gone, Newest
<1> QED
  BY <1>1 DEF QueueInv, TypeInv, Histories, GoneWritten, RestOfOld, LatestPiece, NoHoles

LEMMA BufferStep ==
  ASSUME BufferInv, [BufferNext]_bufferVars
  PROVE  BufferInv'
<1> DEFINE Places == {"idle", "front", "ev0", "events", "sent", "rest"}
<1>1. QueueInv /\ Called /\ ret \in BOOLEAN /\ at \in Places
  BY DEF BufferInv, QueueInv, TypeInv
<1>2. ASSUME NEW g \in GameIds, NEW no \in {NewGameNo} \cup EventNos, Integrate(g, no)
      PROVE  BufferInv'
  <2>1. QueueInv' /\ at = "idle" /\ at' = at
    <3>1. CASE no = NewGameNo
      BY <1>1, <1>2, <3>1, OpensKeeps DEF Integrate, IntegrateNewGame
    <3>2. CASE no # NewGameNo
      BY <1>1, <1>2, <3>2, StoresKeeps DEF Integrate, IntegrateEvent
    <3> QED
      BY <3>1, <3>2
  <2> QED
    BY <2>1 DEF BufferInv, Called
<1>3. CASE StartSend \/ EmptyQueue \/ Blocks
  <2>1. UNCHANGED <<q, added, shown, last>> /\ ret' \in BOOLEAN /\ at' \in {"idle", "front"}
    BY <1>1, <1>3 DEF StartSend, EmptyQueue, Blocks
  <2>2. QueueInv'
    BY <1>1, <2>1, PlaceKeeps
  <2> QED
    BY <2>1, <2>2 DEF BufferInv, Called
<1>4. CASE FrontGame
  <2>1. q # <<>> /\ UNCHANGED <<q, ret, added, shown, last>>
    BY <1>4 DEF FrontGame
  <2>2. Oldest.smallest_not_sent \in Nat /\ Expected(Oldest) \in Nat
    BY <1>1, <2>1, Ends, Fields, KnownNumbers
  <2>3. CASE Oldest.sending_the_rest
    <3>1. at' = "rest"
      BY <1>4, <2>3 DEF FrontGame
    <3>2. QueueInv' /\ Oldest' = Oldest
      BY <1>1, <2>1, <3>1, PlaceKeeps
    <3> QED
      BY <2>1, <2>3, <3>1, <3>2 DEF BufferInv, Called
  <2>4. CASE ~Oldest.sending_the_rest /\ Oldest.smallest_not_sent >= Expected(Oldest)
    <3>1. at' = "sent"
      BY <1>4, <2>2, <2>4 DEF FrontGame
    <3>2. QueueInv' /\ Oldest' = Oldest /\ Gone' = Gone
      BY <1>1, <2>1, <3>1, PlaceKeeps
    <3>3. SentAll(Oldest, shown[Gone + 1]) /\ Oldest.smallest_not_sent > 0
      BY <1>1, <2>1, <2>4, NothingToSend
    <3> QED
      BY <2>1, <2>4, <3>1, <3>2, <3>3 DEF BufferInv, Called
  <2>5. CASE ~Oldest.sending_the_rest /\ Oldest.smallest_not_sent < Expected(Oldest)
    <3>1. at' = IF Oldest.smallest_not_sent = 0 THEN "ev0" ELSE "events"
      BY <1>4, <2>2, <2>5 DEF FrontGame
    <3>2. QueueInv' /\ Oldest' = Oldest
      BY <1>1, <2>1, <3>1, PlaceKeeps
    <3> QED
      BY <2>1, <2>2, <2>5, <3>1, <3>2 DEF BufferInv, Called
  <2> QED
    BY <2>2, <2>3, <2>4, <2>5
<1>5. CASE WriteNewGame
  <2>1. /\ at = "ev0" /\ q # <<>> /\ Oldest.smallest_not_sent = 0
        /\ ~Oldest.sending_the_rest
    BY <1>1, <1>5 DEF WriteNewGame, Called
  <2>2. PICK c, d : Writing(c, NewGameNo, d) /\ at' = IF d = Size THEN "events" ELSE "ev0"
    BY <1>1, <1>5, <2>1, NewGameIsWriting
  <2>3. QueueInv' /\ Oldest' = c
    <3>1. at' \in Places
      BY <2>2
    <3> QED
      BY <1>1, <2>2, <3>1, WritingKeeps
  <2>4. /\ c.sending_the_rest = Oldest.sending_the_rest
        /\ c.smallest_not_sent > 0 <=> d = Size
        /\ c.smallest_not_sent \in Nat /\ q' # <<>>
    <3>1. WrittenOn(Oldest, c, NewGameNo, d) /\ q' = <<c>> \o Tail(q)
      BY <2>2 DEF Writing, SetOldest
    <3>2. c \in Buffers /\ q \in Seq(Buffers)
      BY <1>1, <3>1 DEF WrittenOn, QueueInv, TypeInv
    <3>3. q' # <<>>
      BY <2>1, <3>1, <3>2, ReplacedFirst
    <3> QED
      BY <2>1, <3>1, <3>2, <3>3, Fields DEF WrittenOn
  <2> QED
    BY <2>1, <2>2, <2>3, <2>4 DEF BufferInv, Called
<1>6. ASSUME at \in {"events", "rest"}, Waiting # {}, at = "events" => Ready,
             WriteStored(Least), UNCHANGED <<at, ret, added>>
      PROVE  BufferInv'
  <2>1. q # <<>> /\ Oldest.smallest_not_sent > 0 /\ (Oldest.sending_the_rest <=> at = "rest")
    BY <1>1, <1>6 DEF Called, QueueInv, RestOfOld
  <2>2. PICK c, d : Writing(c, Least, d)
    BY <1>1, <1>6, <2>1, StoredIsWriting
  <2>3. QueueInv' /\ Oldest' = c
    BY <1>1, <1>6, <2>2, WritingKeeps
  <2>4. c.sending_the_rest = Oldest.sending_the_rest /\ c.smallest_not_sent > 0 /\ q' # <<>>
    <3>1. WrittenOn(Oldest, c, Least, d) /\ q' = <<c>> \o Tail(q)
      BY <2>2 DEF Writing, SetOldest
    <3>2. c \in Buffers /\ q \in Seq(Buffers)
      BY <1>1, <3>1 DEF WrittenOn, QueueInv, TypeInv
    <3>3. q' # <<>>
      BY <2>1, <3>1, <3>2, ReplacedFirst
    <3> QED
      BY <2>1, <3>1, <3>3 DEF WrittenOn
  <2> QED
    BY <1>6, <2>1, <2>3, <2>4 DEF BufferInv, Called
<1>7. CASE WriteEvent \/ WriteRest
  BY <1>6, <1>7 DEF WriteEvent, WriteRest, Ready, RestLeft
<1>8. CASE EventsDone
  <2>1. at = "events" /\ ~Ready /\ at' = "sent" /\ UNCHANGED <<q, ret, added, shown, last>>
    BY <1>8 DEF EventsDone
  <2>2. q # <<>> /\ Oldest.smallest_not_sent > 0 /\ ~Oldest.sending_the_rest
    BY <1>1, <2>1 DEF Called
  <2>3. QueueInv' /\ Oldest' = Oldest /\ Gone' = Gone
    BY <1>1, <2>1, PlaceKeeps
  <2>4. SentAll(Oldest, shown[Gone + 1])
    BY <1>1, <2>1, <2>2, NoMoreToSend
  <2> QED
    BY <2>1, <2>2, <2>3, <2>4 DEF BufferInv, Called
<1>9. CASE Sent
  <2>1. at = "sent" /\ q # <<>> /\ Oldest.smallest_not_sent > 0 /\ UNCHANGED <<added, shown, last>>
    BY <1>1, <1>9 DEF Sent, Called
  <2>2. CASE GivesUp
    <3>1. /\ SetOldest([Oldest EXCEPT !.sending_the_rest = TRUE]) /\ Len(q) > 1
          /\ at' = "rest" /\ ret' = ret
      BY <1>9, <2>2 DEF Sent, GivesUp
    <3>2. QueueInv' /\ q' # <<>> /\ Oldest'.sending_the_rest
      BY <1>1, <2>1, <3>1, GoesOnKeeps
    <3> QED
      BY <3>1, <3>2 DEF BufferInv, Called
  <2>3. CASE ~GivesUp
    <3>1. at' = "idle" /\ ret' = TRUE /\ q' = q
      BY <1>9, <2>3 DEF Sent
    <3>2. QueueInv'
      BY <1>1, <2>1, <3>1, PlaceKeeps
    <3> QED
      BY <3>1, <3>2 DEF BufferInv, Called
  <2> QED
    BY <2>2, <2>3
<1>10. CASE RestDone
  <2>1. /\ at = "rest" /\ Waiting = {} /\ q' = Tail(q) /\ at' = "front"
        /\ UNCHANGED <<ret, added, shown, last>>
    BY <1>10 DEF RestDone, RestLeft
  <2>2. q # <<>> /\ Oldest.smallest_not_sent > 0 /\ Len(q) > 1
    BY <1>1, <2>1 DEF Called, QueueInv, RestOfOld
  <2>3. QueueInv'
    BY <1>1, <2>1, <2>2, DropsKeeps
  <2> QED
    BY <2>1, <2>3 DEF BufferInv, Called
<1>11. CASE UNCHANGED bufferVars
  <2>1. UNCHANGED <<q, at, ret, added, shown, last>>
    BY <1>11 DEF bufferVars
  <2>2. QueueInv' /\ Oldest' = Oldest /\ Gone' = Gone
    BY <1>1, <2>1, PlaceKeeps
  <2> QED
    BY <1>1, <2>1, <2>2 DEF BufferInv, Called
<1> QED
  BY <1>2, <1>3, <1>4, <1>5, <1>7, <1>8, <1>9, <1>10, <1>11
     DEF BufferNext, SendStep, Writes

LEMMA BufferAlways == BufferSpec => []BufferInv
  BY BufferStarts, BufferStep, PTL DEF BufferSpec

-----------------------------------------------------------------------------
(* What the invariant says of the buffers, for every number of games and      *)
(* events, whatever the socket takes at a time and whatever comes again.      *)

\* What waits is what add() has seen, and the queue holds the latest buffers.
LEMMA BufferTypes == BufferInv => BufferTypeOK
<1> SUFFICES ASSUME BufferInv PROVE BufferTypeOK
  OBVIOUS
<1>1. QueueInv /\ at \in {"idle", "front", "ev0", "events", "sent", "rest"} /\ ret \in BOOLEAN
  BY DEF BufferInv, QueueInv, TypeInv
<1>2. ASSUME NEW k \in 1..Len(q)
      PROVE  /\ q[k].id \in GameIds /\ q[k].sending_the_rest \in BOOLEAN
             /\ q[k].serial = Len(added) - Len(q) + k
             /\ q[k].event_nums \subseteq {NewGameNo} \cup EventNos
             /\ DOMAIN q[k].received \subseteq q[k].event_nums \ {NewGameNo}
             /\ q[k].received \in [DOMAIN q[k].received -> Nat \ {Size}]
             /\ q[k].smallest_not_sent \in Nat /\ q[k].ev0 \in Nat
             /\ q[k].ev0 = Size <=> q[k].smallest_not_sent > 0
  <2>1. q[k] \in Buffers /\ q[k].serial = Gone + k /\ Sound(q[k])
    BY <1>1, Counts DEF QueueInv, Histories, Right
  <2> QED
    BY <2>1, Fields, OffsetsAreFunctions DEF Sound, Gone
<1> QED
  BY <1>1, <1>2 DEF BufferTypeOK

THEOREM BufferTypeCorrect == BufferSpec => []BufferTypeOK
  BY BufferAlways, BufferTypes, PTL

\* While a game is the newest, nothing of it is written past a hole, be it that
\* events come out of order, again, or when they are half written.
THEOREM NothingPastHoles == BufferSpec => []NoHoles
<1>1. BufferInv => NoHoles
  BY DEF BufferInv, QueueInv
<1> QED
  BY <1>1, BufferAlways, PTL

\* Nothing that was handed over is dropped, from the queue or from a buffer,
\* before it was wholly written.
THEOREM NothingIsDropped == BufferSpec => []NothingDropped
<1>1. BufferInv => NothingDropped
  <2> SUFFICES ASSUME BufferInv, NEW s \in 1..Len(added), NEW no \in added[s] \ shown[s]
               PROVE  \E k \in 1..Len(q) : q[k].serial = s /\ Waits(q[k], no)
    BY DEF NothingDropped
  <2>1. QueueInv
    BY DEF BufferInv
  <2>2. /\ Len(q) \in Nat /\ Len(added) \in Nat /\ Gone \in Nat /\ Len(added) = Gone + Len(q)
    BY <2>1, Counts DEF QueueInv
  <2>3. s \notin 1..Gone
    BY <2>1 DEF QueueInv, GoneWritten
  <2>4. s - Gone \in 1..Len(q) /\ Gone + (s - Gone) = s
    BY <2>2, <2>3
  <2>5. q[s - Gone].serial = s /\ Right(q[s - Gone], added[s], shown[s])
    BY <2>1, <2>4 DEF QueueInv, Histories
  <2>6. Waits(q[s - Gone], no)
    BY <2>5 DEF Right
  <2> QED
    BY <2>4, <2>5, <2>6
<1> QED
  BY <1>1, BufferAlways, PTL

\* Nothing of a game is written before all of the games ahead of it.
THEOREM OldGamesAreFirst == BufferSpec => []OldGamesFirst
<1>1. BufferInv => OldGamesFirst
  <2> SUFFICES ASSUME BufferInv, NEW s \in 1..(last.serial - 1)
               PROVE  added[s] \subseteq shown[s]
    BY DEF OldGamesFirst
  <2>1. last.serial \in Nat /\ last.serial <= Gone + 1 /\ Gone \in Nat
    BY Counts DEF BufferInv, QueueInv, TypeInv, LatestPiece
  <2>2. s \in 1..Gone
    BY <2>1
  <2> QED
    BY <2>2 DEF BufferInv, QueueInv, GoneWritten
<1> QED
  BY <1>1, BufferAlways, PTL

\* What is asked for is the first number that neither waits nor was written.
THEOREM AsksForTheFirstMissing == BufferSpec => []AsksFromFirstGap
<1>1. BufferInv => AsksFromFirstGap
  <2> SUFFICES ASSUME BufferInv, q # <<>>
               PROVE  LET b == Newest
                          known == shown[b.serial]
                                     \cup {no \in {NewGameNo} \cup EventNos : Waits(b, no)}
                      IN  /\ 0..(NextExpected - 1) \subseteq known
                          /\ NextExpected \notin known
    BY DEF AsksFromFirstGap
  <2> DEFINE b == Newest
             w == shown[b.serial]
  <2>1. b \in Buffers /\ b.serial = Len(added) /\ Right(b, added[Len(added)], w)
    BY Ends DEF BufferInv
  <2>2. NextExpected = Expected(b)
    BY DEF NextExpected
  <2> HIDE DEF b, w
  <2>3. /\ b.event_nums \in SUBSET Nat /\ IsFiniteSet(b.event_nums)
        /\ b.event_nums \subseteq {NewGameNo} \cup EventNos /\ NewGameNo \in b.event_nums
        /\ w \subseteq b.event_nums /\ DOMAIN b.received \subseteq b.event_nums
        /\ \A no \in b.event_nums : no \in w \/ Waits(b, no)
    BY <2>1, Fields DEF Right, Sound
  <2>4. /\ Expected(b) \notin b.event_nums
        /\ \A no \in 0..(Expected(b) - 1) : no \in b.event_nums
    BY <2>3, FirstMissing
  <2>5. \A no : Waits(b, no) => no \in b.event_nums
    BY <2>3 DEF Waits
  <2> QED
    BY <2>2, <2>3, <2>4, <2>5 DEF b, w
<1> QED
  BY <1>1, BufferAlways, PTL

\* When send() returns true it is done with all but the newest game, and below
\* the hole of that one nothing is left, unless the count ran ahead.
THEOREM SendIsDone == BufferSpec => CaughtUp
<1>1. BufferInv /\ [BufferNext]_bufferVars =>
        (at # "idle" /\ at' = "idle" /\ ret' /\ q # <<>> =>
           /\ Len(q) = 1
           /\ \A no \in 0..(NextExpected - 1) :
                no \in shown[Newest.serial] \/ CountedAhead(Newest, shown[Newest.serial]))
  <2> SUFFICES ASSUME BufferInv, BufferNext, at # "idle", at' = "idle", ret', q # <<>>
               PROVE  /\ Len(q) = 1
                      /\ \A no \in 0..(NextExpected - 1) :
                           no \in shown[Newest.serial] \/ CountedAhead(Newest, shown[Newest.serial])
    BY DEF bufferVars
  <2>1. at = "sent" /\ ~GivesUp
    <3>1. Sent
      <4>1. ~(\E g \in GameIds, no \in {NewGameNo} \cup EventNos : Integrate(g, no))
        BY DEF Integrate, IntegrateNewGame, IntegrateEvent
      <4>2. ~StartSend /\ ~EmptyQueue /\ ~Blocks
        BY DEF StartSend, EmptyQueue, Blocks
      <4>3. ~FrontGame
        <5>1. ASSUME FrontGame PROVE at' # "idle"
          <6>1. /\ q # <<>> /\ Oldest.smallest_not_sent \in Nat /\ Expected(Oldest) \in Nat
                /\ Oldest.sending_the_rest \in BOOLEAN
            BY <5>1, Ends, Fields, KnownNumbers DEF BufferInv, FrontGame
          <6>2. \/ Oldest.sending_the_rest
                \/ ~Oldest.sending_the_rest /\ Oldest.smallest_not_sent >= Expected(Oldest)
                \/ ~Oldest.sending_the_rest /\ Oldest.smallest_not_sent < Expected(Oldest)
            BY <6>1
          <6> QED
            BY <5>1, <6>1, <6>2 DEF FrontGame
        <5> QED
          BY <5>1
      <4>4. ~WriteNewGame /\ ~WriteEvent /\ ~WriteRest
        BY DEF WriteNewGame, WriteEvent, WriteRest
      <4>5. ~EventsDone /\ ~RestDone
        BY DEF EventsDone, RestDone
      <4> QED
        BY <4>1, <4>2, <4>3, <4>4, <4>5 DEF BufferNext, SendStep, Writes
    <3> QED
      BY <3>1 DEF Sent
  <2>2. /\ Len(q) > 0 /\ Len(q) \in Nat /\ Newest = q[Len(q)] /\ Oldest = q[1]
        /\ Oldest.serial = Gone + 1
    BY Ends, Counts DEF BufferInv, QueueInv
  <2>3. Len(q) = 1 /\ Newest = Oldest
    BY <2>1, <2>2 DEF GivesUp
  <2>4. NextExpected = Expected(Oldest)
    BY <2>3 DEF NextExpected
  <2>5. SentAll(Oldest, shown[Gone + 1])
    BY <2>1 DEF BufferInv, Called
  <2> QED
    BY <2>2, <2>3, <2>4, <2>5 DEF SentAll
<1> QED
  BY <1>1, BufferAlways, PTL DEF BufferSpec, CaughtUp

-----------------------------------------------------------------------------
(* The client is made of its parts. *)

LEMMA LoopMovesBuffer == [ClientNext]_clientVars => [BufferNext]_bufferVars
BY DEF ClientNext, Loop, Expire, Gui, Poll, ReceiveFromGame, Recv, ReceiveFromGui, SendToGui,
       SendToGame, clientVars, bufferVars, BufferNext

LEMMA LoopMovesKeys == [ClientNext]_clientVars => [KeyNext]_keyVars
BY DEF ClientNext, Loop, Expire, Gui, Poll, ReceiveFromGame, ReceiveFromGui, SendToGui,
       SendToGame, clientVars, KeyNext

\* The loop makes only the steps that the buffer and the keys allow, so that it has
\* their properties.
THEOREM ClientHasParts == ClientSpec => BufferSpec /\ KeyMoves
<1>1. ClientInit => BufferInit /\ KeyInit
  BY DEF ClientInit
<1> QED
  BY <1>1, LoopMovesBuffer, LoopMovesKeys, PTL DEF ClientSpec, BufferSpec, KeyMoves

\* In the loop, too, turn_dir is what the keys mean, however the other handlers
\* run between two calls of receive(), and nothing of the stream is lost.
THEOREM ClientHearsKeys == ClientSpec => [](RestIsKept /\ TurnFollowsKeys)
  BY ClientHasParts, RestStays, TurnIsMeaning, PTL

\* The client has no game.
NothingStored == q = <<>> /\ NextExpected = 0

\* recv() gives up every datagram: nothing is ever stored, so that the client asks
\* for number 0 for ever and has nothing to write to the GUI.
THEOREM NothingIsStored == ClientSpec => []NothingStored
<1>1. ClientInit => NothingStored
  BY DEF ClientInit, BufferInit, NothingStored, NextExpected
<1>2. NothingStored /\ BufferInv /\ [ClientNext]_clientVars => NothingStored'
  <2> SUFFICES ASSUME q = <<>>, BufferInv, [ClientNext]_clientVars PROVE q' = <<>>
    BY DEF NothingStored, NextExpected
  <2>1. CASE ReceiveFromGame
    BY <2>1 DEF ReceiveFromGame, Recv, ReadNum, bufferVars
  <2>2. CASE SendToGui
    <3>1. StartSend \/ SendStep
      BY <2>2 DEF SendToGui
    <3>2. at \notin {"ev0", "events", "sent", "rest"}
      BY DEF BufferInv, Called
    <3> QED
      BY <3>1, <3>2
         DEF StartSend, SendStep, Writes, EmptyQueue, FrontGame, WriteNewGame, WriteEvent,
             WriteRest, EventsDone, Sent, RestDone, Blocks
  <2>3. CASE Expire \/ Gui \/ Poll \/ ReceiveFromGui \/ SendToGame \/ UNCHANGED clientVars
    BY <2>3 DEF Expire, Gui, Poll, ReceiveFromGui, SendToGame, clientVars, bufferVars
  <2> QED
    BY <2>1, <2>2, <2>3 DEF ClientNext, Loop
<1> QED
  BY <1>1, <1>2, ClientHasParts, BufferAlways, PTL DEF ClientSpec

-----------------------------------------------------------------------------
(* The loop. *)

LEMMA HandlersAreFew == Range(Handlers) = {"game", "gui", "out", "time"}
<1>1. DOMAIN Handlers = 1..4
  BY DEF Handlers
<1>2. Range(Handlers) = {Handlers[k] : k \in 1..4}
  BY <1>1 DEF Range
<1> QED
  BY <1>2 DEF Handlers

LEMMA ToRunRuns ==
  ASSUME NEW ready
  PROVE  ToRun(ready) \in Seq(Range(Handlers))
<1> DEFINE H == {"game", "gui", "out", "time"}
<1> HIDE DEF H
<1>1. \A h \in H : IfReady(h, ready) \in Seq(H)
  <2>1. <<>> \in Seq(H) /\ \A h \in H : <<h>> \in Seq(H)
    OBVIOUS
  <2> QED
    BY <2>1 DEF IfReady
<1>2. /\ IfReady("game", ready) \in Seq(H) /\ IfReady("gui", ready) \in Seq(H)
      /\ IfReady("out", ready) \in Seq(H) /\ IfReady("time", ready) \in Seq(H)
  BY <1>1 DEF H
<1>3. ToRun(ready) \in Seq(H)
  BY <1>2, ConcatProperties DEF ToRun
<1> QED
  BY <1>3, HandlersAreFew DEF H

LoopTypeOK ==
  /\ revents \in Seq(Range(Handlers)) /\ pollout \in BOOLEAN /\ expired \in BOOLEAN
  /\ at # "idle" => Runs("out")
  /\ stage # "idle" => Runs("gui")

LEMMA LoopStep ==
  ASSUME LoopTypeOK, BufferInv, BufferInv', ClientNext
  PROVE  LoopTypeOK'
<1> DEFINE H == Range(Handlers)
<1>1. /\ revents \in Seq(H) /\ pollout \in BOOLEAN /\ expired \in BOOLEAN
      /\ at # "idle" => Runs("out")
      /\ stage # "idle" => Runs("gui")
  BY DEF LoopTypeOK
<1>2. revents # <<>> => Tail(revents) \in Seq(H)
  BY <1>1
<1>3. ASSUME NEW h, Runs(h), h # "out" PROVE at = "idle" /\ revents # <<>>
  BY <1>1, <1>3 DEF Runs
<1>4. ASSUME NEW h, Runs(h), h # "gui" PROVE stage = "idle" /\ revents # <<>>
  BY <1>1, <1>4 DEF Runs
<1>5. CASE Expire
  BY <1>1, <1>5 DEF Expire, bufferVars, keyVars, LoopTypeOK, Runs
<1>6. CASE Gui
  <2>1. stage' = stage
    BY <1>6 DEF Gui, Close, PressOrRelease
  <2> QED
    BY <1>1, <1>6, <2>1 DEF Gui, bufferVars, loopVars, LoopTypeOK, Runs
<1>7. CASE Poll
  <2>1. PICK ready \in SUBSET MayBeReady : revents' = ToRun(ready)
    BY <1>7 DEF Poll
  <2>2. at = "idle" /\ stage = "idle"
    BY <1>1, <1>7 DEF Poll, Runs
  <2> QED
    BY <1>1, <1>7, <2>1, <2>2, ToRunRuns DEF Poll, bufferVars, keyVars, LoopTypeOK
<1>8. CASE ReceiveFromGame
  <2>1. at = "idle" /\ stage = "idle" /\ revents # <<>>
    BY <1>3, <1>4, <1>8 DEF ReceiveFromGame
  <2>2. at' = at
    BY <1>8 DEF ReceiveFromGame, Recv, ReadNum, bufferVars
  <2> QED
    BY <1>1, <1>2, <1>8, <2>1, <2>2 DEF ReceiveFromGame, keyVars, LoopTypeOK
<1>9. CASE ReceiveFromGui
  <2>1. at = "idle" /\ revents # <<>> /\ Runs("gui") /\ UNCHANGED <<at, expired>>
    BY <1>3, <1>9 DEF ReceiveFromGui, bufferVars
  <2>2. CASE stage' = "idle"
    BY <1>1, <1>2, <1>9, <2>1, <2>2 DEF ReceiveFromGui, LoopTypeOK
  <2>3. CASE stage' # "idle"
    BY <1>1, <1>9, <2>1, <2>3 DEF ReceiveFromGui, LoopTypeOK, Runs
  <2> QED
    BY <2>2, <2>3
<1>10. CASE SendToGui
  <2>1. stage = "idle" /\ revents # <<>> /\ Runs("out") /\ UNCHANGED <<stage, expired>>
    BY <1>4, <1>10 DEF SendToGui, keyVars
  <2>2. CASE at' = "idle"
    <3>1. revents' = Tail(revents) /\ pollout' \in BOOLEAN
      BY <1>10, <2>2 DEF SendToGui
    <3> QED
      BY <1>1, <1>2, <2>1, <2>2, <3>1 DEF LoopTypeOK
  <2>3. CASE at' # "idle"
    <3>1. UNCHANGED <<revents, pollout>>
      BY <1>10, <2>3 DEF SendToGui
    <3> QED
      BY <1>1, <2>1, <3>1 DEF LoopTypeOK, Runs
  <2> QED
    BY <2>2, <2>3
<1>11. CASE SendToGame
  <2>1. at = "idle" /\ stage = "idle" /\ revents # <<>>
    BY <1>3, <1>4, <1>11 DEF SendToGame
  <2> QED
    BY <1>1, <1>2, <1>11, <2>1 DEF SendToGame, bufferVars, keyVars, LoopTypeOK
<1> QED
  BY <1>5, <1>6, <1>7, <1>8, <1>9, <1>10, <1>11 DEF ClientNext, Loop

\* One handler runs at a time, and to its end: send() and receive() go on only in
\* theirs, though they are many steps; and the buffer keeps its type.
THEOREM ClientTypeCorrect == ClientSpec => []ClientTypeOK
<1>1. ClientInit => LoopTypeOK
  <2> SUFFICES ASSUME ClientInit PROVE LoopTypeOK
    OBVIOUS
  <2>1. <<>> \in Seq(Range(Handlers))
    OBVIOUS
  <2> QED
    BY <2>1 DEF ClientInit, BufferInit, KeyInit, LoopTypeOK
<1>2. LoopTypeOK /\ BufferInv /\ BufferInv' /\ [ClientNext]_clientVars => LoopTypeOK'
  <2> SUFFICES ASSUME LoopTypeOK, BufferInv, BufferInv', [ClientNext]_clientVars
               PROVE  LoopTypeOK'
    OBVIOUS
  <2>1. CASE UNCHANGED clientVars
    BY <2>1 DEF clientVars, bufferVars, loopVars, keyVars, LoopTypeOK, Runs
  <2> QED
    BY <2>1, LoopStep
<1>3. LoopTypeOK /\ BufferInv => ClientTypeOK
  BY BufferTypes DEF LoopTypeOK, ClientTypeOK
<1> QED
  BY <1>1, <1>2, <1>3, ClientHasParts, BufferAlways, PTL DEF ClientSpec

-----------------------------------------------------------------------------
(* Messages to the server: what is written is what would be read. *)

\* The recursion of Shifted defines a function.
LEMMA ShiftedIs ==
  ASSUME NEW x, NEW w \in Nat
  PROVE  /\ Shifted(x, w)[0] = x
         /\ \A n \in 1..w : Shifted(x, w)[n] = Shifted(x, w)[n - 1] \div 256
<1> DEFINE Upto(f, m) == f = [n \in 0..m |-> IF n = 0 THEN x ELSE f[n - 1] \div 256]
           Good == {m \in 0..w : \E f : Upto(f, m)}
<1>1. 0 \in Good
  <2> DEFINE g == [n \in 0..0 |-> x]
  <2>1. Upto(g, 0)
    OBVIOUS
  <2> HIDE DEF g, Upto
  <2>2. \E f : Upto(f, 0)
    BY <2>1
  <2> QED
    BY <2>2
<1>2. ASSUME NEW m \in 0..w, m \in Good, m + 1 <= w
      PROVE  m + 1 \in Good
  <2>1. PICK g : Upto(g, m)
    BY <1>2
  <2> DEFINE f == [n \in 0..(m + 1) |-> IF n = m + 1 THEN g[m] \div 256 ELSE g[n]]
  <2>2. ASSUME NEW n \in 0..(m + 1)
        PROVE  f[n] = IF n = 0 THEN x ELSE f[n - 1] \div 256
    <3>1. CASE n = m + 1
      <4>1. m \in 0..(m + 1) /\ m # m + 1 /\ n # 0 /\ n - 1 = m
        BY <3>1
      <4> QED
        BY <3>1, <4>1
    <3>2. CASE n # m + 1
      <4>1. n \in 0..m /\ (n # 0 => n - 1 \in 0..m /\ n - 1 # m + 1 /\ n - 1 \in 0..(m + 1))
        BY <3>2
      <4>2. g[n] = IF n = 0 THEN x ELSE g[n - 1] \div 256
        BY <2>1, <4>1
      <4> QED
        BY <3>2, <4>1, <4>2
    <3> QED
      BY <3>1, <3>2
  <2>3. Upto(f, m + 1)
    <3> HIDE DEF f
    <3>1. f = [n \in 0..(m + 1) |-> f[n]]
      BY DEF f
    <3> QED
      BY <2>2, <3>1
  <2>4. m + 1 \in 0..w
    BY <1>2
  <2> HIDE DEF f, Upto
  <2> QED
    BY <2>3, <2>4
<1>3. w \in Good
  <2> HIDE DEF Good
  <2>1. 0..w \subseteq Good
    BY <1>1, <1>2, UpTo
  <2> QED
    BY <2>1
<1>4. Shifted(x, w) = [n \in 0..w |-> IF n = 0 THEN x ELSE Shifted(x, w)[n - 1] \div 256]
  BY <1>3 DEF Shifted
<1>5. \A n \in 0..w : Shifted(x, w)[n] = IF n = 0 THEN x ELSE Shifted(x, w)[n - 1] \div 256
  BY <1>4
<1> QED
  BY <1>5

\* A smaller number has no more bytes.
LEMMA ShiftedGrows ==
  ASSUME NEW x \in Nat, NEW y \in Nat, x <= y, NEW w \in Nat
  PROVE  \A n \in 0..w : /\ Shifted(x, w)[n] \in Nat /\ Shifted(y, w)[n] \in Nat
                         /\ Shifted(x, w)[n] <= Shifted(y, w)[n]
<1> DEFINE X(n) == Shifted(x, w)[n]
           Y(n) == Shifted(y, w)[n]
           S == {n \in 0..w : X(n) \in Nat /\ Y(n) \in Nat /\ X(n) <= Y(n)}
<1>1. 0 \in S
  BY ShiftedIs
<1>2. ASSUME NEW n \in 0..w, n \in S, n + 1 <= w PROVE n + 1 \in S
  <2>1. n + 1 \in 1..w /\ n + 1 \in 0..w /\ (n + 1) - 1 = n
    BY <1>2
  <2>2. X(n + 1) = X(n) \div 256 /\ Y(n + 1) = Y(n) \div 256
    BY <2>1, ShiftedIs
  <2>3. X(n) \in Nat /\ Y(n) \in Nat /\ X(n) <= Y(n)
    BY <1>2
  <2> HIDE DEF X, Y
  <2>4. \A a, b \in Nat : a <= b => a \div 256 \in Nat /\ b \div 256 \in Nat /\ a \div 256 <= b \div 256
    OBVIOUS
  <2> QED
    BY <2>1, <2>2, <2>3, <2>4
<1>3. 0..w \subseteq S
  <2> HIDE DEF S
  <2> QED
    BY <1>1, <1>2, UpTo
<1> QED
  BY <1>3

LEMMA FitsBelow ==
  ASSUME NEW x \in Nat, NEW y \in Nat, x <= y, NEW w \in Nat, Fits(y, w)
  PROVE  Fits(x, w)
<1>1. /\ Shifted(x, w)[w] \in Nat /\ Shifted(y, w)[w] = 0
      /\ Shifted(x, w)[w] <= Shifted(y, w)[w]
  BY ShiftedGrows DEF Fits
<1> QED
  BY <1>1 DEF Fits

\* BEbytes_to_num() reads what htonl() and htobe64() have written.
LEMMA NumberIs ==
  ASSUME NEW x \in Nat, NEW w \in Nat, Fits(x, w)
  PROVE  /\ BigEndian(x, w) \in Seq(Int) /\ Len(BigEndian(x, w)) = w
         /\ Number(BigEndian(x, w)) = x
<1> DEFINE left(n) == Shifted(x, w)[n]
           bytes == BigEndian(x, w)
           Rec(f) == f = [n \in 0..w |-> IF n = 0 THEN 0 ELSE f[n - 1] * 256 + bytes[n]]
           value == [n \in 0..w |-> left(w - n)]
<1>1. \A n \in 0..w : left(n) \in Nat
  BY ShiftedGrows
<1>2. left(0) = x /\ left(w) = 0 /\ \A n \in 1..w : left(n) = left(n - 1) \div 256
  BY ShiftedIs DEF Fits
<1>3. bytes = [k \in 1..w |-> left(w - k) % 256]
  BY DEF BigEndian
<1> HIDE DEF left, bytes
<1>4. bytes \in Seq(Int) /\ Len(bytes) = w
  <2>1. \A k \in 1..w : left(w - k) % 256 \in Int
    <3>1. \A k \in 1..w : w - k \in 0..w
      OBVIOUS
    <3> QED
      BY <1>1, <3>1
  <2>2. bytes \in [1..w -> Int]
    BY <1>3, <2>1
  <2> QED
    BY <2>2
<1>5. ASSUME NEW n \in 1..w PROVE left(w - n) = left(w - (n - 1)) * 256 + bytes[n]
  <2>1. w - n \in 0..w /\ w - (n - 1) \in 1..w /\ (w - (n - 1)) - 1 = w - n
    OBVIOUS
  <2>2. left(w - n) \in Nat /\ left(w - (n - 1)) = left(w - n) \div 256
    BY <1>1, <1>2, <2>1
  <2>3. bytes[n] = left(w - n) % 256
    BY <1>3
  <2>4. \A a \in Nat : a = (a \div 256) * 256 + (a % 256)
    OBVIOUS
  <2> QED
    BY <2>2, <2>3, <2>4
<1>6. Rec(value)
  <2>1. \A n \in 0..w : value[n] = IF n = 0 THEN 0 ELSE value[n - 1] * 256 + bytes[n]
    <3> SUFFICES ASSUME NEW n \in 0..w
                 PROVE  value[n] = IF n = 0 THEN 0 ELSE value[n - 1] * 256 + bytes[n]
      OBVIOUS
    <3>1. CASE n = 0
      BY <1>2, <3>1
    <3>2. CASE n # 0
      <4>1. n \in 1..w /\ n - 1 \in 0..w
        BY <3>2
      <4>2. value[n] = left(w - n) /\ value[n - 1] = left(w - (n - 1))
        BY <4>1
      <4> QED
        BY <1>5, <3>2, <4>1, <4>2
    <3> QED
      BY <3>1, <3>2
  <2>2. value = [n \in 0..w |-> value[n]]
    OBVIOUS
  <2> HIDE DEF value
  <2> QED
    BY <2>1, <2>2
<1> DEFINE horner == CHOOSE f : Rec(f)
<1>7. Rec(horner)
  BY <1>6
<1>8. Number(bytes) = horner[w]
  BY <1>4 DEF Number
<1> HIDE DEF horner
<1>9. \A n \in 0..w : horner[n] = IF n = 0 THEN 0 ELSE horner[n - 1] * 256 + bytes[n]
  BY <1>7
<1>10. 0..w \subseteq {n \in 0..w : horner[n] = left(w - n)}
  <2> DEFINE S == {n \in 0..w : horner[n] = left(w - n)}
  <2>1. 0 \in S
    BY <1>2, <1>9
  <2>2. ASSUME NEW n \in 0..w, n \in S, n + 1 <= w PROVE n + 1 \in S
    <3>1. n + 1 \in 1..w /\ n + 1 \in 0..w /\ n + 1 # 0 /\ (n + 1) - 1 = n
      BY <2>2
    <3>2. horner[n + 1] = horner[n] * 256 + bytes[n + 1]
      BY <1>9, <3>1
    <3>3. left(w - (n + 1)) = left(w - n) * 256 + bytes[n + 1]
      BY <1>5, <3>1
    <3> QED
      BY <2>2, <3>1, <3>2, <3>3
  <2> HIDE DEF S
  <2>3. 0..w \subseteq S
    BY <2>1, <2>2, UpTo
  <2> QED
    BY <2>3 DEF S
<1>11. horner[w] = x
  <2>1. w \in 0..w /\ w - w = 0
    OBVIOUS
  <2> QED
    BY <1>2, <1>10, <2>1
<1> QED
  BY <1>4, <1>8, <1>11 DEF bytes

\* What the server makes of a message of the client.
LEMMA MessageIsRead ==
  ASSUME NEW dir \in TurnDirections, NEW no \in Nat, Fits(no, EventNoBytes)
  PROVE  LET bytes == ToGame(SessionId, dir, no, PlayerName)
         IN  /\ Accepted(bytes)
             /\ FromClient(bytes) = [session_id |-> SessionId, turn_direction |-> dir,
                                     next_expected_event_no |-> no, player_name |-> PlayerName]
<1> DEFINE id == BigEndian(SessionId, SessionBytes)
           exp == BigEndian(no, EventNoBytes)
           bytes == ToGame(SessionId, dir, no, PlayerName)
<1>1. SessionBytes = 8 /\ EventNoBytes = 4 /\ Required = 13 /\ MaxNameLen = 20
  BY DEF SessionBytes, EventNoBytes, Required, MaxNameLen
<1>2. /\ SessionId \in Nat /\ Fits(SessionId, SessionBytes)
      /\ PlayerName \in Seq(33..126) /\ Len(PlayerName) <= 20
  BY <1>1, ClientAssumption
<1>3. id \in Seq(Int) /\ Len(id) = 8 /\ Number(id) = SessionId
  BY <1>1, <1>2, NumberIs
<1>4. exp \in Seq(Int) /\ Len(exp) = 4 /\ Number(exp) = no
  BY <1>1, NumberIs
<1>5. bytes = ((id \o <<dir>>) \o exp) \o PlayerName
  BY DEF ToGame
<1> HIDE DEF id, exp, bytes
<1>6. /\ <<dir>> \in Seq(Int) /\ Len(<<dir>>) = 1 /\ <<dir>>[1] = dir
      /\ PlayerName \in Seq(Int) /\ Len(PlayerName) \in 0..20
  <2>1. dir \in Int
    BY DEF TurnDirections
  <2>2. PlayerName \in Seq(Int)
    <3>1. (33..126) \subseteq Int
      OBVIOUS
    <3> QED
      BY <1>2, <3>1, SeqMonotonic
  <2>3. Len(PlayerName) \in Nat
    BY <2>2
  <2>4. Len(PlayerName) \in 0..20
    <3>1. \A n \in Nat : n <= 20 => n \in 0..20
      OBVIOUS
    <3> QED
      BY <1>2, <2>3, <3>1, Zenon
  <2> QED
    BY <2>1, <2>2, <2>4
<1> DEFINE front == id \o <<dir>>
           head == front \o exp
<1>7. /\ front \in Seq(Int) /\ Len(front) = 9 /\ front[9] = dir
      /\ \A k \in 1..8 : front[k] = id[k]
  <2>1. /\ front \in Seq(Int) /\ Len(front) = Len(id) + 1
        /\ \A k \in 1..(Len(id) + 1) : front[k] = IF k <= Len(id) THEN id[k] ELSE <<dir>>[k - Len(id)]
    BY <1>3, <1>6, ConcatProperties
  <2> HIDE DEF front
  <2> QED
    BY <1>3, <1>6, <2>1
<1> HIDE DEF front
<1>8. /\ head \in Seq(Int) /\ Len(head) = 13
      /\ \A k \in 1..9 : head[k] = front[k]
      /\ \A k \in 1..4 : head[9 + k] = exp[k]
  <2>1. /\ head \in Seq(Int) /\ Len(head) = Len(front) + Len(exp)
        /\ \A k \in 1..(Len(front) + Len(exp)) :
             head[k] = IF k <= Len(front) THEN front[k] ELSE exp[k - Len(front)]
    BY <1>4, <1>7, ConcatProperties
  <2> HIDE DEF head
  <2>2. \A k \in 1..4 : 9 + k \in 1..13 /\ ~ (9 + k <= 9) /\ 9 + k - 9 = k
    OBVIOUS
  <2> QED
    BY <1>4, <1>7, <2>1, <2>2
<1> HIDE DEF head
<1>9. /\ bytes \in Seq(Int) /\ Len(bytes) = 13 + Len(PlayerName)
      /\ \A k \in 1..13 : bytes[k] = head[k]
      /\ \A k \in 1..Len(PlayerName) : bytes[13 + k] = PlayerName[k]
  <2>1. /\ head \o PlayerName \in Seq(Int)
        /\ Len(head \o PlayerName) = Len(head) + Len(PlayerName)
        /\ \A k \in 1..(Len(head) + Len(PlayerName)) :
             (head \o PlayerName)[k] =
               IF k <= Len(head) THEN head[k] ELSE PlayerName[k - Len(head)]
    BY <1>6, <1>8, ConcatProperties
  <2>2. bytes = head \o PlayerName
    BY <1>5 DEF front, head
  <2>3. \A k \in 1..Len(PlayerName) :
          13 + k \in 1..(13 + Len(PlayerName)) /\ ~ (13 + k <= 13) /\ 13 + k - 13 = k
    BY <1>6
  <2>4. \A k \in 1..13 : k \in 1..(13 + Len(PlayerName)) /\ k <= 13
    BY <1>6
  <2>5. \A k \in 1..(13 + Len(PlayerName)) :
          bytes[k] = IF k <= 13 THEN head[k] ELSE PlayerName[k - 13]
    BY <1>8, <2>1, <2>2
  <2>6. \A k \in 1..13 : bytes[k] = head[k]
    BY <2>4, <2>5
  <2>7. \A k \in 1..Len(PlayerName) : bytes[13 + k] = PlayerName[k]
    BY <2>3, <2>5
  <2> QED
    BY <1>8, <2>1, <2>2, <2>6, <2>7
<1>10. SubSeq(bytes, 1, 8) = id
  <2> DEFINE s == SubSeq(bytes, 1, 8)
  <2>1. \A k \in 1..8 : bytes[k] = id[k] /\ bytes[k] \in Int
    <3>1. \A k \in 1..8 : k \in 1..9 /\ k \in 1..13
      OBVIOUS
    <3>2. \A k \in 1..8 : bytes[k] = id[k]
      BY <1>7, <1>8, <1>9, <3>1
    <3>3. \A k \in 1..8 : id[k] \in Int
      BY <1>3, ElementOfSeq, Zenon
    <3> QED
      BY <3>2, <3>3
  <2>2. s \in Seq(Int) /\ Len(s) = 8 /\ \A k \in 1..8 : s[k] = bytes[k]
    BY <2>1, SubSeqProperties
  <2> HIDE DEF s
  <2>3. s = id
    BY <1>3, <2>1, <2>2, SeqEqual
  <2> QED
    BY <2>3 DEF s
<1>11. SubSeq(bytes, 10, 13) = exp
  <2> DEFINE s == SubSeq(bytes, 10, 13)
  <2>1. \A k \in 1..4 : bytes[9 + k] = exp[k] /\ bytes[9 + k] \in Int
    <3>1. \A k \in 1..4 : 9 + k \in 1..13
      OBVIOUS
    <3>2. \A k \in 1..4 : bytes[9 + k] = exp[k]
      BY <1>8, <1>9, <3>1
    <3>3. \A k \in 1..4 : exp[k] \in Int
      BY <1>4, ElementOfSeq, Zenon
    <3> QED
      BY <3>2, <3>3
  <2>2. \A k \in 10..13 : bytes[k] \in Int
    <3>1. \A k \in 10..13 : k - 9 \in 1..4 /\ 9 + (k - 9) = k
      OBVIOUS
    <3> QED
      BY <2>1, <3>1
  <2>3. s \in Seq(Int) /\ Len(s) = 4 /\ \A k \in 1..4 : s[k] = bytes[10 + k - 1]
    BY <2>2, SubSeqProperties
  <2> HIDE DEF s
  <2>4. \A k \in 1..4 : s[k] = exp[k]
    <3>1. \A k \in 1..4 : 10 + k - 1 = 9 + k
      OBVIOUS
    <3> QED
      BY <2>1, <2>3, <3>1
  <2>5. s = exp
    BY <1>4, <2>3, <2>4, SeqEqual
  <2> QED
    BY <2>5 DEF s
<1>12. SubSeq(bytes, 14, Len(bytes)) = PlayerName
  <2> DEFINE s == SubSeq(bytes, 14, Len(bytes))
  <2>1. \A k \in 14..Len(bytes) : bytes[k] \in Int
    <3>1. \A k \in 14..Len(bytes) : k \in 1..Len(bytes)
      BY <1>9
    <3> QED
      BY <1>9, <3>1, ElementOfSeq, Zenon
  <2>2. /\ s \in Seq(Int) /\ Len(s) = Len(PlayerName)
        /\ \A k \in 1..Len(PlayerName) : s[k] = bytes[14 + k - 1]
    <3>1. /\ s \in Seq(Int) /\ Len(s) = IF 14 <= Len(bytes) THEN Len(bytes) - 14 + 1 ELSE 0
          /\ \A k \in 1..(Len(bytes) - 14 + 1) : s[k] = bytes[14 + k - 1]
      BY <1>6, <1>9, <2>1, SubSeqProperties
    <3> HIDE DEF s
    <3> QED
      BY <1>6, <1>9, <3>1
  <2> HIDE DEF s
  <2>3. \A k \in 1..Len(PlayerName) : s[k] = PlayerName[k]
    <3>1. \A k \in 1..Len(PlayerName) : 14 + k - 1 = 13 + k
      BY <1>6
    <3> QED
      BY <1>9, <2>2, <3>1
  <2>4. s = PlayerName
    BY <1>6, <2>2, <2>3, SeqEqual
  <2> QED
    BY <2>4 DEF s
<1>13. bytes[9] = dir
  BY <1>7, <1>8, <1>9
<1>14. Accepted(bytes)
  <2>1. Len(bytes) \in Required..(Required + MaxNameLen)
    <3>1. \A n \in 0..20 : 13 + n \in 13..(13 + 20)
      OBVIOUS
    <3> QED
      BY <1>1, <1>6, <1>9, <3>1
  <2>2. bytes[SessionBytes + 1] \in TurnDirections
    BY <1>1, <1>13
  <2>3. \A k \in (Required + 1)..Len(bytes) : bytes[k] \in 33..126
    <3> SUFFICES ASSUME NEW k \in 14..Len(bytes) PROVE bytes[k] \in 33..126
      BY <1>1
    <3>1. k - 13 \in 1..Len(PlayerName) /\ 13 + (k - 13) = k
      BY <1>6, <1>9
    <3>2. PlayerName[k - 13] \in 33..126
      BY <1>2, <3>1, ElementOfSeq
    <3> QED
      BY <1>9, <3>1, <3>2
  <2> QED
    BY <2>1, <2>2, <2>3 DEF Accepted
<1>15. FromClient(bytes) = [session_id |-> SessionId, turn_direction |-> dir,
                           next_expected_event_no |-> no, player_name |-> PlayerName]
  <2>1. SessionBytes + 1 = 9 /\ SessionBytes + 2 = 10 /\ Required + 1 = 14
    BY <1>1
  <2> QED
    BY <1>1, <1>3, <1>4, <1>10, <1>11, <1>12, <1>13, <2>1 DEF FromClient
<1> QED
  BY <1>14, <1>15 DEF bytes

LEMMA ZeroFits == Fits(0, EventNoBytes)
<1>1. EventNoBytes \in Nat
  BY DEF EventNoBytes
<1> DEFINE S == {n \in 0..EventNoBytes : Shifted(0, EventNoBytes)[n] = 0}
<1>2. 0 \in S
  BY <1>1, ShiftedIs
<1>3. ASSUME NEW n \in 0..EventNoBytes, n \in S, n + 1 <= EventNoBytes PROVE n + 1 \in S
  <2>1. n + 1 \in 1..EventNoBytes /\ n + 1 \in 0..EventNoBytes /\ (n + 1) - 1 = n
    BY <1>1, <1>3
  <2>2. Shifted(0, EventNoBytes)[n + 1] = 0 \div 256 /\ 0 \div 256 = 0
    BY <1>1, <1>3, <2>1, ShiftedIs
  <2> QED
    BY <2>1, <2>2
<1>4. 0..EventNoBytes \subseteq S
  <2> HIDE DEF S
  <2> QED
    BY <1>1, <1>2, <1>3, UpTo
<1> QED
  BY <1>1, <1>4 DEF Fits

\* The timer's handler is the last one, so that nothing changes between it and the
\* next poll().
TimeLast == \A k \in 1..Len(revents) : revents[k] = "time" => k = Len(revents)

TriedInv ==
  tried # Nothing =>
    revents = <<>> /\ tried = ToGame(SessionId, turn_dir, NextExpected, PlayerName)

LEMMA ToRunTimeLast ==
  ASSUME NEW ready
  PROVE  \A k \in 1..Len(ToRun(ready)) : ToRun(ready)[k] = "time" => k = Len(ToRun(ready))
<1> DEFINE H == {"game", "gui", "out"}
           front == (IfReady("game", ready) \o IfReady("gui", ready)) \o IfReady("out", ready)
           time == IfReady("time", ready)
<1>1. front \in Seq(H)
  <2>1. <<>> \in Seq(H) /\ \A h \in H : <<h>> \in Seq(H)
    OBVIOUS
  <2>2. \A h \in H : IfReady(h, ready) \in Seq(H)
    BY <2>1 DEF IfReady
  <2>3. "game" \in H /\ "gui" \in H /\ "out" \in H
    OBVIOUS
  <2> HIDE DEF H
  <2> QED
    BY <2>2, <2>3, ConcatProperties
<1>2. time \in Seq({"time"}) /\ Len(time) <= 1
  <2>1. <<>> \in Seq({"time"}) /\ <<"time">> \in Seq({"time"}) /\ Len(<<>>) = 0 /\ Len(<<"time">>) = 1
    OBVIOUS
  <2>2. time = <<>> \/ time = <<"time">>
    BY DEF IfReady
  <2>3. CASE time = <<>>
    <3>1. \A t : t = <<>> => t \in Seq({"time"}) /\ Len(t) <= 1
      BY <2>1
    <3> QED
      BY <2>3, <3>1, Zenon
  <2>4. CASE time = <<"time">>
    <3>1. \A t : t = <<"time">> => t \in Seq({"time"}) /\ Len(t) <= 1
      BY <2>1
    <3> QED
      BY <2>4, <3>1, Zenon
  <2> QED
    BY <2>2, <2>3, <2>4
<1>3. ToRun(ready) = front \o time
  BY DEF ToRun
<1> HIDE DEF front, time
<1>4. front \in Seq(H \cup {"time"}) /\ time \in Seq(H \cup {"time"})
  BY <1>1, <1>2
<1>5. /\ Len(front \o time) = Len(front) + Len(time)
      /\ \A k \in 1..(Len(front) + Len(time)) :
           (front \o time)[k] = IF k <= Len(front) THEN front[k] ELSE time[k - Len(front)]
  BY <1>4, ConcatProperties
<1>6. \A k \in 1..Len(front) : front[k] # "time"
  BY <1>1
<1> QED
  BY <1>1, <1>2, <1>3, <1>5, <1>6

LEMMA TriedStep ==
  ASSUME LoopTypeOK, TimeLast, TriedInv, [ClientNext]_clientVars
  PROVE  TimeLast' /\ TriedInv'
<1>1. revents \in Seq(Range(Handlers))
  BY DEF LoopTypeOK
<1>2. ASSUME NEW h, Runs(h) PROVE tried = Nothing /\ revents # <<>>
  BY <1>2 DEF Runs, TriedInv
<1>3. ASSUME revents # <<>>, revents' = Tail(revents) PROVE TimeLast'
  <2>1. /\ Len(revents') = Len(revents) - 1 /\ Len(revents) \in Nat \ {0}
        /\ \A k \in 1..(Len(revents) - 1) : revents'[k] = revents[k + 1]
    BY <1>1, <1>3
  <2>2. ASSUME NEW k \in 1..Len(revents'), revents'[k] = "time" PROVE k = Len(revents')
    <3>1. k + 1 \in 1..Len(revents) /\ revents[k + 1] = "time"
      BY <2>1, <2>2
    <3>2. k + 1 = Len(revents)
      BY <3>1 DEF TimeLast
    <3> QED
      BY <2>1, <3>2
  <2> QED
    BY <2>2 DEF TimeLast
<1>4. ASSUME UNCHANGED <<revents, tried, turn_dir, q>> PROVE TimeLast' /\ TriedInv'
  <2>1. NextExpected' = NextExpected
    BY <1>4 DEF NextExpected, Newest, Expected
  <2> QED
    BY <1>4, <2>1 DEF TimeLast, TriedInv
<1>5. CASE Poll
  <2>1. PICK ready \in SUBSET MayBeReady : revents' = ToRun(ready)
    BY <1>5 DEF Poll
  <2>2. tried' = Nothing
    BY <1>5 DEF Poll
  <2> QED
    BY <2>1, <2>2, ToRunTimeLast DEF TimeLast, TriedInv
<1>6. CASE ReceiveFromGame \/ ReceiveFromGui \/ SendToGui
  <2>1. /\ tried = Nothing /\ tried' = tried /\ revents # <<>>
        /\ revents' = Tail(revents) \/ revents' = revents
    BY <1>2, <1>6 DEF ReceiveFromGame, ReceiveFromGui, SendToGui
  <2>2. TimeLast'
    BY <1>3, <2>1 DEF TimeLast
  <2> QED
    BY <2>1, <2>2 DEF TriedInv
<1>7. CASE SendToGame
  <2>1. /\ revents # <<>> /\ Head(revents) = "time" /\ revents' = Tail(revents)
        /\ tried' = ToGame(SessionId, turn_dir, NextExpected, PlayerName)
        /\ UNCHANGED <<q, turn_dir>>
    BY <1>7 DEF SendToGame, Runs, bufferVars, keyVars
  <2>2. revents' = <<>>
    <3>1. Len(revents) \in Nat \ {0} /\ revents[1] = "time"
      BY <1>1, <2>1
    <3>2. Len(revents) = 1
      BY <3>1 DEF TimeLast
    <3>3. Tail(revents) \in Seq(Range(Handlers)) /\ Len(Tail(revents)) = 0
      BY <1>1, <2>1, <3>2
    <3> QED
      BY <2>1, <3>3
  <2>3. NextExpected' = NextExpected
    BY <2>1 DEF NextExpected, Newest, Expected
  <2> QED
    BY <1>3, <2>1, <2>2, <2>3 DEF TriedInv
<1>8. Expire \/ Gui \/ UNCHANGED clientVars => UNCHANGED <<revents, tried, turn_dir, q>>
  BY DEF Expire, Gui, Close, PressOrRelease, clientVars, bufferVars, loopVars, keyVars
<1> QED
  BY <1>4, <1>5, <1>6, <1>7, <1>8 DEF ClientNext, Loop

\* What is given to sendto() is a message of the client as the server would read
\* it: its session and name, the direction that the keys leave when the handlers
\* before have run, and the number that is expected.
THEOREM MessagesAreMeant == ClientSpec => []MessageIsMeant
<1>1. ClientInit => TimeLast /\ TriedInv
  <2> SUFFICES ASSUME ClientInit PROVE TimeLast /\ TriedInv
    OBVIOUS
  <2>1. revents = <<>> /\ tried = Nothing /\ Len(<<>>) = 0
    BY DEF ClientInit
  <2> QED
    BY <2>1 DEF TimeLast, TriedInv
<1>2. ClientTypeOK => LoopTypeOK
  BY DEF ClientTypeOK, LoopTypeOK
<1>3. ClientSpec => [](TimeLast /\ TriedInv)
  BY <1>1, <1>2, TriedStep, ClientTypeCorrect, PTL DEF ClientSpec
<1>4. KeyTypeOK /\ TriedInv /\ NothingStored => MessageIsMeant
  <2> SUFFICES ASSUME KeyTypeOK, TriedInv, NextExpected = 0, tried # Nothing
               PROVE  /\ Accepted(tried)
                      /\ FromClient(tried) = [session_id |-> SessionId, turn_direction |-> turn_dir,
                                              next_expected_event_no |-> NextExpected,
                                              player_name |-> PlayerName]
    BY DEF MessageIsMeant, NothingStored
  <2>1. tried = ToGame(SessionId, turn_dir, NextExpected, PlayerName)
    BY DEF TriedInv
  <2>2. turn_dir \in TurnDirections
    BY DEF KeyTypeOK, Directions, STRAIGHT, RIGHT, LEFT, TurnDirections
  <2>3. NextExpected \in Nat /\ Fits(NextExpected, EventNoBytes)
    BY ZeroFits
  <2> QED
    BY <2>1, <2>2, <2>3, MessageIsRead
<1> QED
  BY <1>3, <1>4, KeyTypeCorrect, NothingIsStored, ClientHasParts, PTL
=============================================================================
