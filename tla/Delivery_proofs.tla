--------------------------- MODULE Delivery_proofs ---------------------------
(***************************************************************************)
(* Theorems about the outgoing queue: nothing that a client is due is      *)
(* forgotten, and a broadcast is never half sent to one of its recipients. *)
(* They hold for any clients, any number and length of games, any queue,   *)
(* and all sizes of events and datagrams.                                  *)
(***************************************************************************)
EXTENDS Delivery, FiniteSetTheorems, FunctionTheorems, SequenceTheorems, TLAPS

-----------------------------------------------------------------------------
(* The size of a datagram. *)

\* The smallest of some natural numbers.
LEMMA Least ==
  ASSUME NEW S \in SUBSET Nat, S # {}
  PROVE  \E n \in S : \A m \in S : n <= m
<1> DEFINE Less == {ss \in Nat \X Nat : ss[1] < ss[2]}
<1>1. IsWellFoundedOn(Less, Nat)
  BY NatLessThanWellFounded, Zenon DEF OpToRel
<1> HIDE DEF Less
<1>2. PICK n \in S : \A m \in S : <<m, n>> \notin Less
  BY <1>1, WFMin
<1>3. ASSUME NEW m \in S PROVE n <= m
  <2> SUFFICES ASSUME m < n PROVE FALSE
    OBVIOUS
  <2>1. <<m, n>> \in Nat \X Nat /\ <<m, n>>[1] = m /\ <<m, n>>[2] = n
    OBVIOUS
  <2> QED
    BY <1>2, <2>1 DEF Less
<1> QED
  BY <1>3

\* A set of numbers that holds a and the successor of each of its numbers
\* below b holds all from a to b.
LEMMA UpTo ==
  ASSUME NEW a \in Nat, NEW b \in Nat, NEW S, a \in S,
         \A n \in a..b : n \in S /\ n + 1 <= b => n + 1 \in S
  PROVE  a..b \subseteq S
<1> DEFINE Bad == (a..b) \ S
<1> SUFFICES ASSUME Bad # {} PROVE FALSE
  OBVIOUS
<1>1. Bad \in SUBSET Nat
  OBVIOUS
<1> HIDE DEF Bad
<1>2. PICK n \in Bad : \A m \in Bad : n <= m
  BY <1>1, Least
<1>3. n \in a..b /\ n \notin S /\ n # a
  BY DEF Bad
<1>4. n - 1 \in a..b /\ ~ (n <= n - 1) /\ n - 1 + 1 = n
  BY <1>3
<1>5. n - 1 \in S
  BY <1>2, <1>4 DEF Bad
<1> QED
  BY <1>3, <1>4, <1>5

\* The recursion of Bytes defines a function.
LEMMA BytesExist ==
  ASSUME NEW first \in Nat, NEW last \in Nat, first <= last
  PROVE  \E f : f = [n \in first..last |->
                       IF n = first THEN Header ELSE f[n - 1] + hist[n]]
<1> DEFINE Upto(f, m) == f = [n \in first..m |->
                                IF n = first THEN Header ELSE f[n - 1] + hist[n]]
           Good == {m \in first..last : \E f : Upto(f, m)}
<1>1. first \in Good
  <2> DEFINE g == [n \in first..first |-> Header]
  <2>1. Upto(g, first)
    OBVIOUS
  <2>2. first \in first..last
    OBVIOUS
  <2> HIDE DEF g, Upto
  <2>3. \E f : Upto(f, first)
    BY <2>1
  <2> QED
    BY <2>2, <2>3
<1>2. ASSUME NEW m \in first..last, m \in Good, m + 1 <= last
      PROVE  m + 1 \in Good
  <2>1. PICK g : Upto(g, m)
    BY <1>2
  <2> DEFINE f == [n \in first..(m + 1) |-> IF n = m + 1 THEN g[m] + hist[n] ELSE g[n]]
  <2>2. ASSUME NEW n \in first..(m + 1)
        PROVE  f[n] = IF n = first THEN Header ELSE f[n - 1] + hist[n]
    <3>1. CASE n = m + 1
      <4>1. m \in first..(m + 1) /\ m # m + 1 /\ n # first /\ n - 1 = m
        BY <3>1
      <4> QED
        BY <3>1, <4>1
    <3>2. CASE n # m + 1
      <4>1. n \in first..m /\ (n # first => n - 1 \in first..m /\ n - 1 # m + 1 /\ n - 1 \in first..(m + 1))
        BY <3>2
      <4>2. g[n] = IF n = first THEN Header ELSE g[n - 1] + hist[n]
        BY <2>1, <4>1
      <4> QED
        BY <3>2, <4>1, <4>2
    <3> QED
      BY <3>1, <3>2
  <2>3. Upto(f, m + 1)
    <3> HIDE DEF f
    <3>1. f = [n \in first..(m + 1) |-> f[n]]
      BY DEF f
    <3> QED
      BY <2>2, <3>1
  <2>4. m + 1 \in first..last
    BY <1>2
  <2> QED
    BY <2>3, <2>4
<1>3. first..last \subseteq Good
  <2> HIDE DEF Good
  <2> QED
    BY <1>1, <1>2, UpTo
<1> QED
  BY <1>3

Added(first, last) ==
  CHOOSE f : f = [n \in first..last |-> IF n = first THEN Header ELSE f[n - 1] + hist[n]]

LEMMA BytesAre ==
  ASSUME NEW first \in Nat, NEW last \in Nat, first <= last
  PROVE  /\ Bytes(first, last) = Added(first, last)[last]
         /\ \A n \in first..last :
              Added(first, last)[n] =
                IF n = first THEN Header ELSE Added(first, last)[n - 1] + hist[n]
<1>1. Bytes(first, last) = Added(first, last)[last]
  BY DEF Bytes, Added
<1>2. Added(first, last) = [n \in first..last |->
        IF n = first THEN Header ELSE Added(first, last)[n - 1] + hist[n]]
  BY BytesExist DEF Added
<1> QED
  BY <1>1, <1>2

LEMMA BytesType ==
  ASSUME hist \in Seq(Nat), NEW first \in Nat, NEW last \in 0..Len(hist), first <= last
  PROVE  Bytes(first, last) \in Nat
<1> DEFINE S == {n \in first..last : Added(first, last)[n] \in Nat}
<1>1. Len(hist) \in Nat /\ last \in Nat
  OBVIOUS
<1>2. \A n \in first..last :
        Added(first, last)[n] =
          IF n = first THEN Header ELSE Added(first, last)[n - 1] + hist[n]
  BY <1>1, BytesAre
<1>3. first \in S
  BY <1>1, <1>2, SizesAssumption
<1>4. ASSUME NEW n \in first..last, n \in S, n + 1 <= last
      PROVE  n + 1 \in S
  <2>1. /\ n + 1 \in first..last /\ n + 1 # first /\ n + 1 - 1 = n
        /\ n + 1 \in 1..Len(hist)
    BY <1>1, <1>4
  <2>2. hist[n + 1] \in Nat
    BY <2>1
  <2>3. Added(first, last)[n + 1] = Added(first, last)[n] + hist[n + 1]
    BY <1>2, <2>1
  <2> QED
    BY <1>4, <2>1, <2>2, <2>3
<1>5. first..last \subseteq S
  <2> HIDE DEF S
  <2> QED
    BY <1>1, <1>3, <1>4, UpTo
<1> QED
  BY <1>1, <1>5, BytesAre

\* All events of a game but its NEW_GAME are small.
SmallEvents == \A n \in 2..Len(hist) : hist[n] <= EventSize

LEMMA BytesBound ==
  ASSUME hist \in Seq(Nat), SmallEvents,
         NEW first \in Nat \ {0}, NEW last \in 0..Len(hist), first <= last
  PROVE  Bytes(first, last) <= Header + (last - first) * EventSize
<1> DEFINE size(n) == Added(first, last)[n]
           S == {n \in first..last : size(n) \in Nat /\ size(n) <= Header + (n - first) * EventSize}
<1>1. Len(hist) \in Nat /\ last \in Nat /\ Header \in Nat /\ EventSize \in Nat
  BY SizesAssumption, EventsAssumption
<1>2. \A n \in first..last : size(n) = IF n = first THEN Header ELSE size(n - 1) + hist[n]
  BY <1>1, BytesAre
<1>3. first \in S
  <2>1. size(first) = Header
    BY <1>1, <1>2
  <2>2. (first - first) * EventSize = 0
    BY <1>1
  <2> QED
    BY <1>1, <2>1, <2>2
<1>4. ASSUME NEW n \in first..last, n \in S, n + 1 <= last
      PROVE  n + 1 \in S
  <2>1. /\ n + 1 \in first..last /\ n + 1 # first /\ n + 1 - 1 = n
        /\ n + 1 \in 2..Len(hist) /\ n - first \in Nat
    BY <1>1, <1>4
  <2>2. hist[n + 1] \in Nat /\ hist[n + 1] <= EventSize
    BY <2>1 DEF SmallEvents
  <2>3. size(n + 1) = size(n) + hist[n + 1]
    BY <1>2, <2>1
  <2> HIDE DEF size
  <2>4. (n + 1 - first) * EventSize = (n - first) * EventSize + EventSize
    <3>1. \A k \in Nat : (k + 1) * EventSize = k * EventSize + EventSize
      BY <1>1
    <3>2. n + 1 - first = (n - first) + 1
      BY <1>1, <2>1
    <3> QED
      BY <2>1, <3>1, <3>2
  <2>5. (n - first) * EventSize \in Nat
    BY <1>1, <2>1
  <2>6. size(n) \in Nat /\ size(n) <= Header + (n - first) * EventSize
    BY <1>4
  <2> QED
    BY <1>1, <2>1, <2>2, <2>3, <2>4, <2>5, <2>6
<1>5. first..last \subseteq S
  <2> HIDE DEF S
  <2> QED
    BY <1>1, <1>3, <1>4, UpTo
<1>6. size(last) <= Header + (last - first) * EventSize
  <2>1. last \in first..last
    BY <1>1
  <2> QED
    BY <1>5, <2>1
<1> QED
  BY <1>1, <1>6, BytesAre

\* The loop of send() has a result, which is as long as fits.
LEMMA PackedIs ==
  ASSUME hist \in Seq(Nat), NEW m, m.ev_no \in Nat, Goal(m) \in 0..Len(hist)
  PROVE  /\ Packed(m) \in {m.ev_no} \cup (m.ev_no..Goal(m))
         /\ Packed(m) < Goal(m) => Bytes(m.ev_no, Packed(m) + 1) > Cap
<1> DEFINE a == m.ev_no
           b == Goal(m)
           Fits(n) == n > a => Bytes(a, n) <= Cap
           Full(n) == n < b => Bytes(a, n + 1) > Cap
<1>1. Len(hist) \in Nat /\ b \in Nat /\ Cap \in Nat
  BY SizesAssumption
<1> HIDE DEF a, b
<1>2. \E n \in {a} \cup (a..b) : Fits(n) /\ Full(n)
  <2>1. CASE a > b
    BY <1>1, <2>1 DEF a
  <2>2. CASE a <= b
    <3> SUFFICES ASSUME \A n \in a..b : Fits(n) => ~Full(n) PROVE FALSE
      OBVIOUS
    <3> DEFINE S == {n \in a..b : Fits(n)}
    <3>1. a \in S
      BY <1>1, <2>2 DEF a
    <3>2. ASSUME NEW n \in a..b, n \in S, n + 1 <= b PROVE n + 1 \in S
      <4>1. ~ (Bytes(a, n + 1) > Cap)
        BY <3>2
      <4>2. Bytes(a, n + 1) \in Nat
        <5>1. a \in Nat /\ n + 1 \in 0..Len(hist) /\ a <= n + 1
          BY <1>1, <3>2 DEF a, b
        <5> QED
          BY <5>1, BytesType
      <4>3. Bytes(a, n + 1) <= Cap /\ n + 1 \in a..b
        BY <1>1, <3>2, <4>1, <4>2 DEF a
      <4> QED
        BY <4>3
    <3>3. a..b \subseteq S
      <4> HIDE DEF S
      <4> QED
        BY <1>1, <3>1, <3>2, UpTo DEF a
    <3>4. b \in a..b /\ ~ (b < b)
      BY <1>1, <2>2 DEF a
    <3> QED
      BY <3>3, <3>4
  <2> QED
    BY <1>1, <2>1, <2>2 DEF a
<1>3. Packed(m) = CHOOSE n \in {a} \cup (a..b) : Fits(n) /\ Full(n)
  BY DEF Packed, a, b
<1> HIDE DEF Fits
<1>4. Packed(m) \in {a} \cup (a..b) /\ Full(Packed(m))
  BY <1>2, <1>3
<1> QED
  BY <1>4 DEF a, b

-----------------------------------------------------------------------------
(* Broadcasts. *)

\* A message for several clients covers a range of events that is short enough
\* for a datagram, wherever in a game it may be.
Short(m) ==
  /\ m.end # ToTheEnd
  /\ m.end > m.start => m.start > 0 /\ Header + (m.end - m.start) * EventSize <= Cap

LEMMA PackedAll ==
  ASSUME hist \in Seq(Nat), SmallEvents, NEW m, m.start \in Nat, m.ev_no = m.start,
         m.end \in Nat \cup {ToTheEnd}, Short(m), Goal(m) <= Len(hist)
  PROVE  Packed(m) >= Goal(m)
<1>1. /\ m.end \in Nat /\ Goal(m) = m.end /\ Goal(m) \in 0..Len(hist) /\ Len(hist) \in Nat
      /\ Header \in Nat /\ Cap \in Nat /\ EventSize \in Nat
  BY SizesAssumption, EventsAssumption DEF Short, Goal, ToTheEnd
<1>2. /\ Packed(m) \in {m.start} \cup (m.start..m.end)
      /\ Packed(m) < m.end => Bytes(m.start, Packed(m) + 1) > Cap
  BY <1>1, PackedIs
<1> DEFINE n == Packed(m) + 1
<1> SUFFICES ASSUME Packed(m) < m.end PROVE FALSE
  BY <1>1, <1>2
<1>3. /\ m.start \in Nat \ {0} /\ n \in 0..Len(hist) /\ m.start <= n /\ n <= m.end
      /\ Header + (m.end - m.start) * EventSize <= Cap
  <2>1. Packed(m) \in Nat /\ m.start <= Packed(m)
    BY <1>1, <1>2
  <2>2. m.end > m.start
    BY <1>1, <2>1
  <2>3. m.start > 0 /\ Header + (m.end - m.start) * EventSize <= Cap
    BY <2>2 DEF Short
  <2>4. m.end <= Len(hist)
    BY <1>1
  <2> QED
    BY <1>1, <2>1, <2>3, <2>4
<1>4. Bytes(m.start, n) <= Header + (n - m.start) * EventSize /\ Bytes(m.start, n) \in Nat
  BY <1>3, BytesBound, BytesType
<1>5. (n - m.start) * EventSize <= (m.end - m.start) * EventSize
  <2>1. \A j, k \in Nat : j <= k => j * EventSize <= k * EventSize
    BY <1>1
  <2>2. n - m.start \in Nat /\ m.end - m.start \in Nat /\ n - m.start <= m.end - m.start
    BY <1>1, <1>3
  <2> QED
    BY <2>1, <2>2
<1>6. (n - m.start) * EventSize \in Nat /\ (m.end - m.start) * EventSize \in Nat
  BY <1>1, <1>3
<1> QED
  BY <1>1, <1>2, <1>3, <1>4, <1>5, <1>6

\* Recipients in the order of their keys, the last one first.
Place(S, c) == Cardinality({d \in S : d > c})

LEMMA PlacesDiffer ==
  ASSUME NEW S \in SUBSET Clients, IsFiniteSet(S)
  PROVE  /\ \A c \in S : Place(S, c) \in 0..(Cardinality(S) - 1)
         /\ \A c, d \in S : Place(S, c) = Place(S, d) => c = d
<1> DEFINE above(c) == {d \in S : d > c}
<1>1. Cardinality(S) \in Nat /\ \A c \in S : c \in Nat
  BY FS_CardinalityType, ClientsAssumption
<1>2. ASSUME NEW c \in S
      PROVE  /\ IsFiniteSet(above(c)) /\ Place(S, c) \in Nat
             /\ Place(S, c) <= Cardinality(S) - 1
  <2>1. above(c) \in SUBSET S /\ above(c) # S
    BY <1>1
  <2>2. /\ IsFiniteSet(above(c)) /\ Cardinality(above(c)) \in Nat
        /\ Cardinality(above(c)) <= Cardinality(S) /\ Cardinality(above(c)) # Cardinality(S)
    BY <2>1, FS_Subset, FS_CardinalityType
  <2>3. Place(S, c) = Cardinality(above(c))
    BY DEF Place
  <2> HIDE DEF above
  <2> QED
    BY <1>1, <2>2, <2>3
<1>3. ASSUME NEW c \in S, NEW d \in S, c < d
      PROVE  Place(S, c) # Place(S, d)
  <2>1. above(d) \in SUBSET above(c) /\ d \in above(c) /\ d \notin above(d)
    BY <1>1, <1>3
  <2>2. Cardinality(above(d)) # Cardinality(above(c))
    BY <1>2, <2>1, FS_Subset
  <2> QED
    BY <2>2 DEF Place
<1>4. ASSUME NEW c \in S, NEW d \in S, c # d
      PROVE  Place(S, c) # Place(S, d)
  <2>1. c < d \/ d < c
    BY <1>1, <1>4
  <2> QED
    BY <1>3, <2>1
<1> HIDE DEF above
<1> QED
  BY <1>1, <1>2, <1>4

\* A broadcast goes to every connected client, once.
LEMMA PushedIs ==
  ASSUME NEW S \in SUBSET Clients, IsFiniteSet(S)
  PROVE  /\ Pushed(S) \in Seq(S)
         /\ \A c \in S : \E n \in 1..Len(Pushed(S)) : Pushed(S)[n] = c
<1> DEFINE size == Cardinality(S)
           places == 0..(size - 1)
           f == [c \in S |-> Place(S, c)]
<1>1. size \in Nat
  BY FS_CardinalityType
<1>2. \A n \in 1..size : Pushed(S)[n] = CHOOSE c \in S : Place(S, c) = n - 1
  BY DEF Pushed, Place
<1>3. Pushed(S) = [n \in 1..size |-> CHOOSE c \in S : Place(S, c) = n - 1]
  BY DEF Pushed, Place
<1>5. ASSUME NEW n \in 1..size PROVE \E c \in S : Place(S, c) = n - 1
  <2>1. IsFiniteSet(places) /\ Cardinality(places) = size
    <3>1. size - 1 \in Int
      BY <1>1
    <3> HIDE DEF size
    <3>2. /\ IsFiniteSet(0..(size - 1))
          /\ Cardinality(0..(size - 1)) = IF 0 > size - 1 THEN 0 ELSE (size - 1) - 0 + 1
      BY <3>1, FS_Interval
    <3> QED
      BY <1>1, <3>2
  <2>2. f \in [S -> places] /\ \A c, d \in S : f[c] = f[d] => c = d
    BY PlacesDiffer
  <2>3. n - 1 \in places
    BY <1>1
  <2> HIDE DEF places, f
  <2>4. f \in Injection(S, places)
    BY <2>2, Fun_IsInj
  <2>5. f \in Surjection(S, places)
    BY <2>1, <2>4, FS_Injection
  <2>6. PICK c \in S : f[c] = n - 1
    BY <2>3, <2>5 DEF Surjection
  <2> QED
    BY <2>6 DEF f
<1> HIDE DEF size
<1>6. \A n \in 1..size : Pushed(S)[n] \in S
  BY <1>2, <1>5
<1>7. Pushed(S) \in Seq(S) /\ Len(Pushed(S)) = size
  <2>1. Pushed(S) \in [1..size -> S]
    BY <1>3, <1>5
  <2> QED
    BY <1>1, <2>1
<1>8. ASSUME NEW c \in S PROVE \E n \in 1..size : Pushed(S)[n] = c
  <2> DEFINE n == Place(S, c) + 1
  <2>1. n \in 1..size /\ n - 1 = Place(S, c)
    BY <1>1, PlacesDiffer DEF size
  <2>2. Pushed(S)[n] = c
    BY <1>2, <2>1, PlacesDiffer
  <2> QED
    BY <2>1, <2>2
<1> QED
  BY <1>7, <1>8

\* From the first recipient on that is still there.
LEMMA RemainingIs ==
  ASSUME NEW m, m.to \in Seq(Clients)
  PROVE  LET r == Remaining(m)
         IN  /\ r \in Seq(Clients) /\ Len(r) <= Len(m.to)
             /\ r # <<>> => r[1] \in connected
             /\ \A k \in 1..Len(m.to) : m.to[k] \in connected =>
                  \E j \in 1..Len(r) : r[j] = m.to[k]
<1> DEFINE present == {n \in 1..Len(m.to) : m.to[n] \in connected}
           first == CHOOSE n \in present : \A k \in present : n <= k
<1>1. Len(m.to) \in Nat /\ present \in SUBSET Nat
  OBVIOUS
<1>2. CASE present = {}
  <2>1. Remaining(m) = <<>>
    BY <1>2 DEF Remaining
  <2> QED
    BY <1>1, <1>2, <2>1
<1>3. CASE present # {}
  <2> DEFINE r == SubSeq(m.to, first, Len(m.to))
  <2>1. Remaining(m) = r
    BY <1>3 DEF Remaining
  <2> HIDE DEF present
  <2>2. first \in present /\ \A k \in present : first <= k
    BY <1>1, <1>3, Least
  <2>3. first \in 1..Len(m.to) /\ m.to[first] \in connected
    BY <2>2 DEF present
  <2> HIDE DEF first
  <2>4. /\ r \in Seq(Clients) /\ Len(r) = Len(m.to) - first + 1
        /\ \A j \in 1..Len(r) : r[j] = m.to[first + j - 1]
    BY <1>1, <2>3
  <2> HIDE DEF r
  <2>5. 1 \in 1..Len(r) /\ first + 1 - 1 = first
    BY <1>1, <2>3, <2>4
  <2>6. ASSUME NEW k \in 1..Len(m.to), m.to[k] \in connected
        PROVE  \E j \in 1..Len(r) : r[j] = m.to[k]
    <3>1. first <= k
      BY <2>2, <2>6 DEF present
    <3>2. k - first + 1 \in 1..Len(r) /\ first + (k - first + 1) - 1 = k
      BY <1>1, <2>3, <2>4, <3>1
    <3> QED
      BY <2>4, <3>2
  <2>7. Len(r) <= Len(m.to) /\ r[1] \in connected
    BY <1>1, <2>3, <2>4, <2>5
  <2> QED
    BY <2>1, <2>4, <2>6, <2>7
<1> QED
  BY <1>2, <1>3

-----------------------------------------------------------------------------
(* The queue. *)

Messages == [to : Seq(Clients), ev_no : Nat, start : Nat, end : Nat \cup {ToTheEnd}]

\* The types of the queue and what it sends; and whoever has left, or blocked, a
\* message for several clients stands where it began.
QueueInv ==
  /\ q \in Seq(Messages) /\ aborted \in BOOLEAN
  /\ hist \in Seq(Nat) /\ SmallEvents
  /\ connected \in SUBSET Clients /\ IsFiniteSet(connected)
  /\ \A n \in 1..Len(q) : Len(q[n].to) > 1 => q[n].ev_no = q[n].start /\ Short(q[n])

LEMMA FrontFacts ==
  ASSUME QueueInv, q # <<>>, GoalExists(Front)
  PROVE  /\ Front = q[1] /\ Front \in Messages /\ 1 \in 1..Len(q)
         /\ Goal(Front) \in 0..Len(hist) /\ Len(hist) \in Nat
         /\ Packed(Front) \in Nat /\ Front.ev_no <= Packed(Front)
         /\ Len(Front.to) > 1 => Front.ev_no = Front.start /\ Packed(Front) >= Goal(Front)
<1>1. q \in Seq(Messages) /\ hist \in Seq(Nat)
  BY DEF QueueInv
<1>2. Front = q[1] /\ 1 \in 1..Len(q) /\ Front \in Messages /\ Len(hist) \in Nat
  BY <1>1 DEF Front
<1>3. Front.ev_no \in Nat /\ Front.start \in Nat /\ Front.end \in Nat \cup {ToTheEnd}
  BY <1>2 DEF Messages
<1>4. Goal(Front) \in 0..Len(hist)
  BY <1>2, <1>3 DEF GoalExists, Goal
<1>5. Packed(Front) \in {Front.ev_no} \cup (Front.ev_no..Goal(Front))
  BY <1>1, <1>3, <1>4, PackedIs
<1>6. Len(Front.to) > 1 => Front.ev_no = Front.start /\ Short(Front)
  BY <1>2 DEF QueueInv
<1>7. Len(Front.to) > 1 => Packed(Front) >= Goal(Front)
  BY <1>1, <1>3, <1>6, PackedAll DEF QueueInv, GoalExists
<1> QED
  BY <1>2, <1>3, <1>4, <1>5, <1>6, <1>7

\* What a call of send() makes of the front message.
LEMMA AdvancedIs ==
  ASSUME QueueInv, NEW outcome, Send(outcome)
  PROVE  LET a == Advanced(outcome)
             to == Remaining(Front)
         IN  /\ a \in Messages /\ a.start = Front.start /\ a.end = Front.end
             /\ q' = IF a.to = <<>> THEN Tail(q) ELSE <<a>> \o Tail(q)
             /\ \/ to = <<>> /\ a.to = <<>>
                \/ /\ to # <<>> /\ After(Front, outcome) >= Goal(Front)
                   /\ a.to = Tail(to) /\ a.ev_no = Front.start
                \/ /\ to # <<>> /\ After(Front, outcome) < Goal(Front)
                   /\ a.to = to /\ a.ev_no = After(Front, outcome)
<1> DEFINE a == Advanced(outcome)
           to == Remaining(Front)
           after == After(Front, outcome)
<1>1. q # <<>> /\ GoalExists(Front) /\ q' = IF a.to = <<>> THEN Tail(q) ELSE <<a>> \o Tail(q)
  BY DEF Send
<1>2. /\ Front \in Messages /\ Goal(Front) \in Nat
      /\ Packed(Front) \in Nat
  BY <1>1, FrontFacts
<1>3. Front.to \in Seq(Clients) /\ Front.ev_no \in Nat /\ Front.start \in Nat
  BY <1>2 DEF Messages
<1>4. to \in Seq(Clients) /\ (to # <<>> => Tail(to) \in Seq(Clients))
  BY <1>3, RemainingIs
<1>5. after \in Nat
  BY <1>2, <1>3 DEF After
<1>6. a = IF to = <<>> THEN [Front EXCEPT !.to = <<>>]
          ELSE IF after >= Goal(Front) THEN [Front EXCEPT !.to = Tail(to), !.ev_no = Front.start]
          ELSE [Front EXCEPT !.to = to, !.ev_no = after]
  BY DEF Advanced
<1> HIDE DEF a, to, after
<1>7. CASE to = <<>>
  <2>1. a = [Front EXCEPT !.to = <<>>]
    BY <1>6, <1>7
  <2>2. a \in Messages /\ a.to = <<>> /\ a.start = Front.start /\ a.end = Front.end
    <3>1. <<>> \in Seq(Clients)
      OBVIOUS
    <3> QED
      BY <1>2, <2>1, <3>1 DEF Messages
  <2> QED
    BY <1>1, <1>7, <2>2 DEF a, to
<1>8. CASE to # <<>> /\ after >= Goal(Front)
  <2>1. a = [Front EXCEPT !.to = Tail(to), !.ev_no = Front.start]
    BY <1>6, <1>8
  <2> QED
    BY <1>1, <1>2, <1>3, <1>4, <1>8, <2>1 DEF Messages, a, to, after
<1>9. CASE to # <<>> /\ after < Goal(Front)
  <2>1. a = [Front EXCEPT !.to = to, !.ev_no = after]
    BY <1>2, <1>5, <1>6, <1>9
  <2> QED
    BY <1>1, <1>2, <1>4, <1>5, <1>9, <2>1 DEF Messages, a, to, after
<1> QED
  BY <1>2, <1>5, <1>7, <1>8, <1>9

LEMMA QueueAfterSend ==
  ASSUME QueueInv, NEW outcome, Send(outcome)
  PROVE  LET a == Advanced(outcome)
         IN  /\ q' \in Seq(Messages)
             /\ a.to = <<>> => /\ Len(q') = Len(q) - 1
                               /\ \A n \in 1..Len(q') : q'[n] = q[n + 1]
             /\ a.to # <<>> => /\ Len(q') = Len(q) /\ q'[1] = a
                               /\ \A n \in 2..Len(q') : q'[n] = q[n]
<1> DEFINE a == Advanced(outcome)
<1>1. q \in Seq(Messages) /\ q # <<>> /\ a \in Messages
  BY AdvancedIs DEF QueueInv, Send
<1>2. q' = IF a.to = <<>> THEN Tail(q) ELSE <<a>> \o Tail(q)
  BY DEF Send
<1> HIDE DEF a
<1>3. /\ Len(q) \in Nat \ {0} /\ Tail(q) \in Seq(Messages) /\ Len(Tail(q)) = Len(q) - 1
      /\ \A n \in 1..(Len(q) - 1) : Tail(q)[n] = q[n + 1]
  BY <1>1
<1>4. <<a>> \in Seq(Messages) /\ Len(<<a>>) = 1 /\ <<a>>[1] = a
  BY <1>1
<1>5. LET t == <<a>> \o Tail(q)
      IN  /\ t \in Seq(Messages) /\ Len(t) = Len(q) /\ t[1] = a
          /\ \A n \in 2..Len(q) : t[n] = q[n]
  <2> DEFINE t == <<a>> \o Tail(q)
  <2>1. t \in Seq(Messages) /\ Len(t) = Len(q) /\ t[1] = a
    BY <1>3, <1>4
  <2>2. ASSUME NEW n \in 2..Len(q) PROVE t[n] = q[n]
    <3>1. n - 1 \in 1..(Len(q) - 1) /\ n - 1 + 1 = n
      BY <1>3
    <3>2. t[n] = Tail(q)[n - 1]
      BY <1>3, <1>4, <3>1
    <3> QED
      BY <1>3, <3>1, <3>2
  <2> QED
    BY <2>1, <2>2
<1>6. CASE a.to = <<>>
  BY <1>2, <1>3, <1>6 DEF a
<1>7. CASE a.to # <<>>
  BY <1>2, <1>5, <1>7 DEF a
<1> QED
  BY <1>6, <1>7

\* A message that is put into the queue.
LEMMA QueueAfterAppend ==
  ASSUME QueueInv, NEW m \in Messages, Len(m.to) > 1 => m.ev_no = m.start /\ Short(m),
         q' = Append(q, m)
  PROVE  /\ q' \in Seq(Messages) /\ Len(q') = Len(q) + 1 /\ Len(q) \in Nat
         /\ q'[Len(q) + 1] = m /\ \A n \in 1..Len(q) : q'[n] = q[n]
         /\ \A n \in 1..Len(q') : Len(q'[n].to) > 1 => q'[n].ev_no = q'[n].start /\ Short(q'[n])
<1>1. q \in Seq(Messages) /\ Len(q) \in Nat
  BY DEF QueueInv
<1>2. /\ q' \in Seq(Messages) /\ Len(q') = Len(q) + 1 /\ q'[Len(q) + 1] = m
      /\ \A n \in 1..Len(q) : q'[n] = q[n]
  BY <1>1
<1>3. \A n \in 1..Len(q') : n \in 1..Len(q) \/ n = Len(q) + 1
  BY <1>1, <1>2
<1> QED
  BY <1>1, <1>2, <1>3 DEF QueueInv

\* A call of send().
LEMMA QueueKeptBySend ==
  ASSUME QueueInv, NEW outcome, Send(outcome), UNCHANGED <<hist, connected, aborted>>
  PROVE  QueueInv'
<1> DEFINE a == Advanced(outcome)
           to == Remaining(Front)
<1>1. Send(outcome) /\ UNCHANGED <<hist, connected, aborted>>
  OBVIOUS
<1>2. q # <<>> /\ GoalExists(Front)
  BY <1>1 DEF Send
<1>3. Len(a.to) > 1 => a.ev_no = a.start /\ Short(a)
  <2> SUFFICES ASSUME Len(a.to) > 1 PROVE a.ev_no = a.start /\ Short(a)
    OBVIOUS
  <2>1. /\ a.start = Front.start /\ a.end = Front.end
        /\ \/ to = <<>> /\ a.to = <<>>
           \/ to # <<>> /\ a.to = Tail(to) /\ a.ev_no = Front.start
           \/ /\ to # <<>> /\ After(Front, outcome) < Goal(Front)
              /\ a.to = to /\ a.ev_no = After(Front, outcome)
    BY <1>1, AdvancedIs
  <2>2. /\ Front \in Messages /\ Front = q[1] /\ 1 \in 1..Len(q)
        /\ Goal(Front) \in Nat /\ Packed(Front) \in Nat
        /\ Len(Front.to) > 1 => Front.ev_no = Front.start /\ Packed(Front) >= Goal(Front)
    BY <1>2, FrontFacts
  <2>3. Front.to \in Seq(Clients) /\ Len(Front.to) \in Nat
    BY <2>2 DEF Messages
  <2>4. to \in Seq(Clients) /\ Len(to) <= Len(Front.to) /\ Len(to) \in Nat
    BY <2>3, RemainingIs
  <2> HIDE DEF a, to
  <2>5. Len(Front.to) > 1
    <3>1. to # <<>> => Len(Tail(to)) = Len(to) - 1
      BY <2>4
    <3>2. a.to # <<>>
      OBVIOUS
    <3>3. Len(to) > 1
      BY <2>1, <2>4, <3>1, <3>2
    <3> QED
      BY <2>3, <2>4, <3>3
  <2>6. Front.ev_no = Front.start /\ Short(Front) /\ Packed(Front) >= Goal(Front)
    BY <2>2, <2>5 DEF QueueInv
  <2>7. a.ev_no = Front.start
    <3>1. After(Front, outcome) < Goal(Front) => After(Front, outcome) = Front.ev_no
      BY <2>2, <2>6 DEF After
    <3>2. a.to # <<>>
      OBVIOUS
    <3> QED
      BY <2>1, <2>6, <3>1, <3>2
  <2> QED
    BY <2>1, <2>6, <2>7 DEF Short
<1>4. \A n \in 1..Len(q') : Len(q'[n].to) > 1 => q'[n].ev_no = q'[n].start /\ Short(q'[n])
  <2>1. /\ q' \in Seq(Messages)
        /\ a.to = <<>> => /\ Len(q') = Len(q) - 1
                          /\ \A n \in 1..Len(q') : q'[n] = q[n + 1]
        /\ a.to # <<>> => /\ Len(q') = Len(q) /\ q'[1] = a
                          /\ \A n \in 2..Len(q') : q'[n] = q[n]
    BY <1>1, QueueAfterSend
  <2> HIDE DEF a
  <2>2. Len(q) \in Nat /\ Len(q') \in Nat
    BY <2>1 DEF QueueInv
  <2> SUFFICES ASSUME NEW n \in 1..Len(q'), Len(q'[n].to) > 1
               PROVE  q'[n].ev_no = q'[n].start /\ Short(q'[n])
    OBVIOUS
  <2>3. CASE a.to = <<>>
    <3>1. n + 1 \in 1..Len(q) /\ q'[n] = q[n + 1]
      BY <2>1, <2>2, <2>3
    <3> QED
      BY <3>1 DEF QueueInv
  <2>4. CASE a.to # <<>> /\ n = 1
    BY <1>3, <2>1, <2>4
  <2>5. CASE a.to # <<>> /\ n # 1
    <3>1. n \in 2..Len(q') /\ n \in 1..Len(q)
      BY <2>1, <2>2, <2>5
    <3> QED
      BY <2>1, <2>5, <3>1 DEF QueueInv
  <2> QED
    BY <2>3, <2>4, <2>5
<1>5. q' \in Seq(Messages)
  BY <1>1, QueueAfterSend
<1> HIDE DEF a
<1> QED
  BY <1>1, <1>4, <1>5 DEF QueueInv, SmallEvents

LEMMA BroadcastIs ==
  ASSUME QueueInv, NEW start \in Nat, NEW end \in Nat,
         end > start => start > 0 /\ Header + (end - start) * EventSize <= Cap
  PROVE  LET m == Message(Pushed(connected), start, end)
         IN  m \in Messages /\ m.ev_no = m.start /\ Short(m)
<1>1. Pushed(connected) \in Seq(connected) /\ connected \subseteq Clients
  BY PushedIs DEF QueueInv
<1>2. Pushed(connected) \in Seq(Clients)
  BY <1>1
<1> QED
  BY <1>2 DEF Message, Messages, Short, ToTheEnd

LEMMA QueueInit == DeliveryInit => QueueInv
<1> SUFFICES ASSUME DeliveryInit PROVE QueueInv
  OBVIOUS
<1>1. q = <<>> /\ hist = <<>> /\ connected = {} /\ aborted = FALSE
  BY DEF DeliveryInit
<1>2. q \in Seq(Messages) /\ hist \in Seq(Nat) /\ Len(q) = 0 /\ Len(hist) = 0
  BY <1>1
<1>3. IsFiniteSet({})
  BY FS_EmptySet
<1>4. \A n \in 1..Len(q) : FALSE
  BY <1>2
<1>5. \A n \in 2..Len(hist) : FALSE
  BY <1>2
<1> QED
  BY <1>1, <1>2, <1>3, <1>4, <1>5 DEF QueueInv, SmallEvents

LEMMA QueueStep ==
  ASSUME QueueInv, [DeliveryNext]_deliveryVars
  PROVE  QueueInv'
<1>1. /\ q \in Seq(Messages) /\ hist \in Seq(Nat) /\ Len(hist) \in Nat
      /\ connected \in SUBSET Clients /\ IsFiniteSet(connected)
  BY DEF QueueInv
<1>2. ASSUME NEW c \in Clients, Connect(c) PROVE QueueInv'
  <2>1. IsFiniteSet(connected') /\ connected' \in SUBSET Clients
    BY <1>1, <1>2, FS_AddElement DEF Connect
  <2> QED
    BY <1>2, <2>1 DEF Connect, QueueInv, SmallEvents
<1>3. ASSUME NEW c \in Clients, Disconnect(c) PROVE QueueInv'
  <2>1. IsFiniteSet(connected') /\ connected' \in SUBSET Clients
    BY <1>1, <1>3, FS_RemoveElement DEF Disconnect
  <2> QED
    BY <1>3, <2>1 DEF Disconnect, QueueInv, SmallEvents
<1>4. ASSUME NEW c \in Clients, NEW ev_no \in AskFrom, Ask(c, ev_no) PROVE QueueInv'
  <2> DEFINE m == Message(<<c>>, ev_no, ToTheEnd)
  <2>1. <<c>> \in Seq(Clients) /\ Len(<<c>>) = 1 /\ ev_no \in Nat
    BY AskAssumption
  <2>2. m \in Messages /\ m.to = <<c>>
    BY <2>1 DEF Message, Messages
  <2>3. q' = Append(q, m)
    BY <1>4 DEF Ask, AddMsg
  <2> HIDE DEF m
  <2>4. ~ (Len(m.to) > 1)
    BY <2>1, <2>2
  <2>5. /\ q' \in Seq(Messages)
        /\ \A n \in 1..Len(q') : Len(q'[n].to) > 1 => q'[n].ev_no = q'[n].start /\ Short(q'[n])
    BY <2>2, <2>3, <2>4, QueueAfterAppend
  <2> QED
    BY <1>4, <2>5 DEF Ask, QueueInv, SmallEvents
<1>5. ASSUME NEW sizes \in Rounds, PlayRound(sizes) PROVE QueueInv'
  <2> DEFINE m == Message(Pushed(connected), Len(hist), Len(hist) + Len(sizes))
  <2>1. /\ sizes \in Seq(0..EventSize) /\ Len(sizes) \in Nat \ {0}
        /\ Header + Len(sizes) * EventSize <= Cap /\ EventSize \in Nat
    BY EventsAssumption, RoundFits
  <2>2. hist # <<>> /\ hist' = hist \o sizes /\ q' = Append(q, m) /\ UNCHANGED <<connected, aborted>>
    BY <1>5 DEF PlayRound, AddBroadcast
  <2>3. m \in Messages /\ m.ev_no = m.start /\ Short(m)
    <3> DEFINE end == Len(hist) + Len(sizes)
    <3>1. Len(hist) > 0 /\ end \in Nat /\ end - Len(hist) = Len(sizes)
      BY <1>1, <2>1, <2>2
    <3>2. m = Message(Pushed(connected), Len(hist), end)
      OBVIOUS
    <3> HIDE DEF m, end
    <3>3. Header + (end - Len(hist)) * EventSize <= Cap
      BY <2>1, <3>1
    <3> QED
      BY <1>1, <3>1, <3>2, <3>3, BroadcastIs
  <2>4. hist' \in Seq(Nat) /\ SmallEvents'
    <3>1. sizes \in Seq(Nat) /\ \A n \in 1..Len(sizes) : sizes[n] <= EventSize
      BY <2>1
    <3>2. hist' \in Seq(Nat) /\ Len(hist') = Len(hist) + Len(sizes)
      BY <1>1, <2>2, <3>1
    <3>3. ASSUME NEW n \in 2..Len(hist') PROVE hist'[n] <= EventSize
      <4>1. CASE n <= Len(hist)
        <5>1. n \in 2..Len(hist) /\ hist'[n] = hist[n]
          BY <1>1, <2>2, <3>1, <4>1
        <5> QED
          BY <5>1 DEF QueueInv, SmallEvents
      <4>2. CASE n > Len(hist)
        <5>1. n - Len(hist) \in 1..Len(sizes) /\ hist'[n] = sizes[n - Len(hist)]
          BY <1>1, <2>2, <3>1, <3>2, <4>2
        <5> QED
          BY <3>1, <5>1
      <4> QED
        BY <1>1, <4>1, <4>2
    <3> QED
      BY <3>2, <3>3 DEF SmallEvents
  <2> HIDE DEF m
  <2> QED
    BY <2>2, <2>3, <2>4, QueueAfterAppend DEF QueueInv
<1>6. ASSUME NEW sizes \in Openings, NewGame(sizes) PROVE QueueInv'
  <2> DEFINE m == Message(Pushed(connected), Len(sizes), Len(sizes))
  <2>1. /\ sizes \in Seq(Nat) /\ Len(sizes) \in Nat
        /\ \A n \in 2..Len(sizes) : sizes[n] <= EventSize
    BY EventsAssumption
  <2>2. hist' = sizes /\ q' = Append(q, m) /\ UNCHANGED <<connected, aborted>>
    BY <1>6 DEF NewGame, AddBroadcast
  <2>3. m \in Messages /\ m.ev_no = m.start /\ Short(m)
    <3>1. ~ (Len(sizes) > Len(sizes))
      BY <2>1
    <3> QED
      BY <2>1, <3>1, BroadcastIs
  <2> HIDE DEF m
  <2> QED
    BY <2>1, <2>2, <2>3, QueueAfterAppend DEF QueueInv, SmallEvents
<1>7. ASSUME NEW outcome \in Outcomes, Deliver(outcome) PROVE QueueInv'
  BY <1>7, QueueKeptBySend DEF Deliver
<1>8. CASE Abort
  BY <1>8 DEF Abort, QueueInv, SmallEvents
<1>9. CASE UNCHANGED deliveryVars
  BY <1>9 DEF deliveryVars, QueueInv, SmallEvents
<1> QED
  BY <1>2, <1>3, <1>4, <1>5, <1>6, <1>7, <1>8, <1>9 DEF DeliveryNext

LEMMA QueueAlways == DeliverySpec => []QueueInv
  BY QueueInit, QueueStep, PTL DEF DeliverySpec

\* However clients leave and datagrams block, a message for several clients is
\* never left in its middle: its range of events fits in a datagram, even when
\* it has outlived the game that it was about.
THEOREM BroadcastsWhole == DeliverySpec => []BroadcastNeverHalfSent
<1>1. QueueInv => BroadcastNeverHalfSent
  BY DEF QueueInv, BroadcastNeverHalfSent
<1> QED
  BY <1>1, QueueAlways, PTL

THEOREM DeliveryTypeCorrect == DeliverySpec => []DeliveryTypeOK
<1>1. QueueInv => DeliveryTypeOK
  <2> SUFFICES ASSUME QueueInv PROVE DeliveryTypeOK
    OBVIOUS
  <2>1. \A n \in 1..Len(q) : q[n] \in Messages
    BY DEF QueueInv
  <2> QED
    BY <2>1 DEF QueueInv, DeliveryTypeOK, Messages
<1> QED
  BY <1>1, QueueAlways, PTL

-----------------------------------------------------------------------------
(* What clients are due. *)

\* A client that is not connected is due nothing, so that nothing is missing
\* when it comes.
DueInv ==
  /\ due \in [Clients -> SUBSET Int] /\ got \in [Clients -> SUBSET Int]
  /\ \A c \in Clients \ connected : due[c] = {}
  /\ NothingLost

\* In a history of len events, message m will send event e to c.
GoalIn(m, len) == IF m.end = ToTheEnd THEN len ELSE m.end
Brings(m, c, e, len) ==
  (\E k \in 1..Len(m.to) : m.to[k] = c) /\ m.ev_no <= e /\ e < GoalIn(m, len)

LEMMA OnItsWayIs ==
  ASSUME NEW c, NEW e
  PROVE  /\ OnItsWay(c, e) <=> \E n \in 1..Len(q) : Brings(q[n], c, e, Len(hist))
         /\ OnItsWay(c, e)' <=> \E n \in 1..Len(q') : Brings(q'[n], c, e, Len(hist'))
  BY DEF OnItsWay, Brings, Goal, GoalIn

\* A message that is appended disturbs none that was there, and a history that
\* grows brings no goal nearer.
LEMMA AppendKeeps ==
  ASSUME QueueInv, NEW m \in Messages, Len(m.to) > 1 => m.ev_no = m.start /\ Short(m),
         q' = Append(q, m), Len(hist') \in Nat, Len(hist) <= Len(hist'),
         NEW c, NEW e \in Int, OnItsWay(c, e)
  PROVE  OnItsWay(c, e)'
<1>1. /\ \A n \in 1..Len(q) : q'[n] = q[n]
      /\ Len(q') = Len(q) + 1 /\ Len(q) \in Nat
  BY QueueAfterAppend
<1>2. PICK n \in 1..Len(q) : Brings(q[n], c, e, Len(hist))
  BY OnItsWayIs
<1>3. q[n] \in Messages /\ q'[n] = q[n] /\ n \in 1..Len(q')
  BY <1>1, <1>2 DEF QueueInv
<1>4. e < GoalIn(q[n], Len(hist'))
  <2>1. Len(hist) \in Nat /\ (q[n].end = ToTheEnd \/ q[n].end \in Nat)
    BY <1>3 DEF QueueInv, Messages
  <2> QED
    BY <1>2, <2>1 DEF Brings, GoalIn
<1> QED
  BY <1>2, <1>3, <1>4, OnItsWayIs DEF Brings

\* After a call of send() the front message still brings an event, or the call
\* has sent it or given it up.
LEMMA FrontKeeps ==
  ASSUME QueueInv, NEW outcome \in Outcomes, Send(outcome), UNCHANGED hist,
         NEW c \in connected, NEW e \in Int, Brings(Front, c, e, Len(hist)),
         ~ OnItsWay(c, e)'
  PROVE  Sends /\ Recipient = c /\ e \in Datagram /\ outcome # "blocked"
<1> DEFINE a == Advanced(outcome)
           to == Remaining(Front)
           after == After(Front, outcome)
           goal == Goal(Front)
<1>1. q # <<>> /\ GoalExists(Front)
  BY DEF Send
<1>2. /\ Front \in Messages /\ goal \in Nat /\ Packed(Front) \in Nat
      /\ Front.ev_no <= Packed(Front)
      /\ Len(Front.to) > 1 => Front.ev_no = Front.start /\ Packed(Front) >= goal
  BY <1>1, FrontFacts
<1>3. Front.to \in Seq(Clients) /\ Len(Front.to) \in Nat /\ Front.ev_no \in Nat
  BY <1>2 DEF Messages
<1>4. /\ to \in Seq(Clients) /\ Len(to) <= Len(Front.to) /\ Len(to) \in Nat
      /\ \A k \in 1..Len(Front.to) : Front.to[k] \in connected =>
           \E j \in 1..Len(to) : to[j] = Front.to[k]
  BY <1>3, RemainingIs
<1>5. PICK j \in 1..Len(to) : to[j] = c
  BY <1>4 DEF Brings
<1>6. /\ a.start = Front.start /\ a.end = Front.end
      /\ \/ to = <<>> /\ a.to = <<>>
         \/ to # <<>> /\ after >= goal /\ a.to = Tail(to) /\ a.ev_no = Front.start
         \/ to # <<>> /\ after < goal /\ a.to = to /\ a.ev_no = after
  BY AdvancedIs
<1>7. a.to # <<>> => q'[1] = a /\ 1 \in 1..Len(q')
  <2>1. a.to # <<>> => Len(q') = Len(q) /\ q'[1] = a
    BY QueueAfterSend
  <2>2. 1 \in 1..Len(q)
    BY <1>1, FrontFacts
  <2> QED
    BY <2>1, <2>2
<1>8. after = (IF outcome = "blocked" THEN Front.ev_no ELSE Packed(Front))
  BY DEF After
<1>9. Front.ev_no <= e /\ e < goal /\ GoalIn(Front, Len(hist)) = goal
  BY DEF Brings, Goal, GoalIn
<1> HIDE DEF a, to, after, goal
<1>10. GoalIn(a, Len(hist')) = goal
  BY <1>6, <1>9 DEF GoalIn
<1>11. a.to # <<>> => ~ ((\E k \in 1..Len(a.to) : a.to[k] = c) /\ a.ev_no <= e)
  <2>1. a.to # <<>> => ~ Brings(a, c, e, Len(hist'))
    BY <1>7, OnItsWayIs
  <2> QED
    BY <1>9, <1>10, <2>1 DEF Brings
<1>12. to # <<>> /\ 1 \in 1..Len(to) /\ Len(to) \in Nat \ {0}
  BY <1>4, <1>5
<1>13. j = 1
  <2> SUFFICES ASSUME j # 1 PROVE FALSE
    OBVIOUS
  <2>1. Len(Front.to) > 1 /\ j - 1 \in 1..(Len(to) - 1) /\ j - 1 + 1 = j
    BY <1>3, <1>4, <1>5
  <2>2. Front.ev_no = Front.start /\ Packed(Front) >= goal
    BY <1>2, <2>1
  <2>3. CASE a.to = Tail(to) /\ a.ev_no = Front.start
    <3>1. Len(Tail(to)) = Len(to) - 1 /\ Tail(to)[j - 1] = to[j]
      BY <1>4, <1>12, <2>1
    <3>2. j - 1 \in 1..Len(Tail(to))
      BY <2>1, <3>1
    <3>3. Tail(to) # <<>>
      <4>1. Len(Tail(to)) # 0 /\ Len(<<>>) = 0
        BY <1>12, <2>1, <3>1
      <4> QED
        BY <4>1
    <3> QED
      BY <1>5, <1>9, <1>11, <2>1, <2>2, <2>3, <3>1, <3>2, <3>3
  <2>4. CASE after < goal /\ a.to = to /\ a.ev_no = after
    <3>1. after = Front.ev_no
      BY <1>2, <1>8, <2>2, <2>4
    <3> QED
      BY <1>5, <1>9, <1>11, <1>12, <2>4, <3>1
  <2> QED
    BY <1>6, <1>12, <2>3, <2>4
<1>14. e < Packed(Front) /\ outcome # "blocked"
  <2>1. CASE after >= goal
    <3>1. outcome # "blocked"
      BY <1>2, <1>3, <1>8, <1>9, <2>1
    <3> QED
      BY <1>2, <1>3, <1>8, <1>9, <2>1, <3>1
  <2>2. CASE after < goal /\ a.to = to /\ a.ev_no = after
    <3>1. ~ (after <= e)
      BY <1>5, <1>11, <1>12, <2>2
    <3>2. outcome # "blocked"
      BY <1>8, <1>9, <3>1
    <3> QED
      BY <1>2, <1>8, <3>1, <3>2
  <2> QED
    BY <1>6, <1>12, <2>1, <2>2
<1>15. Head(to) = c
  BY <1>4, <1>5, <1>12, <1>13
<1> QED
  BY <1>1, <1>2, <1>3, <1>9, <1>12, <1>14, <1>15 DEF Sends, Recipient, Datagram, to

LEMMA DueInit == DeliveryInit => DueInv
  BY DEF DeliveryInit, DueInv, NothingLost

LEMMA DueStep ==
  ASSUME QueueInv, DueInv, [DeliveryNext]_deliveryVars
  PROVE  DueInv'
<1>1. /\ q \in Seq(Messages) /\ hist \in Seq(Nat) /\ Len(hist) \in Nat
      /\ connected \in SUBSET Clients
      /\ due \in [Clients -> SUBSET Int] /\ got \in [Clients -> SUBSET Int]
  BY DEF QueueInv, DueInv
<1>2. \A c \in connected, e \in Int : e \in due[c] => e \in got[c] \/ OnItsWay(c, e)
  BY DEF DueInv, NothingLost
<1>3. ASSUME NEW c \in Clients, Connect(c) PROVE DueInv'
  <2>1. connected' = connected \cup {c} /\ UNCHANGED <<q, hist, due, got>> /\ due[c] = {}
    BY <1>3 DEF Connect, DueInv
  <2>2. ASSUME NEW d \in connected', NEW e \in due[d] PROVE e \in got[d] \/ OnItsWay(d, e)'
    <3>1. d \in connected
      BY <2>1, <2>2
    <3> QED
      BY <1>1, <1>2, <2>1, <2>2, <3>1, OnItsWayIs
  <2> QED
    BY <2>1, <2>2 DEF DueInv, NothingLost
<1>4. ASSUME NEW c \in Clients, Disconnect(c) PROVE DueInv'
  <2>1. /\ connected' = connected \ {c} /\ UNCHANGED <<q, hist>>
        /\ due' = [due EXCEPT ![c] = {}] /\ got' = [got EXCEPT ![c] = {}]
    BY <1>4 DEF Disconnect
  <2>2. ASSUME NEW d \in connected', NEW e \in due'[d] PROVE e \in got'[d] \/ OnItsWay(d, e)'
    <3>1. d \in connected /\ d # c /\ due'[d] = due[d] /\ got'[d] = got[d]
      BY <1>1, <2>1
    <3> QED
      BY <1>1, <1>2, <2>1, <2>2, <3>1, OnItsWayIs
  <2>3. due' \in [Clients -> SUBSET Int] /\ got' \in [Clients -> SUBSET Int]
    BY <1>1, <2>1
  <2>4. \A d \in Clients \ connected' : due'[d] = {}
    BY <1>1, <2>1 DEF DueInv
  <2> QED
    BY <2>2, <2>3, <2>4 DEF DueInv, NothingLost
<1>5. ASSUME NEW c \in Clients, NEW ev_no \in AskFrom, Ask(c, ev_no) PROVE DueInv'
  <2> DEFINE m == Message(<<c>>, ev_no, ToTheEnd)
             asked == ev_no..(Len(hist) - 1)
  <2>1. /\ c \in connected /\ q' = Append(q, m) /\ UNCHANGED <<hist, connected, got>>
        /\ due' = [due EXCEPT ![c] = @ \cup asked] /\ ev_no \in Nat
    BY <1>5, AskAssumption DEF Ask, AddMsg
  <2>2. <<c>> \in Seq(Clients) /\ Len(<<c>>) = 1 /\ <<c>>[1] = c
    OBVIOUS
  <2>3. m \in Messages /\ m.to = <<c>> /\ m.ev_no = ev_no /\ m.end = ToTheEnd
    BY <2>1, <2>2 DEF Message, Messages
  <2> HIDE DEF m
  <2>4. ~ (Len(m.to) > 1)
    BY <2>2, <2>3
  <2>5. q'[Len(q) + 1] = m /\ Len(q) + 1 \in 1..Len(q')
    <3>1. q'[Len(q) + 1] = m /\ Len(q') = Len(q) + 1 /\ Len(q) \in Nat
      BY <2>1, <2>3, <2>4, QueueAfterAppend
    <3> QED
      BY <3>1
  <2>6. ASSUME NEW d \in connected, NEW e \in due'[d] PROVE e \in got[d] \/ OnItsWay(d, e)'
    <3>1. CASE e \in due[d]
      <4>1. e \in Int /\ Len(hist') = Len(hist) /\ Len(hist) <= Len(hist)
        BY <1>1, <2>1, <3>1
      <4> QED
        BY <1>1, <1>2, <2>1, <2>3, <2>4, <3>1, <4>1, AppendKeeps
    <3>2. CASE e \notin due[d]
      <4>1. d = c /\ e \in asked
        BY <1>1, <2>1, <2>6, <3>2
      <4>2. 1 \in 1..Len(m.to) /\ m.to[1] = c
        BY <2>2, <2>3
      <4>3. Brings(m, c, e, Len(hist'))
        BY <1>1, <2>1, <2>3, <4>1, <4>2 DEF Brings, GoalIn
      <4> QED
        BY <2>5, <4>1, <4>3, OnItsWayIs
    <3> QED
      BY <3>1, <3>2
  <2>7. due' \in [Clients -> SUBSET Int]
    BY <1>1, <2>1
  <2>8. \A d \in Clients \ connected : due'[d] = {}
    BY <2>1 DEF DueInv
  <2> QED
    BY <1>1, <2>1, <2>6, <2>7, <2>8 DEF DueInv, NothingLost
<1>6. ASSUME NEW sizes \in Rounds, PlayRound(sizes) PROVE DueInv'
  <2> DEFINE end == Len(hist) + Len(sizes)
             m == Message(Pushed(connected), Len(hist), end)
  <2>1. /\ sizes \in Seq(Nat) /\ Len(sizes) \in Nat \ {0}
        /\ Header + Len(sizes) * EventSize <= Cap
    <3>1. EventSize \in Nat /\ sizes \in Seq(0..EventSize)
      BY EventsAssumption
    <3> QED
      BY <3>1, RoundFits
  <2>2. /\ hist # <<>> /\ hist' = hist \o sizes /\ q' = Append(q, m)
        /\ UNCHANGED <<connected, got>>
        /\ due' = [c \in Clients |-> IF c \in connected THEN due[c] \cup (Len(hist)..(end - 1))
                                                       ELSE due[c]]
    BY <1>6 DEF PlayRound, AddBroadcast
  <2>3. Len(hist) > 0 /\ end \in Nat /\ end - Len(hist) = Len(sizes) /\ Len(hist') = end
    BY <1>1, <2>1, <2>2
  <2>4. /\ m.to = Pushed(connected) /\ m.ev_no = Len(hist) /\ m.end = end /\ end # ToTheEnd
    BY <2>3 DEF Message, ToTheEnd
  <2> HIDE DEF end
  <2>5. m \in Messages /\ m.ev_no = m.start /\ Short(m)
    <3>1. Header + (end - Len(hist)) * EventSize <= Cap
      BY <2>1, <2>3
    <3> QED
      BY <1>1, <2>3, <3>1, BroadcastIs
  <2> HIDE DEF m
  <2>6. q'[Len(q) + 1] = m /\ Len(q) + 1 \in 1..Len(q')
    <3>1. q'[Len(q) + 1] = m /\ Len(q') = Len(q) + 1 /\ Len(q) \in Nat
      BY <2>2, <2>5, QueueAfterAppend
    <3> QED
      BY <3>1
  <2>7. ASSUME NEW d \in connected, NEW e \in due'[d] PROVE e \in got[d] \/ OnItsWay(d, e)'
    <3>1. CASE e \in due[d]
      <4>1. e \in Int /\ Len(hist) <= Len(hist') /\ Len(hist') \in Nat
        BY <1>1, <2>1, <2>3, <3>1
      <4> QED
        BY <1>1, <1>2, <2>2, <2>5, <3>1, <4>1, AppendKeeps
    <3>2. CASE e \notin due[d]
      <4>1. e \in Len(hist)..(end - 1)
        BY <1>1, <2>2, <2>7, <3>2
      <4>2. \E k \in 1..Len(m.to) : m.to[k] = d
        <5>1. connected \in SUBSET Clients /\ IsFiniteSet(connected)
          BY DEF QueueInv
        <5>2. \E k \in 1..Len(Pushed(connected)) : Pushed(connected)[k] = d
          BY <5>1, PushedIs
        <5> QED
          BY <2>4, <5>2
      <4>3. Brings(m, d, e, Len(hist'))
        BY <1>1, <2>3, <2>4, <4>1, <4>2 DEF Brings, GoalIn
      <4> QED
        BY <2>6, <4>3, OnItsWayIs
    <3> QED
      BY <3>1, <3>2
  <2>8. due' \in [Clients -> SUBSET Int]
    <3>1. Len(hist)..(end - 1) \in SUBSET Int
      OBVIOUS
    <3> QED
      BY <1>1, <2>2, <3>1
  <2>9. \A d \in Clients \ connected : due'[d] = {}
    BY <2>2 DEF DueInv
  <2> QED
    BY <1>1, <2>2, <2>7, <2>8, <2>9 DEF DueInv, NothingLost
<1>7. ASSUME NEW sizes \in Openings, NewGame(sizes) PROVE DueInv'
  <2>1. due' = [c \in Clients |-> {}] /\ got' = [c \in Clients |-> {}] /\ connected' = connected
    BY <1>7 DEF NewGame
  <2>2. \A c \in Clients : due'[c] = {}
    BY <2>1
  <2>3. due' \in [Clients -> SUBSET Int] /\ got' \in [Clients -> SUBSET Int]
    BY <2>1
  <2> QED
    BY <1>1, <2>1, <2>2, <2>3 DEF DueInv, NothingLost
<1>8. ASSUME NEW outcome \in Outcomes, Deliver(outcome) PROVE DueInv'
  <2>1. /\ Send(outcome) /\ UNCHANGED <<hist, connected>>
        /\ got' = IF Sends /\ outcome = "sent"
                    THEN [got EXCEPT ![Recipient] = @ \cup Datagram] ELSE got
        /\ due' = IF Sends /\ outcome = "failed"
                    THEN [due EXCEPT ![Recipient] = @ \ Datagram] ELSE due
    BY <1>8 DEF Deliver
  <2>2. q # <<>> /\ GoalExists(Front) /\ Front = q[1] /\ 1 \in 1..Len(q)
    BY <2>1, FrontFacts DEF Send
  <2>3. Datagram \in SUBSET Int
    BY DEF Datagram
  <2>4. /\ due' \in [Clients -> SUBSET Int] /\ got' \in [Clients -> SUBSET Int]
        /\ \A c \in Clients : due'[c] \subseteq due[c] /\ got[c] \subseteq got'[c]
    <3> HIDE DEF Datagram, Recipient, Sends
    <3> QED
      BY <1>1, <2>1, <2>3
  <2>5. ASSUME NEW c \in connected, NEW e \in due'[c] PROVE e \in got'[c] \/ OnItsWay(c, e)'
    <3>1. c \in Clients /\ e \in Int /\ (e \in got[c] \/ OnItsWay(c, e))
      BY <1>1, <1>2, <2>4, <2>5
    <3> SUFFICES ASSUME OnItsWay(c, e), ~ OnItsWay(c, e)' PROVE e \in got'[c]
      BY <2>4, <3>1
    <3>2. PICK n \in 1..Len(q) : Brings(q[n], c, e, Len(hist))
      BY OnItsWayIs
    <3>3. CASE n = 1
      <4>1. Sends /\ Recipient = c /\ e \in Datagram /\ outcome # "blocked"
        BY <2>1, <2>2, <3>1, <3>2, <3>3, FrontKeeps
      <4>2. outcome # "failed"
        BY <1>1, <2>1, <2>5, <3>1, <4>1
      <4>3. outcome = "sent"
        BY <4>1, <4>2 DEF Outcomes
      <4> QED
        BY <1>1, <2>1, <3>1, <4>1, <4>3
    <3>4. CASE n # 1
      <4>1. \E k \in 1..Len(q') : q'[k] = q[n]
        <5> DEFINE a == Advanced(outcome)
        <5>1. /\ Len(q) \in Nat
              /\ a.to = <<>> => /\ Len(q') = Len(q) - 1
                                /\ \A k \in 1..Len(q') : q'[k] = q[k + 1]
              /\ a.to # <<>> => /\ Len(q') = Len(q)
                                /\ \A k \in 2..Len(q') : q'[k] = q[k]
          BY <1>1, <2>1, QueueAfterSend
        <5> HIDE DEF a
        <5>2. CASE a.to = <<>>
          <6>1. n - 1 \in 1..Len(q') /\ n - 1 + 1 = n
            BY <3>2, <3>4, <5>1, <5>2
          <6> QED
            BY <5>1, <5>2, <6>1
        <5>3. CASE a.to # <<>>
          BY <3>2, <3>4, <5>1, <5>3
        <5> QED
          BY <5>2, <5>3
      <4> QED
        BY <2>1, <3>2, <4>1, OnItsWayIs
    <3> QED
      BY <3>3, <3>4
  <2>6. \A c \in Clients \ connected : due'[c] = {}
    BY <2>4 DEF DueInv
  <2> QED
    BY <2>1, <2>4, <2>5, <2>6 DEF DueInv, NothingLost
<1>9. ASSUME UNCHANGED <<q, hist, connected, due, got>> PROVE DueInv'
  <2>1. \A c, e : OnItsWay(c, e)' <=> OnItsWay(c, e)
    BY <1>9, OnItsWayIs
  <2> QED
    BY <1>9, <2>1 DEF DueInv, NothingLost
<1>10. Abort \/ UNCHANGED deliveryVars => UNCHANGED <<q, hist, connected, due, got>>
  BY DEF Abort, deliveryVars
<1> QED
  BY <1>3, <1>4, <1>5, <1>6, <1>7, <1>8, <1>9, <1>10 DEF DeliveryNext

\* Whatever a connected client is due has been sent to it or is on its way,
\* whatever blocks or fails, whoever leaves while a message is half sent, and
\* although a message has one ev_no for all of its recipients.
THEOREM NothingIsLost == DeliverySpec => []NothingLost
<1>1. DueInv => NothingLost
  BY DEF DueInv
<1>2. DeliverySpec => []DueInv
  BY DueInit, DueStep, QueueAlways, PTL DEF DeliverySpec
<1> QED
  BY <1>1, <1>2, PTL
=============================================================================
