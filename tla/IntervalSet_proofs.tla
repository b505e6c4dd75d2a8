-------------------------- MODULE IntervalSet_proofs --------------------------
(***************************************************************************)
(* IntervalSet is a set of numbers, for every width of the numbers: the    *)
(* intervals stay apart, insert() adds one number, and the smallest        *)
(* number missing is the one after the first interval.                     *)
(***************************************************************************)
EXTENDS IntervalSet, TLAPS

-----------------------------------------------------------------------------
(* What the intervals are. *)

LEMMA IntervalFacts ==
  ASSUME Canonical
  PROVE  /\ \A v \in set : /\ v.first \in Int /\ v.second \in Int
                           /\ 0 <= v.first /\ v.first <= v.second /\ v.second < Top
                           /\ v = [first |-> v.first, second |-> v.second]
         /\ \A u, v \in set : u = v \/ u.second + 1 < v.first \/ v.second + 1 < u.first
  BY TopAssumption DEF Canonical, Interval, Number

\* Additions do not wrap below Top - 1.
LEMMA NoWrap ==
  /\ \A n \in Int : 0 <= n /\ n + 1 < Top => Plus1(n) = n + 1
  /\ Plus1(Top - 1) = 0
  BY TopAssumption DEF Plus1

LEMMA MembersAre == \A n : n \in Members <=> \E v \in set : n \in v.first..v.second
  BY DEF Members

-----------------------------------------------------------------------------
(* The neighbours that insert() looks at are all it needs to look at. *)

\* insert() finds a number that is there.
LEMMA IncludedMeansMember ==
  ASSUME Canonical, NEW e \in Number
  PROVE  Included(e) <=> e \in Members
<1>1. e \in Int
  BY TopAssumption DEF Number
<1>2. ASSUME Included(e) PROVE e \in Members
  <2>1. \E v \in set : v.first <= e /\ e <= v.second
    BY <1>1, <1>2, IntervalFacts DEF Included, LowerBound, Before
  <2> QED
    BY <1>1, <2>1, IntervalFacts, MembersAre
<1>3. ASSUME e \in Members PROVE Included(e)
  <2>1. PICK v \in set : v.first <= e /\ e <= v.second
    BY <1>1, <1>3, IntervalFacts, MembersAre
  <2>2. CASE v.first = e
    BY <2>1, <2>2 DEF Included, LowerBound
  <2>3. CASE v.first < e
    <3>1. \A u \in set : u.first < e => u.first <= v.first
      BY <1>1, <2>1, <2>3, IntervalFacts
    <3> QED
      BY <2>1, <2>3, <3>1 DEF Included, Before
  <2> QED
    BY <1>1, <2>1, <2>2, <2>3, IntervalFacts
<1> QED
  BY <1>2, <1>3

\* The interval before a number that is not there ends before it, and the
\* intervals it is merged with are those that it touches.
LEMMA Touching ==
  ASSUME Canonical, NEW e \in Number, ~Included(e)
  PROVE  /\ \A v \in set : v.second < e \/ e < v.first
         /\ \A v : v \in Left(e) <=> v \in set /\ v.second + 1 = e
         /\ \A v : v \in Right(e) <=> v \in set /\ e + 1 = v.first
<1>1. e \in Int /\ 0 <= e /\ e < Top /\ Top \in Int
  BY TopAssumption DEF Number
<1>2. \A v \in set : v.second < e \/ e < v.first
  <2>1. e \notin Members
    BY IncludedMeansMember
  <2> QED
    BY <1>1, <2>1, IntervalFacts, MembersAre
<1>3. ASSUME NEW v
      PROVE  v \in Left(e) <=> v \in set /\ v.second + 1 = e
  <2>1. ASSUME v \in Left(e) PROVE v \in set /\ v.second + 1 = e
    <3>1. v \in set /\ v.first < e /\ Plus1(v.second) = e
      BY <2>1 DEF Left, Before
    <3>2. v.second \in Int /\ 0 <= v.second /\ v.second < e /\ v.second + 1 < Top
      BY <1>1, <1>2, <3>1, IntervalFacts
    <3>3. Plus1(v.second) = v.second + 1
      BY <3>2, NoWrap
    <3> QED
      BY <3>1, <3>3
  <2>2. ASSUME v \in set, v.second + 1 = e PROVE v \in Left(e)
    <3>1. v.first < e /\ Plus1(v.second) = e
      BY <1>1, <2>2, NoWrap, IntervalFacts
    <3>2. \A u \in set : u.first < e => u.first <= v.first
      BY <1>1, <2>2, IntervalFacts
    <3> QED
      BY <2>2, <3>1, <3>2 DEF Left, Before
  <2> QED
    BY <2>1, <2>2
<1>4. ASSUME NEW v
      PROVE  v \in Right(e) <=> v \in set /\ e + 1 = v.first
  <2>1. ASSUME v \in Right(e) PROVE v \in set /\ e + 1 = v.first
    <3>1. v \in set /\ v.first >= e /\ Plus1(e) = v.first
      BY <2>1 DEF Right, LowerBound
    <3>2. e < v.first /\ e + 1 < Top
      BY <1>1, <1>2, <3>1, IntervalFacts
    <3>3. Plus1(e) = e + 1
      BY <1>1, <3>2, NoWrap
    <3> QED
      BY <3>1, <3>3
  <2>2. ASSUME v \in set, e + 1 = v.first PROVE v \in Right(e)
    <3>0. v.first \in Int /\ e < v.first /\ e + 1 < Top
      BY <1>1, <2>2, IntervalFacts
    <3>1. v.first >= e /\ Plus1(e) = v.first
      BY <1>1, <2>2, <3>0, NoWrap
    <3>2. \A u \in set : u.first >= e => v.first <= u.first
      BY <1>1, <1>2, <2>2, IntervalFacts
    <3> QED
      BY <2>2, <3>1, <3>2 DEF Right, LowerBound
  <2> QED
    BY <2>1, <2>2
<1> QED
  BY <1>2, <1>3, <1>4

\* What is merged: from the interval that ends at e - 1, if any, to the one
\* that begins at e + 1, if any.
LEMMA MergedIs ==
  ASSUME Canonical, NEW e \in Number, ~Included(e)
  PROVE  \E a, b \in Int :
           /\ Merged(e) = [first |-> a, second |-> b]
           /\ a <= e /\ e <= b /\ 0 <= a /\ b < Top
           /\ \A v \in Left(e) : v.first = a
           /\ \A v \in Right(e) : v.second = b
           /\ Left(e) = {} => a = e
           /\ Right(e) = {} => b = e
<1>1. e \in Int /\ 0 <= e /\ e < Top /\ Top \in Int
  BY TopAssumption DEF Number
<1>2. /\ \A v : v \in Left(e) <=> v \in set /\ v.second + 1 = e
      /\ \A v : v \in Right(e) <=> v \in set /\ e + 1 = v.first
  BY Touching
<1>3. \A u, v \in Left(e) : u = v
  BY <1>1, <1>2, IntervalFacts
<1>4. \A u, v \in Right(e) : u = v
  BY <1>1, <1>2, IntervalFacts
<1>5. PICK a \in Int : /\ a = (IF Left(e) = {} THEN e ELSE Only(Left(e)).first)
                       /\ 0 <= a /\ a <= e
                       /\ \A v \in Left(e) : v.first = a
                       /\ Left(e) = {} => a = e
  <2>1. CASE Left(e) = {}
    BY <1>1, <2>1
  <2>2. CASE Left(e) # {}
    <3>1. Only(Left(e)) \in Left(e)
      BY <2>2 DEF Only
    <3>2. Only(Left(e)) \in set /\ Only(Left(e)).second + 1 = e
      BY <1>2, <3>1
    <3>3. /\ Only(Left(e)).first \in Int /\ 0 <= Only(Left(e)).first
          /\ Only(Left(e)).first <= e
      BY <1>1, <3>2, IntervalFacts
    <3>4. \A v \in Left(e) : v.first = Only(Left(e)).first
      BY <1>3, <3>1
    <3> QED
      BY <2>2, <3>3, <3>4
  <2> QED
    BY <2>1, <2>2
<1>6. PICK b \in Int : /\ b = (IF Right(e) = {} THEN e ELSE Only(Right(e)).second)
                       /\ e <= b /\ b < Top
                       /\ \A v \in Right(e) : v.second = b
                       /\ Right(e) = {} => b = e
  <2>1. CASE Right(e) = {}
    BY <1>1, <2>1
  <2>2. CASE Right(e) # {}
    <3>1. Only(Right(e)) \in Right(e)
      BY <2>2 DEF Only
    <3>2. Only(Right(e)) \in set /\ e + 1 = Only(Right(e)).first
      BY <1>2, <3>1
    <3>3. /\ Only(Right(e)).second \in Int /\ e <= Only(Right(e)).second
          /\ Only(Right(e)).second < Top
      BY <1>1, <3>2, IntervalFacts
    <3>4. \A v \in Right(e) : v.second = Only(Right(e)).second
      BY <1>4, <3>1
    <3> QED
      BY <2>2, <3>3, <3>4
  <2> QED
    BY <2>1, <2>2
<1> QED
  BY <1>5, <1>6 DEF Merged

-----------------------------------------------------------------------------
(* An insertion. *)

LEMMA InsertCanonical ==
  ASSUME Canonical, NEW e \in Number, Insert(e)
  PROVE  Canonical'
<1>1. e \in Int /\ 0 <= e /\ e < Top /\ Top \in Int
  BY TopAssumption DEF Number
<1>2. CASE Included(e)
  BY <1>2 DEF Insert, Canonical
<1>3. CASE ~Included(e)
  <2>1. /\ \A v \in set : v.second < e \/ e < v.first
        /\ \A v : v \in Left(e) <=> v \in set /\ v.second + 1 = e
        /\ \A v : v \in Right(e) <=> v \in set /\ e + 1 = v.first
    BY <1>3, Touching
  <2>2. PICK a \in Int, b \in Int :
          /\ Merged(e) = [first |-> a, second |-> b]
          /\ a <= e /\ e <= b /\ 0 <= a /\ b < Top
          /\ \A v \in Left(e) : v.first = a
          /\ \A v \in Right(e) : v.second = b
          /\ Left(e) = {} => a = e
          /\ Right(e) = {} => b = e
    BY <1>3, MergedIs
  <2> DEFINE m == [first |-> a, second |-> b]
             old == set \ (Left(e) \cup Right(e))
  <2>3. set' = old \cup {m}
    BY <1>3, <2>2 DEF Insert
  <2>4. m \in Interval /\ m.first <= m.second
    BY <1>1, <2>2 DEF Interval, Number
  <2>5. \A u \in old : u.second + 1 < m.first \/ m.second + 1 < u.first
    <3> SUFFICES ASSUME NEW u \in old
                 PROVE  u.second + 1 < a \/ b + 1 < u.first
      OBVIOUS
    <3>1. /\ u \in set /\ u.first \in Int /\ u.second \in Int
          /\ u.first <= u.second
          /\ u.second + 1 < e \/ e + 1 < u.first
      BY <1>1, <2>1, IntervalFacts
    <3>2. CASE u.second + 1 < e
      <4>1. CASE Left(e) = {}
        BY <2>2, <3>2, <4>1
      <4>2. CASE Left(e) # {}
        <5>1. PICK l \in Left(e) : TRUE
          BY <4>2
        <5>2. l \in set /\ l.second + 1 = e /\ l.first = a /\ l # u
          BY <2>1, <2>2, <5>1
        <5> QED
          BY <1>1, <3>1, <3>2, <5>2, IntervalFacts
      <4> QED
        BY <4>1, <4>2
    <3>3. CASE e + 1 < u.first
      <4>1. CASE Right(e) = {}
        BY <2>2, <3>3, <4>1
      <4>2. CASE Right(e) # {}
        <5>1. PICK r \in Right(e) : TRUE
          BY <4>2
        <5>2. r \in set /\ e + 1 = r.first /\ r.second = b /\ r # u
          BY <2>1, <2>2, <5>1
        <5> QED
          BY <1>1, <3>1, <3>3, <5>2, IntervalFacts
      <4> QED
        BY <4>1, <4>2
    <3> QED
      BY <3>1, <3>2, <3>3
  <2>6. /\ old \subseteq Interval /\ \A v \in old : v.first <= v.second
        /\ \A u, v \in old : u = v \/ u.second + 1 < v.first \/ v.second + 1 < u.first
    BY DEF Canonical
  <2> HIDE DEF m, old
  <2> QED
    BY <2>3, <2>4, <2>5, <2>6 DEF Canonical
<1> QED
  BY <1>2, <1>3

\* insert(e) adds e and no other number, and says whether it did.
LEMMA InsertAdds ==
  ASSUME Canonical, NEW e \in Number, Insert(e)
  PROVE  Numbers!Add(e)
<1>1. e \in Int /\ 0 <= e /\ e < Top /\ Top \in Int
  BY TopAssumption DEF Number
<1>2. Included(e) <=> e \in Members
  BY IncludedMeansMember
<1>3. CASE Included(e)
  <2>1. Members' = Members
    BY <1>3 DEF Insert, Members
  <2> QED
    BY <1>2, <1>3, <2>1 DEF Insert, Numbers!Add
<1>4. CASE ~Included(e)
  <2>1. /\ \A v : v \in Left(e) <=> v \in set /\ v.second + 1 = e
        /\ \A v : v \in Right(e) <=> v \in set /\ e + 1 = v.first
    BY <1>4, Touching
  <2>2. PICK a \in Int, b \in Int :
          /\ Merged(e) = [first |-> a, second |-> b]
          /\ a <= e /\ e <= b /\ 0 <= a /\ b < Top
          /\ \A v \in Left(e) : v.first = a
          /\ \A v \in Right(e) : v.second = b
          /\ Left(e) = {} => a = e
          /\ Right(e) = {} => b = e
    BY <1>4, MergedIs
  <2>3. set' = (set \ (Left(e) \cup Right(e))) \cup {[first |-> a, second |-> b]}
    BY <1>4, <2>2 DEF Insert
  <2>4. \A n : n \in Members' <=> \E v \in set' : n \in v.first..v.second
    BY DEF Members
  <2>5. ASSUME NEW n, n \in Members' PROVE n \in Members \cup {e}
    <3>1. PICK v \in set' : n \in v.first..v.second
      BY <2>4, <2>5
    <3>2. CASE v \in set
      BY <3>1, <3>2, MembersAre
    <3>3. CASE v \notin set
      <4>1. n \in Int /\ a <= n /\ n <= b
        BY <2>2, <2>3, <3>1, <3>3
      <4>2. CASE n < e
        <5>1. PICK l \in Left(e) : l.first = a
          BY <1>1, <2>2, <4>1, <4>2
        <5>2. l \in set /\ l.second + 1 = e
          BY <2>1, <5>1
        <5>3. n \in l.first..l.second
          BY <1>1, <4>1, <4>2, <5>1, <5>2, IntervalFacts
        <5> QED
          BY <5>2, <5>3, MembersAre
      <4>3. CASE e < n
        <5>1. PICK r \in Right(e) : r.second = b
          BY <1>1, <2>2, <4>1, <4>3
        <5>2. r \in set /\ e + 1 = r.first
          BY <2>1, <5>1
        <5>3. n \in r.first..r.second
          BY <1>1, <4>1, <4>3, <5>1, <5>2, IntervalFacts
        <5> QED
          BY <5>2, <5>3, MembersAre
      <4> QED
        BY <1>1, <4>1, <4>2, <4>3
    <3> QED
      BY <3>2, <3>3
  <2>6. ASSUME NEW n, n \in Members PROVE n \in Members'
    <3>1. PICK v \in set : n \in v.first..v.second
      BY <2>6, MembersAre
    <3>2. /\ v.first \in Int /\ v.second \in Int /\ n \in Int
          /\ v.first <= n /\ n <= v.second
      BY <3>1, IntervalFacts
    <3>3. CASE v \in Left(e)
      <4>1. v.second + 1 = e /\ v.first = a
        BY <2>1, <2>2, <3>3
      <4>2. n \in a..b
        BY <1>1, <2>2, <3>2, <4>1
      <4> QED
        BY <2>3, <2>4, <4>2
    <3>4. CASE v \in Right(e)
      <4>1. e + 1 = v.first /\ v.second = b
        BY <2>1, <2>2, <3>4
      <4>2. n \in a..b
        BY <1>1, <2>2, <3>2, <4>1
      <4> QED
        BY <2>3, <2>4, <4>2
    <3>5. CASE v \notin Left(e) \cup Right(e)
      BY <2>3, <2>4, <3>1, <3>5
    <3> QED
      BY <3>3, <3>4, <3>5
  <2>7. e \in Members'
    <3>1. e \in a..b
      BY <1>1, <2>2
    <3> QED
      BY <2>3, <2>4, <3>1
  <2>8. Members' = Members \cup {e}
    BY <2>5, <2>6, <2>7
  <2> QED
    BY <1>2, <1>4, <2>8 DEF Insert, Numbers!Add
<1> QED
  BY <1>3, <1>4

-----------------------------------------------------------------------------
(* Theorems. *)

LEMMA InitCanonical == IsetInit => Canonical
  BY DEF IsetInit, Canonical

LEMMA NextCanonical == Canonical /\ [IsetNext]_isetVars => Canonical'
<1> SUFFICES ASSUME Canonical, [IsetNext]_isetVars PROVE Canonical'
  OBVIOUS
<1>1. CASE IsetNext
  BY <1>1, InsertCanonical DEF IsetNext
<1>2. CASE UNCHANGED isetVars
  BY <1>2 DEF isetVars, Canonical
<1> QED
  BY <1>1, <1>2

\* Intervals neither overlap nor touch, in whatever order numbers come.
THEOREM IntervalsStayApart == IsetSpec => []Canonical
  BY InitCanonical, NextCanonical, PTL DEF IsetSpec

\* insert() adds its number and nothing else, and tells whether it was new.
THEOREM IntervalsAreNumbers == IsetSpec => ImplementsNumberSet
<1>1. IsetInit => Numbers!NumberInit
  BY DEF IsetInit, Members, Numbers!NumberInit
<1>2. Canonical /\ [IsetNext]_isetVars => [Numbers!NumberNext]_(Numbers!numberVars)
  <2> SUFFICES ASSUME Canonical, [IsetNext]_isetVars
               PROVE  [Numbers!NumberNext]_(Numbers!numberVars)
    OBVIOUS
  <2>1. CASE IsetNext
    BY <2>1, InsertAdds DEF IsetNext, Number, Numbers!NumberNext
  <2>2. CASE UNCHANGED isetVars
    BY <2>2 DEF isetVars, Members, Numbers!numberVars
  <2> QED
    BY <2>1, <2>2
<1> QED
  BY <1>1, <1>2, IntervalsStayApart, PTL
     DEF IsetSpec, ImplementsNumberSet, Numbers!NumberSpec

\* smallest_not_included() is the smallest number that is missing, which is
\* the event the client asks the server for.
THEOREM SmallestIsFirstGap == IsetSpec => []SmallestIsMissing
<1>1. Canonical => SmallestIsMissing
  <2> SUFFICES ASSUME Canonical, Members # Number PROVE
        /\ Smallest \in Number \ Members
        /\ \A n \in Number : n < Smallest => n \in Members
    BY DEF SmallestIsMissing
  <2> DEFINE begin == {v \in set : \A u \in set : v.first <= u.first}
  <2>1. Top \in Int /\ 0 < Top
    BY TopAssumption
  <2>2. CASE \E v \in begin : v.first = 0
    <3>1. PICK v \in begin : v.first = 0
      BY <2>2
    <3>2. \A u \in begin : u = v
      BY <3>1, IntervalFacts
    <3>3. Only(begin) = v
      BY <3>1, <3>2 DEF Only
    <3>4. /\ v \in set /\ v.second \in Int /\ 0 <= v.second /\ v.second < Top
      BY <3>1, IntervalFacts
    <3>5. Smallest = Plus1(v.second)
      BY <2>2, <3>3 DEF Smallest
    <3>6. \A n \in Number : n <= v.second => n \in Members
      <4> TAKE n \in Number
      <4> HAVE n <= v.second
      <4>1. n \in v.first..v.second
        BY <3>1, <3>4, TopAssumption DEF Number
      <4> QED
        BY <3>4, <4>1, MembersAre
    <3>7. v.second + 1 < Top
      <4>1. SUFFICES ASSUME ~(v.second + 1 < Top) PROVE FALSE
        OBVIOUS
      <4>2. Number \subseteq Members
        BY <2>1, <3>4, <3>6, <4>1 DEF Number
      <4>3. Members \subseteq Number
        BY <2>1, MembersAre, IntervalFacts DEF Number
      <4> QED
        BY <4>2, <4>3
    <3>8. Smallest = v.second + 1
      BY <3>4, <3>5, <3>7, NoWrap
    <3>9. v.second + 1 \notin Members
      <4>1. SUFFICES ASSUME v.second + 1 \in Members PROVE FALSE
        OBVIOUS
      <4>2. PICK u \in set : v.second + 1 \in u.first..u.second
        BY <4>1, MembersAre
      <4> QED
        BY <3>1, <3>4, <4>2, IntervalFacts
    <3> QED
      BY <2>1, <3>4, <3>6, <3>7, <3>8, <3>9 DEF Number
  <2>3. CASE ~\E v \in begin : v.first = 0
    <3>1. Smallest = 0
      BY <2>3 DEF Smallest
    <3>2. \A v \in set : v.first # 0
      BY <2>3, IntervalFacts
    <3>3. 0 \notin Members
      BY <3>2, MembersAre, IntervalFacts
    <3> QED
      BY <2>1, <3>1, <3>3, TopAssumption DEF Number
  <2> QED
    BY <2>2, <2>3
<1> QED
  BY <1>1, IntervalsStayApart, PTL
=============================================================================
