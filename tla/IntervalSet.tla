----------------------------- MODULE IntervalSet -----------------------------
(***************************************************************************)
(* client::iset (src/client/iset.cpp): the numbers of the events that  *)
(* were received, as disjoint intervals that are merged when they touch.   *)
(* The client asks the server for events from smallest_not_included() on.  *)
(*                                                                         *)
(* std::set keeps the pairs in lexicographic order; no two of them begin   *)
(* with the same number, so the order of the first numbers is enough.      *)
(***************************************************************************)
EXTENDS Integers

CONSTANT Top             \* 2^32: numbers are uint32_t

ASSUME TopAssumption == Top \in Nat \ {0}

VARIABLES
  set,                   \* the intervals: [first, second], ends included
  changed                \* the result of the last insert()

isetVars == <<set, changed>>

Number == 0..(Top - 1)
Interval == [first : Number, second : Number]

Plus1(n) == (n + 1) % Top

-----------------------------------------------------------------------------
(* Neighbours of e.  Each of these sets has at most one element. *)

\* The interval that lower_bound({e, e}) finds: the first that begins at e or
\* later.
LowerBound(e) ==
  {v \in set : v.first >= e /\ \A u \in set : u.first >= e => v.first <= u.first}

\* The one before it: the last that begins before e.
Before(e) ==
  {v \in set : v.first < e /\ \A u \in set : u.first < e => u.first <= v.first}

\* Faulty variant: the end of the interval before e is not looked at.
IncludedStrictly(e) ==
  \/ \E v \in LowerBound(e) : v.first = e
  \/ \E v \in Before(e) : e < v.second

Included(e) ==
  \/ \E v \in LowerBound(e) : v.first = e
  \/ \E v \in Before(e) : e <= v.second

\* The intervals that e touches and is merged with.
Left(e) == {v \in Before(e) : Plus1(v.second) = e}

\* Faulty variant: only one of two neighbours is merged.
RightUnlessLeft(e) == {v \in LowerBound(e) : Plus1(e) = v.first /\ Left(e) = {}}

Right(e) == {v \in LowerBound(e) : Plus1(e) = v.first}

Only(S) == CHOOSE v \in S : TRUE

\* e with the intervals it touches.
Merged(e) ==
  [first |-> IF Left(e) = {} THEN e ELSE Only(Left(e)).first,
   second |-> IF Right(e) = {} THEN e ELSE Only(Right(e)).second]

-----------------------------------------------------------------------------

IsetInit == set = {} /\ changed = FALSE

Insert(e) ==
  \/ /\ Included(e)
     /\ changed' = FALSE
     /\ UNCHANGED set
  \/ /\ ~Included(e)
     /\ changed' = TRUE
     /\ set' = (set \ (Left(e) \cup Right(e))) \cup {Merged(e)}

IsetNext == \E e \in Number : Insert(e)

IsetSpec == IsetInit /\ [][IsetNext]_isetVars

\* Faulty variant: the end of the first interval, not the number after it.
EndOfFirst ==
  LET begin == {v \in set : \A u \in set : v.first <= u.first}
  IN  IF \E v \in begin : v.first = 0 THEN Only(begin).second ELSE 0

\* smallest_not_included()
Smallest ==
  LET begin == {v \in set : \A u \in set : v.first <= u.first}
  IN  IF \E v \in begin : v.first = 0 THEN Plus1(Only(begin).second) ELSE 0

-----------------------------------------------------------------------------
(* Properties. *)

Members == UNION {v.first..v.second : v \in set}

\* iset.h: "storing intervals and merging them": intervals neither overlap nor
\* touch, whatever the order of insertion, so that the first of them holds all
\* numbers up to the first gap.
Canonical ==
  /\ set \subseteq Interval
  /\ \A v \in set : v.first <= v.second
  /\ \A u, v \in set : u = v \/ u.second + 1 < v.first \/ v.second + 1 < u.first

\* The number the client asks for is the smallest one it does not have, as
\* long as one is missing (with all 2^32 of them the addition wraps to 0).
SmallestIsMissing ==
  Members # Number =>
    /\ Smallest \in Number \ Members
    /\ \A n \in Number : n < Smallest => n \in Members

Numbers == INSTANCE NumberSet WITH members <- Members

\* The intervals are a set of numbers: insert(e) adds e and nothing else, and
\* its result tells whether e was new.
ImplementsNumberSet == Numbers!NumberSpec
=============================================================================
