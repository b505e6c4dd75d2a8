------------------------------ MODULE NumberSet ------------------------------
(***************************************************************************)
(* What an interval set is for: a set of numbers that grows one number at  *)
(* a time and tells whether the number was new.                            *)
(***************************************************************************)
EXTENDS Naturals

CONSTANT Top             \* numbers are below Top

VARIABLES
  members,               \* the numbers inserted so far
  changed                \* the result of the last insertion

numberVars == <<members, changed>>

NumberInit == members = {} /\ changed = FALSE

Add(e) ==
  /\ members' = members \cup {e}
  /\ changed' = (e \notin members)

NumberNext == \E e \in 0..(Top - 1) : Add(e)

NumberSpec == NumberInit /\ [][NumberNext]_numberVars
=============================================================================
