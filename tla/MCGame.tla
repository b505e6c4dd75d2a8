------------------------------- MODULE MCGame -------------------------------
(***************************************************************************)
(* Instances of Game for TLC.  Quadrant headings move a worm by exactly    *)
(* one pixel (half-pixel coordinates are exact); octant headings move it   *)
(* by 7/10 of a pixel on both axes, so that a round can end on the pixel   *)
(* it began on.                                                            *)
(***************************************************************************)
EXTENDS Game

Quadrants == {0, 90, 180, 270}
Downward == {90}
Octants == Quadrants \cup {45, 135, 225, 315}

Step(dx, dy) == [dx |-> dx, dy |-> dy]

\* cosl(), sinl() at d degrees, for the headings 0, 90, 180, 270.
QuadrantDelta ==
  [d \in Degrees |-> CASE d \div 90 = 0 -> Step(Unit, 0)
                       [] d \div 90 = 1 -> Step(0, Unit)
                       [] d \div 90 = 2 -> Step(-Unit, 0)
                       [] OTHER -> Step(0, -Unit)]

\* ... and for the multiples of 45 degrees.
Diagonal == (7 * Unit) \div 10
OctantDelta ==
  [d \in Degrees |-> CASE d \div 45 = 1 -> Step(Diagonal, Diagonal)
                       [] d \div 45 = 3 -> Step(-Diagonal, Diagonal)
                       [] d \div 45 = 5 -> Step(-Diagonal, -Diagonal)
                       [] d \div 45 = 7 -> Step(Diagonal, -Diagonal)
                       [] OTHER -> QuadrantDelta[d]]
=============================================================================
