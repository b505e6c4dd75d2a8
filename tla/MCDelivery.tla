----------------------------- MODULE MCDelivery -----------------------------
(***************************************************************************)
(* An instance of Delivery for TLC.  With a header of 1 and datagrams of   *)
(* at most 5 an opening does not fit in one: its NEW_GAME goes alone, with *)
(* less room left than an event takes, and the two events after it fill    *)
(* the next.  The events of a round fill one, too.  The longer opening has *)
(* events where a broadcast of the game before, if any is left, looks for  *)
(* its own.                                                                *)
(***************************************************************************)
EXTENDS Delivery

MCOpenings == {<<3, 2, 2>>, <<3, 2, 2, 1, 2>>}
MCRounds == {<<2, 2>>}
==============================================================================
