-------------------------- MODULE MCLimitOrderBook --------------------------
(***************************************************************************)
(* A small instance of LimitOrderBook.  Two ticks make a unit: the prices 4 *)
(* and 5 (2.00 and 2.50) share a whole unit, 3 (1.50) has a fraction and a  *)
(* unit of its own.  Price and volume 0 are there to be refused, and an int *)
(* ends at 2, so that two orders of a unit may overflow it.                 *)
(***************************************************************************)
EXTENDS LimitOrderBook

CONSTANTS alice, bob

MCUser == {alice, bob}
MCSymmetry == Permutations(MCUser)
MCPrice == {0, 3, 4, 5}
MCFewPrices == {3, 4}
MCHalfUnit == {1}
MCTicksPerUnit == 2
MCWholeUnits == 1
MCVolume == {0, 1, 2}
MCIntMax == 2
MCRoomyInt == 127
MCMaxId == 4
=============================================================================
