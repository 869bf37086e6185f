---------------------------- MODULE MCStressBots ----------------------------
(***************************************************************************)
(* A small instance of StressBots: a bot of each kind.  Two ticks make a    *)
(* unit; adversaries draw 1.50 or 3.00, which lets the spread be large, and *)
(* market makers come to prices between 0.50 and 3.00.                      *)
(***************************************************************************)
EXTENDS StressBots

CONSTANTS maker, adversary, hft

MCUser == {maker, adversary, hft}
MCMaker == {maker}
MCAdversary == {adversary}
MCHft == {hft}
MCPrice == 1..6
MCTicksPerUnit == 2
MCVolume == {1, 2}
MCIntMax == 127
MCMaxId == 5
MCSpread == 1
MCOrderSize == 1
MCAdversaryPrice == {3, 6}
MCAdversaryVolume == {2}
MCBasePrice == 2
MCHftVolume == {1, 2}
=============================================================================
