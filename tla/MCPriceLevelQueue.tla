-------------------------- MODULE MCPriceLevelQueue --------------------------
(***************************************************************************)
(* A small instance of PriceLevelQueue: four orders of the level's price    *)
(* and one of another price.                                                *)
(***************************************************************************)
EXTENDS PriceLevelQueue

CONSTANTS o1, o2, o3, o4, other

MCOrder == {o1, o2, o3, o4, other}
MCPrice == 100
MCPriceOf == [order \in MCOrder |-> IF order = other THEN 101 ELSE MCPrice]
=============================================================================
