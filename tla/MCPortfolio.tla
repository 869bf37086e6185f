----------------------------- MODULE MCPortfolio -----------------------------
(***************************************************************************)
(* A small instance of Portfolio: two tickers, fills of one or three shares *)
(* either way (so that positions are added to, reduced, closed and flipped) *)
(* and prices whose averages are not whole.                                 *)
(***************************************************************************)
EXTENDS Portfolio

MCVolume == {-3, -1, 0, 1, 3}
MCPrice == {1, 4}
MCInitialCash == 10
MCMaxTrades == 5
=============================================================================
