------------------------------ MODULE MCExchange ------------------------------
(***************************************************************************)
(* A small instance of Exchange: two tickers, so that two threads can match *)
(* at the same time, and ids for two waiting orders and two trades, of one  *)
(* result or of two.                                                        *)
(***************************************************************************)
EXTENDS Exchange, TLC

CONSTANTS alice, bob, w1, w2, AAPL, GOOG

MCUser == {alice, bob}
MCThread == {w1, w2}
MCTicker == {AAPL, GOOG}
MCOrderIds == 2
MCMaxId == 4
MCSymmetry == Permutations(MCUser) \cup Permutations(MCThread) \cup Permutations(MCTicker)
=============================================================================
