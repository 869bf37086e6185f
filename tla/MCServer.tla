------------------------------- MODULE MCServer -------------------------------
(***************************************************************************)
(* A small instance of Server: more clients than workers, descriptors or    *)
(* places before the acceptor, so that connections wait at each.  One of    *)
(* them asks, with a request of either kind, and may hang up before it is   *)
(* answered; the others come, stay and go.                                  *)
(***************************************************************************)
EXTENDS Server

CONSTANTS c1, c2, c3, w1, w2, good, bad

MCClient == {c1, c2, c3}
MCAsking == {c1}
MCAbrupt == {c1}
MCWorker == {w1, w2}
MCRequest == {good}
MCBadRequest == {bad}
=============================================================================
