------------------------------ MODULE FifoQueue ------------------------------
(***************************************************************************)
(* What a price level promises to the book that owns it: the orders resting *)
(* at one price wait in line; an order joins at the end, the book serves    *)
(* the one that has waited longest, an order may leave from any place, and  *)
(* a call that cannot be served changes nothing.                            *)
(*                                                                          *)
(* PriceLevelQueue.tla is the linked list of the code; it implements this   *)
(* specification (ImplementsFifoQueue).  LimitOrderBook.tla is written      *)
(* against this one: its levels are such sequences.                         *)
(***************************************************************************)
EXTENDS SequencesExt

CONSTANTS
  Order,     \* the orders that may come to rest at this level
  NoOrder    \* the answer of a call that returns no order

VARIABLES
  queue,     \* the orders in line, the oldest first
  result     \* what the last call answered

vars == <<queue, result>>

Answer(outcome, order) == result' = [outcome |-> outcome, order |-> order]

Init ==
  /\ queue = <<>>
  /\ result = [outcome |-> "none", order |-> NoOrder]

-----------------------------------------------------------------------------

Waiting(order) == \E i \in 1..Len(queue) : queue[i] = order

Add(order) ==
  /\ ~Waiting(order)
  /\ queue' = Append(queue, order)
  /\ Answer("done", order)

\* A call that must not change the line: an order that is not of this level,
\* a removal of an order that does not wait, a head asked of an empty line.
Refuse(order) ==
  /\ ~Waiting(order)
  /\ Answer("threw", order)
  /\ UNCHANGED queue

Withdraw(order) ==
  \/ \E i \in 1..Len(queue) :
       /\ queue[i] = order
       /\ queue' = RemoveAt(queue, i)
       /\ Answer("done", order)
  \/ /\ ~Waiting(order)
     /\ Answer("ignored", order)
     /\ UNCHANGED queue

Ask ==
  /\ Answer(IF queue = <<>> THEN "no" ELSE "yes", NoOrder)
  /\ UNCHANGED queue

First ==
  /\ IF queue = <<>> THEN Answer("threw", NoOrder) ELSE Answer("done", Head(queue))
  /\ UNCHANGED queue

TakeFirst ==
  \/ /\ queue # <<>>
     /\ Answer("done", Head(queue))
     /\ queue' = Tail(queue)
  \/ /\ queue = <<>>
     /\ Answer("threw", NoOrder)
     /\ UNCHANGED queue

Next ==
  \/ \E order \in Order : Add(order) \/ Refuse(order) \/ Withdraw(order)
  \/ Ask
  \/ First
  \/ TakeFirst

Spec == Init /\ [][Next]_vars
=============================================================================
