--------------------------- MODULE PriceLevelQueue ---------------------------
(***************************************************************************)
(* src/src/Exchange/price_level_queue.cpp: the orders of one side of a book *)
(* at one price, a doubly linked list threaded through the OrderNodes of    *)
(* the book between two sentinels, and a has_orders flag kept beside it.    *)
(*                                                                          *)
(* The state is the pointers themselves.  A call runs to its end without    *)
(* interruption, so one action is one call with all its assignments.        *)
(* line is an auxiliary variable: no action's guard, pointer or answer      *)
(* reads it.  It records in which order the orders joined and which left,   *)
(* for the invariants to say what the pointers must spell.                  *)
(***************************************************************************)
EXTENDS SequencesExt

CONSTANTS
  Order,     \* OrderNode objects the book may hand to this level
  PriceOf,   \* order.price, the price the node was built with
  price,     \* the price of this level
  NoOrder,   \* the answer of a call that returns no order
  front,     \* the dummy node before the oldest order
  back,      \* the dummy node after the newest order
  null       \* nullptr

ASSUME OrderAssumption ==
  /\ NoOrder \notin Order
  /\ front \notin Order
  /\ back \notin Order
  /\ front # back
  /\ null \notin Order \cup {front, back}

Node == Order \cup {front, back}

VARIABLES
  next,        \* node -> the node after it, or null
  prev,        \* node -> the node before it, or null
  has_orders,  \* the flag HasOrders answers with
  line,        \* auxiliary: the orders that joined and have not left, oldest first
  result       \* what the last call answered

vars == <<next, prev, has_orders, line, result>>

Answer(outcome, order) == result' = [outcome |-> outcome, order |-> order]

UnchangedList == UNCHANGED <<next, prev, has_orders, line>>

Init ==
  /\ next = [n \in Node |-> IF n = front THEN back ELSE null]
  /\ prev = [n \in Node |-> IF n = back THEN front ELSE null]
  /\ has_orders = FALSE
  /\ line = <<>>
  /\ result = [outcome |-> "none", order |-> NoOrder]

-----------------------------------------------------------------------------
(* The calls.  An operator named Broken... is a call with a slip in it: the *)
(* properties below are tried on it, and it is part of no specification.    *)

\* RemoveOrder's test for a node it has nothing to do for.
Unlinked(order) == prev[order] = null /\ next[order] = null

\* The book hands over a node it has just built, so its pointers are null.
AddOrder(order) ==
  /\ Unlinked(order)
  /\ PriceOf[order] = price
  /\ has_orders' = TRUE
  /\ LET last == prev[back]
     IN  /\ prev' = [prev EXCEPT ![order] = last, ![back] = order]
         /\ next' = [n \in Node |-> CASE n = order -> back
                                      [] n = last  -> order
                                      [] OTHER     -> next[n]]
  /\ line' = Append(line, order)
  /\ Answer("done", order)

AddOrderOfOtherPrice(order) ==
  /\ Unlinked(order)
  /\ PriceOf[order] # price
  /\ Answer("threw", order)
  /\ UnchangedList

\* Taking order out of line, wherever it stands.
Leave(order) ==
  \/ \E i \in 1..Len(line) : line[i] = order /\ line' = RemoveAt(line, i)
  \/ (\A i \in 1..Len(line) : line[i] # order) /\ UNCHANGED line

BrokenRemoveOrder(order) ==  \* the later neighbour keeps its prev pointer
  /\ ~Unlinked(order)
  /\ next' = [next EXCEPT ![prev[order]] = next[order], ![order] = null]
  /\ prev' = [prev EXCEPT ![order] = null]
  /\ has_orders' = (has_orders /\ next'[front] # back)
  /\ Leave(order)
  /\ Answer("done", order)

\* The node's neighbours are joined (a null neighbour is left alone), then its
\* own pointers are cleared.
RemoveOrder(order) ==
  /\ ~Unlinked(order)
  /\ LET earlier == prev[order]
         later   == next[order]
     IN  /\ next' = [n \in Node |-> CASE n = order   -> null
                                      [] n = earlier -> later
                                      [] OTHER       -> next[n]]
         /\ prev' = [n \in Node |-> CASE n = order -> null
                                      [] n = later -> earlier
                                      [] OTHER     -> prev[n]]
  /\ has_orders' = (has_orders /\ next'[front] # back)
  /\ Leave(order)
  /\ Answer("done", order)

RemoveOrderAlreadyRemoved(order) ==
  /\ Unlinked(order)
  /\ Answer("ignored", order)
  /\ UnchangedList

HasOrders ==
  /\ Answer(IF has_orders THEN "yes" ELSE "no", NoOrder)
  /\ UnchangedList

BrokenPeek ==  \* looks at the wrong end
  /\ IF next[front] = back
     THEN Answer("threw", NoOrder)
     ELSE Answer("done", prev[back])
  /\ UnchangedList

Peek ==
  /\ IF next[front] = back
     THEN Answer("threw", NoOrder)
     ELSE Answer("done", next[front])
  /\ UnchangedList

BrokenPop ==  \* no test for an empty list
  LET removed == next[front]
      follows == next[removed]
  IN  /\ next' = [next EXCEPT ![front] = follows, ![removed] = null]
      /\ prev' = [prev EXCEPT ![follows] = front, ![removed] = null]
      /\ Leave(removed)
      /\ Answer("done", removed)
      /\ has_orders' = (has_orders /\ next'[front] # back)

BrokenPopKeepsFlag ==  \* the flag is not cleared with the last order
  /\ next[front] # back
  /\ LET removed == next[front]
         follows == next[removed]
     IN  /\ next' = [next EXCEPT ![front] = follows, ![removed] = null]
         /\ prev' = [prev EXCEPT ![follows] = front, ![removed] = null]
         /\ Leave(removed)
         /\ Answer("done", removed)
  /\ UNCHANGED has_orders

Pop ==
  /\ next[front] # back
  /\ LET removed == next[front]
         follows == next[removed]
     IN  /\ next' = [next EXCEPT ![front] = follows, ![removed] = null]
         /\ prev' = [prev EXCEPT ![follows] = front, ![removed] = null]
         /\ Leave(removed)
         /\ Answer("done", removed)
  /\ has_orders' = (has_orders /\ next'[front] # back)

PopEmpty ==
  /\ next[front] = back
  /\ Answer("threw", NoOrder)
  /\ UnchangedList

Next ==
  \/ \E order \in Order :
       \/ AddOrder(order)
       \/ AddOrderOfOtherPrice(order)
       \/ RemoveOrder(order)
       \/ RemoveOrderAlreadyRemoved(order)
  \/ HasOrders
  \/ Peek
  \/ Pop
  \/ PopEmpty

Spec == Init /\ [][Next]_vars

-----------------------------------------------------------------------------
(* What must hold.                                                         *)

\* The types of the pointers, the flag and the answer: the sentinels' outer
\* pointers and those of an order out of line are the only null ones.
TypeOK ==
  /\ next \in [Node -> Node \cup {null}]
  /\ prev \in [Node -> Node \cup {null}]
  /\ has_orders \in BOOLEAN
  /\ line \in Seq(Order)
  /\ result \in [outcome : {"none", "done", "threw", "ignored", "yes", "no"},
                 order : Order \cup {NoOrder}]

\* The i-th node of the walk from front to back: the sentinels stand at 0 and
\* Len(line) + 1.
At(i) == CASE i = 0 -> front
           [] i = Len(line) + 1 -> back
           [] OTHER -> line[i]

\* Walking next from front visits the orders in the order they joined and ends
\* at back, walking prev from back visits them in reverse, and an order that is
\* not in line has no pointer left into the list (AddOrder, RemoveOrder, Pop).
PointersSpellLine ==
  /\ \A i \in 0..Len(line) : next[At(i)] = At(i + 1) /\ prev[At(i + 1)] = At(i)
  /\ \A order \in Order : Unlinked(order) \/ \E i \in 1..Len(line) : line[i] = order

\* No order is in line twice.
NobodyTwice == \A i, j \in 1..Len(line) : line[i] = line[j] => i = j

\* The flag the book trusts before it calls Peek says what the list says: a
\* level with the flag set has a first order, and one without has none.
HasOrdersTruthful == has_orders <=> next[front] # back

\* The list answers every call as the queue it stands for would: Pop and Peek
\* return the order that has waited longest, HasOrders is exact, a removal
\* takes out that order only, and a refused call changes nothing.
Fifo == INSTANCE FifoQueue WITH queue <- line
ImplementsFifoQueue == Fifo!Spec
=============================================================================
