--------------------------- MODULE MatchingEngine ---------------------------
(***************************************************************************)
(* What a book promises to those who send it orders, without levels, heaps  *)
(* or volume tables: a set of resting orders and at most one incoming       *)
(* order.  Two orders trade only if they are on opposite sides, cross and   *)
(* belong to different users, for no more than either has left; every trade *)
(* and nothing else goes to the log; an order leaves when it is filled,     *)
(* when its owner withdraws it, or when it stands in its owner's own way;   *)
(* an order that comes to rest has an id no order or trade had before.      *)
(*                                                                          *)
(* LimitOrderBook.tla implements this specification                         *)
(* (ImplementsMatchingEngine).  It does not promise that an incoming order  *)
(* finds every resting order it crosses: the code's book does not.          *)
(***************************************************************************)
EXTENDS Integers, Sequences

CONSTANTS
  User,
  Price,    \* prices orders come with
  Volume    \* volumes orders come with

VARIABLES
  resting,  \* id -> the order resting under it
  incoming, \* the order being matched, with the volume it has left: a set of at most one
  log,      \* the trades so far
  last_id   \* no id above this one has been used

vars == <<resting, incoming, log, last_id>>

Side == {"BID", "ASK"}

Init ==
  /\ resting = <<>>
  /\ incoming = {}
  /\ log = <<>>
  /\ last_id = 0

-----------------------------------------------------------------------------

Without(id) == [i \in DOMAIN resting \ {id} |-> resting[i]]

Cross(bid, ask) ==
  /\ bid.order_type = "BID"
  /\ ask.order_type = "ASK"
  /\ bid.price >= ask.price

Submit(user, side, price, volume) ==
  /\ incoming = {}
  /\ price > 0 /\ volume > 0
  /\ incoming' = {[user_id |-> user, volume |-> volume, price |-> price, order_type |-> side]}
  /\ UNCHANGED <<resting, log, last_id>>

\* The incoming order trades volume shares with the order resting under id.
TradeWith(id, volume) ==
  \E order \in incoming : \E bid, ask \in {order, resting[id]} :
    /\ Cross(bid, ask)
    /\ bid.user_id # ask.user_id
    /\ volume <= bid.volume /\ volume <= ask.volume
    /\ incoming' = {[order EXCEPT !.volume = @ - volume]}
    /\ resting' = IF volume = resting[id].volume
                  THEN Without(id)
                  ELSE [resting EXCEPT ![id].volume = @ - volume]
    /\ log' = Append(log, [trade_id |-> last_id + 1, volume |-> volume,
                           bid_user_id |-> bid.user_id, ask_user_id |-> ask.user_id])
    /\ last_id' = last_id + 1

\* The order resting under id would trade with its own user's incoming order.
StepAside(id) ==
  \E order \in incoming :
    /\ Cross(order, resting[id]) \/ Cross(resting[id], order)
    /\ resting[id].user_id = order.user_id
    /\ resting' = Without(id)
    /\ UNCHANGED <<incoming, log, last_id>>

Finish ==
  \E order \in incoming :
    /\ order.volume = 0
    /\ incoming' = {}
    /\ UNCHANGED <<resting, log, last_id>>

Rest ==
  \E order \in incoming :
    /\ order.volume > 0
    /\ last_id' = last_id + 1
    /\ resting' = [i \in DOMAIN resting \cup {last_id + 1} |->
                     IF i = last_id + 1 THEN order ELSE resting[i]]
    /\ incoming' = {}
    /\ UNCHANGED log

Withdraw(id) ==
  /\ incoming = {}
  /\ resting' = Without(id)
  /\ UNCHANGED <<incoming, log, last_id>>

\* Another engine took an id.
SkipId ==
  /\ last_id' = last_id + 1
  /\ UNCHANGED <<resting, incoming, log>>

Next ==
  \/ \E user \in User, side \in Side, price \in Price, volume \in Volume :
       Submit(user, side, price, volume)
  \/ \E id \in DOMAIN resting :
       \/ \E volume \in 1..resting[id].volume : TradeWith(id, volume)
       \/ StepAside(id)
       \/ Withdraw(id)
  \/ Finish
  \/ Rest
  \/ SkipId

Spec == Init /\ [][Next]_vars
=============================================================================
