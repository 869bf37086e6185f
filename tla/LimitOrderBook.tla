--------------------------- MODULE LimitOrderBook ---------------------------
(***************************************************************************)
(* src/src/Exchange/limit_order_book.cpp: the book of one ticker.  It       *)
(* matches an incoming order against the levels of the other side, rests    *)
(* what is left, cancels resting orders and answers queries.                *)
(*                                                                          *)
(* A level is the FIFO that PriceLevelQueue.tla implements, a sequence of   *)
(* order ids.  HandleOrder is one action for its checks and clean-up, one   *)
(* action per turn of its matching loop, and one for its end; a book that   *)
(* one thread uses starts no other call in between, so the other calls are  *)
(* one action each and wait until call is not matching.  Other books of the *)
(* process may draw ids from the same counter at any time.                  *)
(*                                                                          *)
(* Prices are doubles in the code.  Here they are whole numbers of ticks,   *)
(* TicksPerUnit to a unit of currency; a conversion of a price to int drops *)
(* the fraction of a unit.  One tick is more than the 1e-6 of PricesMatch.  *)
(***************************************************************************)
EXTENDS Integers, SequencesExt

CONSTANTS
  User,          \* user ids
  NoUser,        \* nobody: the user of a call that is not there
  Price,         \* prices orders come with, in ticks
  TicksPerUnit,  \* ticks in one unit of currency
  Volume,        \* volumes orders come with
  IntMax,        \* the largest int: 2^31 - 1 on the machines this runs on
  MaxId          \* bound: ids GenerateId may hand out

ASSUME BookAssumption ==
  /\ Price \subseteq Nat
  /\ TicksPerUnit \in Nat \ {0}
  /\ Volume \subseteq Int
  /\ IntMax \in Nat
  /\ MaxId \in Nat
  /\ NoUser \notin User

\* Orders come with an int.
ASSUME VolumeAssumption == \A volume \in Volume : volume \in (-IntMax - 1)..IntMax

VARIABLES
  order_node_map,   \* id -> the order, from its resting to its fill or cancellation
  order_queues,     \* side -> price -> ids in line; a price, once there, stays
  order_pq,         \* side -> prices of the levels in the side's heap
  volume_at_price,  \* side -> price in whole units -> volume
  filled_trades,    \* every trade of this book, in order
  id_counter,       \* the last id GenerateId handed out, to any book
  call,             \* the HandleOrder in progress, or the last one's OrderResult
  committed         \* auxiliary: user -> side -> volume sent and not cancelled

bookVars == <<order_node_map, order_queues, order_pq, volume_at_price, filled_trades>>
vars == <<order_node_map, order_queues, order_pq, volume_at_price, filled_trades,
          id_counter, call, committed>>

Side == {"BID", "ASK"}
Opposite(side) == IF side = "ASK" THEN "BID" ELSE "ASK"

Units(price) == price \div TicksPerUnit

NoOrderId == -1
NoCall == [phase |-> "none", user |-> NoUser, side |-> "BID", price |-> 0,
           asked |-> 0, volume |-> 0, trades |-> <<>>, order_id |-> NoOrderId]

Init ==
  /\ order_node_map = <<>>
  /\ order_queues = [side \in Side |-> <<>>]
  /\ order_pq = [side \in Side |-> {}]
  /\ volume_at_price = [side \in Side |-> [unit \in {Units(p) : p \in Price} |-> 0]]
  /\ filled_trades = <<>>
  /\ id_counter = 0
  /\ call = NoCall
  /\ committed = [user \in User |-> [side \in Side |-> 0]]

-----------------------------------------------------------------------------
(* Levels and heaps.  An operator named Broken... is a definition with a    *)
(* slip in it: the properties below are tried on it, and it is part of no   *)
(* specification.                                                           *)

HasOrders(side, price) == order_queues[side][price] # <<>>

\* The heap's comparators: asks cheapest first, bids dearest first.
AtLeastAsGood(side, p, q) == IF side = "ASK" THEN p <= q ELSE p >= q

IsTop(side, price) ==
  /\ price \in order_pq[side]
  /\ \A other \in order_pq[side] : AtLeastAsGood(side, price, other)

\* The heap after its top is popped until it is a level of keep.
PopUntil(side, keep) ==
  {p \in order_pq[side] : \E q \in keep : AtLeastAsGood(side, q, p)}

\* The heap without this level if its line is empty.
BrokenPopIfEmpty(side, price, line) ==  \* pops with every fill
  [order_pq EXCEPT ![side] = @ \ {price}]

PopIfEmpty(side, price, line) ==
  IF line = <<>> THEN [order_pq EXCEPT ![side] = @ \ {price}] ELSE order_pq

\* CleanupPriorityQueue.
CleanedUp(side) == PopUntil(side, {p \in order_pq[side] : HasOrders(side, p)})

BrokenPricesMatch(aggressive_price, opposite_side_price, opposite_side) ==  \* equal prices miss
  IF opposite_side = "BID"
  THEN opposite_side_price > aggressive_price
  ELSE aggressive_price > opposite_side_price

\* PricesMatch.
PricesMatch(aggressive_price, opposite_side_price, opposite_side) ==
  LET bid_price == IF opposite_side = "BID" THEN opposite_side_price ELSE aggressive_price
      ask_price == IF opposite_side = "BID" THEN aggressive_price ELSE opposite_side_price
  IN  bid_price >= ask_price

BrokenGenerateTrade(id, opposite_side, user, opposite_user, price, volume) ==  \* one way round
  [trade_id |-> id, price |-> Units(price), volume |-> volume,
   bid_user_id |-> user, ask_user_id |-> opposite_user]

BrokenGenerateTradePrice(id, opposite_side, user, opposite_user, price, volume) ==
  [trade_id |-> id, price |-> Units(call.price), volume |-> volume,  \* the price that came
   bid_user_id |-> IF opposite_side = "ASK" THEN user ELSE opposite_user,
   ask_user_id |-> IF opposite_side = "ASK" THEN opposite_user ELSE user]

\* GenerateTrade.  The constructor of Trade takes the price as an int.
GenerateTrade(id, opposite_side, user, opposite_user, price, volume) ==
  [trade_id |-> id, price |-> Units(price), volume |-> volume,
   bid_user_id |-> IF opposite_side = "ASK" THEN user ELSE opposite_user,
   ask_user_id |-> IF opposite_side = "ASK" THEN opposite_user ELSE user]

\* An int that goes over its largest value comes out at its smallest.
Wrapped(n) == ((n + IntMax + 1) % (2 * IntMax + 2)) - IntMax - 1

AddVolume(side, price, volume) ==
  volume_at_price' = [volume_at_price EXCEPT ![side][Units(price)] = Wrapped(@ + volume)]

-----------------------------------------------------------------------------
(* HandleOrder.                                                            *)

Idle == call.phase # "matching"

\* The bound on ids: an order of this volume draws at most one id per share.
IdsLeft(volume) == id_counter + volume <= MaxId

\* The checks before anything is touched: the order is refused.
RejectOrder(price, volume) ==
  /\ Idle
  /\ price <= 0 \/ volume <= 0
  /\ call' = NoCall
  /\ UNCHANGED <<bookVars, id_counter, committed>>

HandleOrder(user, side, price, volume) ==
  /\ Idle
  /\ price > 0 /\ volume > 0
  /\ IdsLeft(volume)
  /\ order_pq' = [s \in Side |-> CleanedUp(s)]
  /\ call' = [NoCall EXCEPT !.phase = "matching", !.user = user, !.side = side,
                            !.price = price, !.asked = volume, !.volume = volume]
  /\ committed' = [committed EXCEPT ![user][side] = @ + volume]
  /\ UNCHANGED <<order_node_map, order_queues, volume_at_price, filled_trades, id_counter>>

\* The loop's condition, and the level at the top of the other side's heap.
LoopLevel(price) ==
  /\ call.phase = "matching"
  /\ call.volume > 0
  /\ IsTop(Opposite(call.side), price)

Matches(price) ==
  /\ HasOrders(Opposite(call.side), price)
  /\ PricesMatch(call.price, price, Opposite(call.side))

\* A level that lost its last order since it was pushed.
SkipEmptyLevel(price) ==
  /\ LoopLevel(price)
  /\ ~HasOrders(Opposite(call.side), price)
  /\ order_pq' = [order_pq EXCEPT ![Opposite(call.side)] = @ \ {price}]
  /\ UNCHANGED <<order_node_map, order_queues, volume_at_price, filled_trades,
                 id_counter, call, committed>>

BrokenIsWashTrade(order) == FALSE  \* no test for the same user

IsWashTrade(order) == order.user_id = call.user

\* The line at a price of the other side without its first order.
WithoutFirst(price) ==
  [order_queues EXCEPT ![Opposite(call.side)][price] = Tail(@)]

BrokenCancelWashTrade(price) ==  \* leaves the order in line and goes round again
  /\ LoopLevel(price)
  /\ Matches(price)
  /\ IsWashTrade(order_node_map[Head(order_queues[Opposite(call.side)][price])])
  /\ UNCHANGED vars

BrokenCancelWashTradeRequeues(price) ==  \* the order goes to the end of the line
  LET line == order_queues[Opposite(call.side)][price]
  IN  /\ LoopLevel(price)
      /\ Matches(price)
      /\ IsWashTrade(order_node_map[Head(line)])
      /\ order_queues' = [order_queues EXCEPT ![Opposite(call.side)][price] =
                            Append(Tail(line), Head(line))]
      /\ UNCHANGED <<order_node_map, order_pq, volume_at_price, filled_trades,
                     id_counter, call, committed>>

BrokenCancelWashTradeVolume(price) ==  \* takes the volume, which CancelOrder takes again
  LET order == order_node_map[Head(order_queues[Opposite(call.side)][price])]
  IN  /\ LoopLevel(price)
      /\ Matches(price)
      /\ IsWashTrade(order)
      /\ order_queues' = WithoutFirst(price)
      /\ AddVolume(Opposite(call.side), price, -order.volume)
      /\ UNCHANGED <<order_node_map, order_pq, filled_trades, id_counter, call, committed>>

\* The best opposite order is of the same user: it is taken out of line, and
\* nothing else is done about it.  It stays in order_node_map.
CancelWashTrade(price) ==
  /\ LoopLevel(price)
  /\ Matches(price)
  /\ IsWashTrade(order_node_map[Head(order_queues[Opposite(call.side)][price])])
  /\ order_queues' = WithoutFirst(price)
  /\ UNCHANGED <<order_node_map, order_pq, volume_at_price, filled_trades,
                 id_counter, call, committed>>

BrokenVolFilled(order) == call.volume  \* fills more than rests there

VolFilled(order) == IF call.volume <= order.volume THEN call.volume ELSE order.volume

Fill(price) ==
  LET opposite_side == Opposite(call.side)
      id == Head(order_queues[opposite_side][price])
      current == order_node_map[id]
      vol_filled == VolFilled(current)
      fully == current.volume = vol_filled
      trade == GenerateTrade(id_counter + 1, opposite_side, call.user, current.user_id,
                             price, vol_filled)
  IN  /\ LoopLevel(price)
      /\ Matches(price)
      /\ ~IsWashTrade(current)
      /\ order_node_map' = IF fully
                           THEN Restrict(order_node_map, DOMAIN order_node_map \ {id})
                           ELSE [order_node_map EXCEPT ![id].volume = @ - vol_filled]
      /\ order_queues' = IF fully THEN WithoutFirst(price) ELSE order_queues
      /\ order_pq' = PopIfEmpty(opposite_side, price, order_queues'[opposite_side][price])
      /\ AddVolume(opposite_side, price, -vol_filled)
      /\ filled_trades' = Append(filled_trades, trade)
      /\ id_counter' = id_counter + 1
      /\ call' = [call EXCEPT !.volume = @ - vol_filled, !.trades = Append(@, trade)]
      /\ UNCHANGED committed

\* The loop ends: the heap is empty, the order is filled, or prices stop matching.
LoopEnds ==
  /\ call.phase = "matching"
  /\ \/ order_pq[Opposite(call.side)] = {}
     \/ call.volume = 0
     \/ \E price \in order_pq[Opposite(call.side)] :
          /\ IsTop(Opposite(call.side), price)
          /\ HasOrders(Opposite(call.side), price)
          /\ ~PricesMatch(call.price, price, Opposite(call.side))

ReturnFilled ==
  /\ LoopEnds
  /\ call.volume = 0
  /\ call' = [call EXCEPT !.phase = "returned"]
  /\ UNCHANGED <<bookVars, id_counter, committed>>

BrokenAddOrderToBook(id, order) ==  \* joins the line at its head
  LET side == order.order_type
      levels == order_queues[side]
      known == order.price \in DOMAIN levels
  IN  /\ order_node_map' = [i \in DOMAIN order_node_map \cup {id} |->
                              IF i = id THEN order ELSE order_node_map[i]]
      /\ order_queues' = [order_queues EXCEPT ![side] =
                            [p \in DOMAIN levels \cup {order.price} |->
                               IF p # order.price THEN levels[p]
                               ELSE IF known THEN <<id>> \o levels[p] ELSE <<id>>]]
      /\ order_pq' = IF known THEN order_pq
                     ELSE [order_pq EXCEPT ![side] = @ \cup {order.price}]

\* AddOrderToBook: only a price this side has never seen gets a new level, and
\* only a new level is pushed on the heap.
AddOrderToBook(id, order) ==
  LET side == order.order_type
      levels == order_queues[side]
      known == order.price \in DOMAIN levels
  IN  /\ order_node_map' = [i \in DOMAIN order_node_map \cup {id} |->
                              IF i = id THEN order ELSE order_node_map[i]]
      /\ order_queues' = [order_queues EXCEPT ![side] =
                            [p \in DOMAIN levels \cup {order.price} |->
                               IF p # order.price THEN levels[p]
                               ELSE IF known THEN Append(levels[p], id) ELSE <<id>>]]
      /\ order_pq' = IF known THEN order_pq
                     ELSE [order_pq EXCEPT ![side] = @ \cup {order.price}]

BrokenRestRemainder ==  \* rests the volume sent, not the volume left
  LET id == id_counter + 1
  IN  /\ LoopEnds
      /\ call.volume > 0
      /\ AddOrderToBook(id, [user_id |-> call.user, volume |-> call.asked,
                             price |-> call.price, order_type |-> call.side])
      /\ AddVolume(call.side, call.price, call.asked)
      /\ id_counter' = id
      /\ call' = [call EXCEPT !.phase = "returned", !.order_id = id]
      /\ UNCHANGED <<filled_trades, committed>>

BrokenRestRemainderId ==  \* rests under the last id handed out
  LET id == Max({1, id_counter})
  IN  /\ LoopEnds
      /\ call.volume > 0
      /\ AddOrderToBook(id, [user_id |-> call.user, volume |-> call.volume,
                             price |-> call.price, order_type |-> call.side])
      /\ AddVolume(call.side, call.price, call.volume)
      /\ id_counter' = id
      /\ call' = [call EXCEPT !.phase = "returned", !.order_id = id]
      /\ UNCHANGED <<filled_trades, committed>>

RestRemainder ==
  LET id == id_counter + 1
  IN  /\ LoopEnds
      /\ call.volume > 0
      /\ AddOrderToBook(id, [user_id |-> call.user, volume |-> call.volume,
                             price |-> call.price, order_type |-> call.side])
      /\ AddVolume(call.side, call.price, call.volume)
      /\ id_counter' = id
      /\ call' = [call EXCEPT !.phase = "returned", !.order_id = id]
      /\ UNCHANGED <<filled_trades, committed>>

\* One turn of the loop, or what follows it.
HandleOrderStep ==
  \/ \E price \in Price : SkipEmptyLevel(price) \/ CancelWashTrade(price) \/ Fill(price)
  \/ ReturnFilled
  \/ RestRemainder

-----------------------------------------------------------------------------
(* The other calls.                                                        *)

BrokenCancelOrder(id) ==  \* erases the node and leaves it in line
  /\ Idle
  /\ id \in DOMAIN order_node_map
  /\ LET order == order_node_map[id]
     IN  /\ AddVolume(order.order_type, order.price, -order.volume)
         /\ order_node_map' = Restrict(order_node_map, DOMAIN order_node_map \ {id})
         /\ committed' = [committed EXCEPT ![order.user_id][order.order_type] = @ - order.volume]
  /\ call' = NoCall
  /\ UNCHANGED <<order_queues, order_pq, filled_trades, id_counter>>

\* The order leaves the volume of its price, its line if it is still in it
\* (RemoveOrder does nothing for one a wash trade took out), and the map.
CancelOrder(id) ==
  /\ Idle
  /\ id \in DOMAIN order_node_map
  /\ LET order == order_node_map[id]
         line == order_queues[order.order_type][order.price]
     IN  /\ AddVolume(order.order_type, order.price, -order.volume)
         /\ \/ \E i \in 1..Len(line) :
                 /\ line[i] = id
                 /\ order_queues' = [order_queues EXCEPT
                                       ![order.order_type][order.price] = RemoveAt(line, i)]
            \/ /\ \A i \in 1..Len(line) : line[i] # id
               /\ UNCHANGED order_queues
         /\ order_node_map' = Restrict(order_node_map, DOMAIN order_node_map \ {id})
         /\ committed' = [committed EXCEPT ![order.user_id][order.order_type] = @ - order.volume]
  /\ call' = NoCall
  /\ UNCHANGED <<order_pq, filled_trades, id_counter>>

\* out_of_range.
CancelUnknownOrder(id) ==
  /\ Idle
  /\ id \notin DOMAIN order_node_map
  /\ call' = NoCall
  /\ UNCHANGED <<bookVars, id_counter, committed>>

\* GetTopOfBook pops a level without orders and one without volume.
Alive(side) ==
  {p \in order_pq[side] : HasOrders(side, p) /\ volume_at_price[side][Units(p)] # 0}

BrokenGetTopOfBook ==  \* forgets the levels it pops
  /\ Idle
  /\ order_pq' = [side \in Side |-> PopUntil(side, Alive(side))]
  /\ order_queues' = [side \in Side |->
                        Restrict(order_queues[side],
                                 DOMAIN order_queues[side] \ (order_pq[side] \ order_pq'[side]))]
  /\ call' = NoCall
  /\ UNCHANGED <<order_node_map, volume_at_price, filled_trades, id_counter, committed>>

GetTopOfBook ==
  /\ Idle
  /\ order_pq' = [side \in Side |-> PopUntil(side, Alive(side))]
  /\ call' = NoCall
  /\ UNCHANGED <<order_node_map, order_queues, volume_at_price, filled_trades,
                 id_counter, committed>>

\* What it answers for a side: the best level left on the heap, in whole units.
\* A level with a volume below zero stops the search and is not reported.
BestOfSide(side) ==
  {[price |-> Units(p), volume |-> volume_at_price[side][Units(p)]] :
     p \in {q \in Alive(side) : /\ \A other \in Alive(side) : AtLeastAsGood(side, q, other)
                                /\ volume_at_price[side][Units(q)] > 0}}

GetVolume(price, side) == volume_at_price[side][Units(price)]

GetPreviousTrades(num_previous_trades) ==
  SubSeq(filled_trades, Max({0, Len(filled_trades) - num_previous_trades}) + 1,
         Len(filled_trades))

\* GenerateId counts for every book of the process: another book takes an id,
\* also while this one matches an order.  (The bound leaves that order its ids.)
OtherBookGeneratesId ==
  /\ IdsLeft(1 + (IF Idle THEN 0 ELSE call.volume))
  /\ id_counter' = id_counter + 1
  /\ UNCHANGED <<bookVars, call, committed>>

Next ==
  \/ \E user \in User, side \in Side, price \in Price, volume \in Volume :
       HandleOrder(user, side, price, volume)
  \/ \E price \in Price, volume \in Volume : RejectOrder(price, volume)
  \/ HandleOrderStep
  \/ \E id \in 1..MaxId : CancelOrder(id) \/ CancelUnknownOrder(id)
  \/ GetTopOfBook
  \/ OtherBookGeneratesId

\* The thread in HandleOrder keeps running.
Fairness == WF_vars(HandleOrderStep)

Spec == Init /\ [][Next]_vars /\ Fairness
-----------------------------------------------------------------------------
(* What must hold.                                                         *)

OrderNode == [user_id : User, volume : Nat \ {0}, price : Price \ {0}, order_type : Side]
Trade == [trade_id : Nat, price : Nat, volume : Nat,
          bid_user_id : User, ask_user_id : User]

\* Order nodes, levels, heaps, volumes, trades and the call in progress have
\* the types their declarations give them.
TypeOK ==
  /\ DOMAIN order_node_map \subseteq 1..id_counter
  /\ \A id \in DOMAIN order_node_map :
       order_node_map[id] \in OrderNode
  /\ DOMAIN order_queues = Side
  /\ \A side \in Side :
       /\ DOMAIN order_queues[side] \subseteq Price \ {0}
       /\ \A price \in DOMAIN order_queues[side] : order_queues[side][price] \in Seq(Nat)
  /\ order_pq \in [Side -> SUBSET (Price \ {0})]
  /\ volume_at_price \in [Side -> [{Units(p) : p \in Price} -> Int]]
  /\ filled_trades \in Seq(Trade)
  /\ id_counter \in 0..MaxId
  /\ call \in [phase : {"none", "matching", "returned"}, user : User \cup {NoUser},
               side : Side, price : Nat, asked : Nat, volume : Nat,
               trades : Seq(Trade), order_id : Nat \cup {NoOrderId}]
  /\ committed \in [User -> [Side -> Int]]

InLine(side, price, id) ==
  \E i \in 1..Len(order_queues[side][price]) : order_queues[side][price][i] = id

\* The ids of a line are those of live orders of its side and price, in the
\* order they were handed out (so no order is in line twice).
LiveLine(nodes, side, price, line) ==
  /\ \A i \in 1..Len(line) :
       /\ line[i] \in DOMAIN nodes
       /\ nodes[line[i]].order_type = side
       /\ nodes[line[i]].price = price
  /\ \A i, j \in 1..Len(line) : i < j => line[i] < line[j]

\* No level points at a node that has been erased or that belongs to another
\* side or price, orders stand in line in the order they came, and the heap
\* holds only levels there are.  HandleOrder and CancelOrder follow these
\* pointers without a test.
LevelsHoldLiveOrders ==
  \A side \in Side :
    /\ order_pq[side] \subseteq DOMAIN order_queues[side]
    /\ \A price \in DOMAIN order_queues[side] :
         LiveLine(order_node_map, side, price, order_queues[side][price])

\* Every order of the map has the level CancelOrder looks up for it.
EveryOrderHasItsLevel ==
  \A id \in DOMAIN order_node_map :
    order_node_map[id].price \in DOMAIN order_queues[order_node_map[id].order_type]

\* The volume of some of the orders of a map, or of some trades of a sequence.
VolumeOf(records, which) == SumFunction([x \in which |-> records[x].volume])

OrdersInUnit(nodes, side, unit) ==
  {id \in DOMAIN nodes : nodes[id].order_type = side /\ Units(nodes[id].price) = unit}

VolumeInUnit(side, unit) == VolumeOf(order_node_map, OrdersInUnit(order_node_map, side, unit))

\* The volume kept for a price is the sum over all the orders of order_node_map
\* whose price falls on that whole unit, as an int holds it: nothing is lost or
\* counted twice by fills, cancellations, wash trades and the conversion of the
\* price, and a sum that went over the largest int comes back with the orders.
VolumeAccounting ==
  \A side \in Side : \A unit \in DOMAIN volume_at_price[side] :
    volume_at_price[side][unit] = Wrapped(VolumeInUnit(side, unit))

\* Orders that both sides' heaps can see never cross: what could have traded
\* has traded, whatever levels were emptied, skipped or popped on the way.
VisibleBookUncrossed ==
  \A bid \in order_pq["BID"], ask \in order_pq["ASK"] :
    HasOrders("BID", bid) /\ HasOrders("ASK", ask) => bid < ask

\* The trades in which a user is on a side, and his orders on it.
TradesOf(trades, user, side) ==
  LET of == IF side = "BID" THEN "bid_user_id" ELSE "ask_user_id"
  IN  {i \in DOMAIN trades : trades[i][of] = user}

OrdersOf(nodes, user, side) ==
  {id \in DOMAIN nodes : nodes[id].user_id = user /\ nodes[id].order_type = side}

BeingMatched(user, side) ==
  IF call.phase = "matching" /\ call.user = user /\ call.side = side THEN call.volume ELSE 0

\* Every share a user has sent to a side and not cancelled is in a trade of
\* his, in an order of his in the map, or in the order being matched.
SharesConserved ==
  \A user \in User, side \in Side :
    committed[user][side] =
      VolumeOf(filled_trades, TradesOf(filled_trades, user, side))
      + VolumeOf(order_node_map, OrdersOf(order_node_map, user, side))
      + BeingMatched(user, side)

\* A level is taken off a heap only when no order is left in it: neither the
\* clean-up of HandleOrder, its loop, nor a GetTopOfBook hides an order, unless
\* the volume of the level's unit is more than an int holds.
OnlyEmptyLevelsLeaveTheHeap ==
  [][\A side \in Side : \A price \in order_pq[side] \ order_pq'[side] :
       \/ order_queues'[side][price] = <<>>
       \/ VolumeInUnit(side, Units(price)) > IntMax]_vars

TakenFrom(id) ==
  /\ call.phase = "matching"
  /\ id \notin DOMAIN order_node_map' \/ order_node_map'[id].volume < order_node_map[id].volume

\* No order that the heap of its side can see comes before this one.
HasPriority(id) ==
  LET side == order_node_map[id].order_type
      own == order_node_map[id].price
  IN  \A price \in order_pq[side] : \A i \in 1..Len(order_queues[side][price]) :
        LET rival == order_queues[side][price][i]
        IN  \/ rival = id
            \/ price = own /\ rival > id
            \/ side = "ASK" /\ price > own
            \/ side = "BID" /\ price < own

\* A trade takes from the order that has price and time priority among all the
\* orders the other side's heap can see.
PriceTimePriority ==
  [][\A id \in DOMAIN order_node_map : TakenFrom(id) => HasPriority(id)]_vars

\* The limits of the two orders of a trade that takes from this one.
BidLimit(id) ==
  IF order_node_map[id].order_type = "BID" THEN order_node_map[id].price ELSE call.price
AskLimit(id) ==
  IF order_node_map[id].order_type = "ASK" THEN order_node_map[id].price ELSE call.price

\* A trade is recorded at the price of the order that waited, less its fraction
\* of a unit, and not at the one that came.  So a buyer is never recorded above
\* his limit; a seller may be recorded below his, but by less than a unit.
TradesAreAtTheRestingPrice ==
  [][\A id \in DOMAIN order_node_map :
       TakenFrom(id) =>
         LET recorded == Last(filled_trades').price
         IN  /\ recorded = Units(order_node_map[id].price)
             /\ recorded * TicksPerUnit <= BidLimit(id)
             /\ (recorded + 1) * TicksPerUnit > AskLimit(id)]_vars

Resting(id) == InLine(order_node_map[id].order_type, order_node_map[id].price, id)

StaysOut(id) ==
  IF id \in DOMAIN order_node_map'
  THEN order_node_map'[id] = order_node_map[id] /\ ~Resting(id)'
  ELSE Idle

\* An order a wash trade took out of line is out for good: it never comes back
\* into a line and never trades again.
WashedOrdersStayOut ==
  [][\A id \in DOMAIN order_node_map : ~Resting(id) => StaysOut(id)]_vars

\* What the submitter is told: the trades he is handed and the volume left
\* under the id he is handed add up to what he sent.
OrderResultAccountsForTheOrder ==
  call.phase = "returned" =>
    call.asked = VolumeOf(call.trades, DOMAIN call.trades)
                 + (IF call.order_id = NoOrderId THEN 0
                    ELSE order_node_map[call.order_id].volume)

\* HandleOrder returns, although its loop goes round without a fill after every
\* wash trade and every empty level.
EveryOrderReturns == call.phase = "matching" ~> call.phase # "matching"

\* The book as its users see it: the orders in line, the order being matched
\* and the trades.  A trade is only ever between crossing orders of different
\* users, for no more than either has left, and is recorded as it was made.
RestingIds == {id \in DOMAIN order_node_map : Resting(id)}

RestingOrders == [id \in RestingIds |-> order_node_map[id]]

Incoming ==
  IF call.phase = "matching"
  THEN {[user_id |-> call.user, volume |-> call.volume,
         price |-> call.price, order_type |-> call.side]}
  ELSE {}

Logged(trade) == [trade_id |-> trade.trade_id, volume |-> trade.volume,
                  bid_user_id |-> trade.bid_user_id, ask_user_id |-> trade.ask_user_id]

Log == [i \in 1..Len(filled_trades) |-> Logged(filled_trades[i])]

Engine == INSTANCE MatchingEngine WITH
  resting  <- RestingOrders,
  incoming <- Incoming,
  log      <- Log,
  last_id  <- id_counter

ImplementsMatchingEngine == Engine!Spec

\* The turns a call has left at most: each fills something, takes an order of the
\* other side out of line, or takes a level off that side's heap.
TurnsLeft ==
  call.volume + Cardinality(RestingIds) + Cardinality(order_pq[Opposite(call.side)])

\* HandleOrder's loop does not go round for nothing: after each of its turns, also
\* those that continue without a fill, fewer are left.  (An id that another book
\* draws meanwhile is no turn of this loop.)
TurnsRunOut ==
  [][call.phase = "matching" /\ call'.phase = "matching" => TurnsLeft' < TurnsLeft]_<<bookVars, call>>

-----------------------------------------------------------------------------
(* What the repository says of the book and the code does not do.          *)

\* limit_order_book.cpp:358, "containing the best bid, best ask, and their
\* volumes": GetTopOfBook reports, for a side with orders in line, a price at
\* least as good as each of theirs.  A price that once left the heap is never
\* pushed again, so orders that rest there later are in line and not reported
\* (nor matched).
TopOfBookShowsTheBestOrder ==
  Idle => \A side \in Side : \A price \in DOMAIN order_queues[side] :
            HasOrders(side, price) =>
              \E best \in BestOfSide(side) : AtLeastAsGood(side, best.price, Units(price))

\* limit_order_book.cpp:290, "The total volume available at the specified price
\* level": GetVolume is the volume of the orders in line at the price.  A wash
\* trade takes an order out of line and leaves its volume.
VolumeIsAvailable ==
  Idle => \A side \in Side : \A price \in DOMAIN order_queues[side] :
            GetVolume(price, side) =
              VolumeOf(order_node_map,
                       {id \in DOMAIN order_node_map : InLine(side, price, id)})

\* limit_order_book.cpp:178, "The price at which the trade was executed": the price
\* of a Trade is the one its orders met at.  It is an int, so the fraction is lost.
TradesShowTheirPrice ==
  [][\A id \in DOMAIN order_node_map :
       TakenFrom(id) =>
         Last(filled_trades').price * TicksPerUnit = order_node_map[id].price]_vars
=============================================================================
