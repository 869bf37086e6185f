--------------------------- MODULE MatchingProofs ---------------------------
(***************************************************************************)
(* How LimitOrderBook.tla matches, for any users, prices, volumes and number*)
(* of ids, on the invariant of LimitOrderBookProofs.tla: the visible book   *)
(* never crosses, a trade takes from the order that has priority, at its    *)
(* price, an order that a wash trade took out of line stays out, and the    *)
(* book implements MatchingEngine.tla: every step is a step of the engine,  *)
(* or one that the engine's view does not show.                             *)
(***************************************************************************)
EXTENDS LimitOrderBookProofs

\* A heap that is not empty has a top.
LEMMA HeapHasTop ==
  ASSUME NEW S, IsFiniteSet(S), S \subseteq Nat, S # {}, NEW side
  PROVE  \E p \in S : \A q \in S : AtLeastAsGood(side, p, q)
<1> DEFINE best(T) == \E p \in T : \A q \in T : AtLeastAsGood(side, p, q)
           bad == {T \in SUBSET S : T # {} /\ ~best(T)}
<1>1. SUFFICES ASSUME bad # {} PROVE FALSE
  OBVIOUS
<1>2. PICK T \in bad : \A U \in bad : U \subseteq T => U = T
  <2>1. bad \subseteq SUBSET S /\ IsFiniteSet(S) /\ bad # {}
    BY <1>1
  <2> HIDE DEF bad
  <2> QED BY ONLY <2>1, MinimalSubset
<1>3. T \subseteq Nat /\ T # {} /\ ~best(T)
  BY <1>2
<1>4. PICK x \in T : TRUE
  BY <1>3
<1>5. T \ {x} = {} \/ best(T \ {x})
  <2>1. T \ {x} \notin bad /\ T \ {x} \in SUBSET S
    BY <1>2, <1>4
  <2> QED BY <2>1
<1>6. \A q \in T : q \in Nat
  BY <1>3
<1>7. CASE T \ {x} = {}
  <2>1. \A q \in T : q = x
    BY <1>7
  <2> QED BY <1>3, <1>4, <2>1 DEF AtLeastAsGood
<1>8. CASE best(T \ {x})
  <2>1. PICK p \in T \ {x} : \A q \in T \ {x} : AtLeastAsGood(side, p, q)
    BY <1>8
  <2>2. CASE AtLeastAsGood(side, p, x)
    <3>1. \A q \in T : AtLeastAsGood(side, p, q)
      BY <2>1, <2>2
    <3> QED BY <1>3, <2>1, <3>1
  <2>3. CASE ~AtLeastAsGood(side, p, x)
    <3>1. \A q \in T : AtLeastAsGood(side, x, q)
      BY <1>4, <1>6, <2>1, <2>3 DEF AtLeastAsGood
    <3> QED BY <1>3, <1>4, <3>1
  <2> QED BY <2>2, <2>3
<1> QED BY <1>5, <1>7, <1>8

USE BookAssumption

\* While no order is being matched the loop's actions are off, and the calls
\* are off while one is (another book may draw an id at any time): one case split
\* for every proof below.
LEMMA MatchingSteps ==
  ASSUME [Next]_vars, call.phase = "matching"
  PROVE  \/ \E price \in Price : SkipEmptyLevel(price)
         \/ \E price \in Price : CancelWashTrade(price)
         \/ \E price \in Price : Fill(price)
         \/ ReturnFilled
         \/ RestRemainder
         \/ OtherBookGeneratesId
         \/ UNCHANGED vars
BY DEF Next, HandleOrderStep, HandleOrder, RejectOrder, CancelOrder, CancelUnknownOrder,
       GetTopOfBook, Idle

LEMMA IdleSteps ==
  ASSUME [Next]_vars, call.phase # "matching"
  PROVE  \/ \E user \in User, side \in Side, price \in Price, volume \in Volume :
              HandleOrder(user, side, price, volume)
         \/ \E price \in Price, volume \in Volume : RejectOrder(price, volume)
         \/ \E id \in 1..MaxId : CancelOrder(id)
         \/ \E id \in 1..MaxId : CancelUnknownOrder(id)
         \/ GetTopOfBook
         \/ OtherBookGeneratesId
         \/ UNCHANGED vars
BY DEF Next, HandleOrderStep, SkipEmptyLevel, CancelWashTrade, Fill, ReturnFilled,
       RestRemainder, LoopLevel, LoopEnds

\* The heaps hold prices.
LEMMA HeapFacts ==
  ASSUME IInv, NEW side \in Side
  PROVE  /\ order_pq[side] \subseteq Price \ {0}
         /\ order_pq[side] \subseteq DOMAIN order_queues[side]
BY TypeParts DEF IInv, RestOK, LevelsHoldLiveOrders

-----------------------------------------------------------------------------
(* What Fill and RestRemainder do to the orders of the map.                *)

\* A fill touches the head of the line at the top of the heap and no other order.
LEMMA FillTouchesTheHead ==
  ASSUME IInv, NEW price, Fill(price),
         NEW id \in DOMAIN order_node_map,
         id # Head(order_queues[Opposite(call.side)][price])
  PROVE  id \in DOMAIN order_node_map' /\ order_node_map'[id] = order_node_map[id]
<1>1. PICK head, filled :
        /\ head = Head(order_queues[Opposite(call.side)][price])
        /\ order_node_map' = IF order_node_map[head].volume = filled
                             THEN Restrict(order_node_map, DOMAIN order_node_map \ {head})
                             ELSE [order_node_map EXCEPT ![head].volume = @ - filled]
  BY DEF Fill
<1> QED BY <1>1 DEF Restrict

\* Coming to rest adds an order under a new id and leaves the others alone.
LEMMA RestAddsAnOrder ==
  ASSUME IInv, RestRemainder
  PROVE  /\ id_counter + 1 \notin DOMAIN order_node_map
         /\ DOMAIN order_node_map' = DOMAIN order_node_map \cup {id_counter + 1}
         /\ \A id \in DOMAIN order_node_map : order_node_map'[id] = order_node_map[id]
<1>1. DOMAIN order_node_map \subseteq 1..id_counter /\ id_counter \in Nat
  BY TypeParts DEF IInv, NodesOK, RestOK
<1>2. PICK order : AddOrderToBook(id_counter + 1, order)
  BY DEF RestRemainder
<1>3. id_counter + 1 \notin DOMAIN order_node_map
  BY <1>1
<1> QED BY <1>2, <1>3 DEF AddOrderToBook

-----------------------------------------------------------------------------
(* Price and time priority.                                                *)

\* The order the loop looks at comes before every other one the heap can see.
LEMMA HeadHasPriority ==
  ASSUME IInv, NEW price, LoopLevel(price), Matches(price),
         NEW p \in order_pq[Opposite(call.side)],
         NEW i \in 1..Len(order_queues[Opposite(call.side)][p])
  PROVE  LET side == Opposite(call.side)
             id == Head(order_queues[side][price])
             rival == order_queues[side][p][i]
         IN  \/ rival = id
             \/ p = price /\ rival > id
             \/ side = "ASK" /\ p > price
             \/ side = "BID" /\ p < price
<1>1. PICK side : side = Opposite(call.side)
  OBVIOUS
<1>2. /\ side \in Side
      /\ price \in DOMAIN order_queues[side]
      /\ 1 \in 1..Len(order_queues[side][price])
      /\ Head(order_queues[side][price]) = order_queues[side][price][1]
  BY <1>1, HeadFacts
<1>3. CASE p = price
  <2>1. LiveLine(order_node_map, side, price, order_queues[side][price])
    BY <1>2, LineFacts
  <2>2. i \in 1..Len(order_queues[side][price])
    BY <1>1, <1>3
  <2>3. order_queues[side][price] \in Seq(Nat)
    BY <1>2, LineFacts
  <2>4. i = 1 \/ order_queues[side][price][1] < order_queues[side][price][i]
    BY <1>2, <2>1, <2>2 DEF LiveLine
  <2>5. /\ order_queues[side][price][1] \in Nat
        /\ order_queues[side][price][i] \in Nat
    BY <1>2, <2>2, <2>3, ElementOfSeq
  <2> QED BY <1>1, <1>2, <1>3, <2>4, <2>5
<1>4. CASE p # price
  <2>1. /\ p \in Price \ {0} /\ price \in Price \ {0}
        /\ price \in order_pq[side] /\ p \in order_pq[side]
    BY <1>1, <1>2, HeapFacts DEF LoopLevel, IsTop
  <2>2. AtLeastAsGood(side, price, p)
    BY <1>1, <2>1 DEF LoopLevel, IsTop
  <2>3. side = "ASK" \/ side = "BID"
    BY <1>2 DEF Side
  <2> QED BY <1>1, <1>4, <2>1, <2>2, <2>3 DEF AtLeastAsGood
<1> QED BY <1>3, <1>4

\* Only a fill takes from an order, and from the one at the head of its level.
LEMMA TakenFromTheHead ==
  ASSUME IInv, [Next]_vars, NEW id \in DOMAIN order_node_map, TakenFrom(id)
  PROVE  \E price \in Price :
           /\ Fill(price) /\ LoopLevel(price) /\ Matches(price)
           /\ id = Head(order_queues[Opposite(call.side)][price])
           /\ order_node_map[id].order_type = Opposite(call.side)
           /\ order_node_map[id].price = price
<1>1. call.phase = "matching" /\ order_node_map[id].volume \in Nat
  BY NodeFacts DEF TakenFrom
<1>2. ~(id \in DOMAIN order_node_map' /\ order_node_map'[id] = order_node_map[id])
  BY <1>1 DEF TakenFrom
<1>3. PICK price \in Price : Fill(price)
  <2>1. UNCHANGED order_node_map => FALSE
    BY <1>2
  <2>2. RestRemainder => FALSE
    BY <1>2, RestAddsAnOrder
  <2> QED BY <1>1, <2>1, <2>2, MatchingSteps
          DEF SkipEmptyLevel, CancelWashTrade, ReturnFilled, OtherBookGeneratesId,
              bookVars, vars
<1>4. id = Head(order_queues[Opposite(call.side)][price])
  BY <1>2, <1>3, FillTouchesTheHead
<1>5. LoopLevel(price) /\ Matches(price)
  BY <1>3 DEF Fill
<1>6. /\ order_node_map[id].order_type = Opposite(call.side)
      /\ order_node_map[id].price = price
  BY <1>4, <1>5, HeadFacts
<1> QED BY <1>3, <1>4, <1>5, <1>6

LEMMA StepsHonourPriority ==
  IInv /\ [Next]_vars => [\A id \in DOMAIN order_node_map : TakenFrom(id) => HasPriority(id)]_vars
<1>1. SUFFICES ASSUME IInv, [Next]_vars, NEW id \in DOMAIN order_node_map, TakenFrom(id)
               PROVE  HasPriority(id)
  OBVIOUS
<1>2. PICK price \in Price :
        /\ LoopLevel(price) /\ Matches(price)
        /\ id = Head(order_queues[Opposite(call.side)][price])
        /\ order_node_map[id].order_type = Opposite(call.side)
        /\ order_node_map[id].price = price
  BY <1>1, TakenFromTheHead
<1>3. ASSUME NEW p \in order_pq[Opposite(call.side)],
             NEW i \in 1..Len(order_queues[Opposite(call.side)][p])
      PROVE  LET side == Opposite(call.side)
                 rival == order_queues[side][p][i]
             IN  \/ rival = id
                 \/ p = price /\ rival > id
                 \/ side = "ASK" /\ p > price
                 \/ side = "BID" /\ p < price
  BY <1>1, <1>2, HeadHasPriority
<1> QED BY <1>2, <1>3 DEF HasPriority

\* Every trade takes from the order with price and time priority among those
\* the other side's heap can see, for any users, prices and volumes.
THEOREM TradesHonourPriority == Spec => PriceTimePriority
BY SpecIInv, StepsHonourPriority, PTL DEF Spec, PriceTimePriority

LEMMA LastOfAppended ==
  ASSUME NEW S, NEW s \in Seq(S), NEW e
  PROVE  Last(Append(s, e)) = e
<1>1. Append(s, e)[Len(Append(s, e))] = e
  OBVIOUS
<1> QED BY <1>1 DEF Last

\* An int keeps the whole units of a price: no more than it, and less than one short.
LEMMA UnitsRoundDown ==
  ASSUME NEW price \in Nat
  PROVE  /\ Units(price) \in Nat
         /\ Units(price) * TicksPerUnit <= price
         /\ price < (Units(price) + 1) * TicksPerUnit
<1>1. TicksPerUnit \in Nat \ {0}
  OBVIOUS
<1> QED BY <1>1, SMTT(30) DEF Units

LEMMA StepsTradeAtTheRestingPrice ==
  ASSUME IInv, [Next]_vars, NEW id \in DOMAIN order_node_map, TakenFrom(id)
  PROVE  LET recorded == Last(filled_trades').price
         IN  /\ recorded = Units(order_node_map[id].price)
             /\ recorded * TicksPerUnit <= BidLimit(id)
             /\ (recorded + 1) * TicksPerUnit > AskLimit(id)
<1>1. IInv /\ [Next]_vars /\ TakenFrom(id)
  OBVIOUS
<1>2. PICK price \in Price :
        /\ Fill(price) /\ Matches(price)
        /\ order_node_map[id].price = price
        /\ order_node_map[id].order_type = Opposite(call.side)
  BY <1>1, TakenFromTheHead
<1>3. PICK trade : filled_trades' = Append(filled_trades, trade) /\ trade.price = Units(price)
  <2> DEFINE current == order_node_map[Head(order_queues[Opposite(call.side)][price])]
             made == GenerateTrade(id_counter + 1, Opposite(call.side), call.user,
                                   current.user_id, price, VolFilled(current))
  <2>1. filled_trades' = Append(filled_trades, made)
    BY <1>2, Zenon DEF Fill
  <2>2. made.price = Units(price)
    BY DEF GenerateTrade
  <2> QED BY <2>1, <2>2
<1>4. filled_trades \in Seq(Trade)
  BY <1>1, TypeParts DEF IInv, RestOK
<1>5. Last(filled_trades') = trade
  BY <1>3, <1>4, LastOfAppended
<1>6. Last(filled_trades').price = Units(price)
  BY <1>3, <1>5
<1>7. /\ price \in Nat /\ call.price \in Nat /\ Opposite(call.side) \in Side
      /\ TicksPerUnit \in Nat \ {0}
  BY <1>1, SideFacts, TypeParts DEF IInv, CallType
<1>8. Units(price) * TicksPerUnit <= price /\ price < (Units(price) + 1) * TicksPerUnit
  BY <1>7, UnitsRoundDown
<1>9. Units(price) \in Nat
  BY <1>7, UnitsRoundDown
<1>10. CASE Opposite(call.side) = "BID"
  <2>1. BidLimit(id) = price /\ AskLimit(id) = call.price /\ price >= call.price
    BY <1>2, <1>10 DEF BidLimit, AskLimit, Matches, PricesMatch
  <2> QED BY <1>2, <1>6, <1>7, <1>8, <1>9, <2>1
<1>11. CASE Opposite(call.side) = "ASK"
  <2>1. AskLimit(id) = price /\ BidLimit(id) = call.price /\ call.price >= price
    BY <1>2, <1>11 DEF BidLimit, AskLimit, Matches, PricesMatch
  <2> QED BY <1>2, <1>6, <1>7, <1>8, <1>9, <2>1
<1> QED BY <1>7, <1>10, <1>11 DEF Side

\* Every trade is recorded at the whole units of the price of the order that
\* waited: never above the buyer's limit and less than a unit below the seller's,
\* for any users, prices, volumes and ticks.
THEOREM TradesHonourThePrice == Spec => TradesAreAtTheRestingPrice
<1> DEFINE Honoured(id) == LET recorded == Last(filled_trades').price
                           IN  /\ recorded = Units(order_node_map[id].price)
                               /\ recorded * TicksPerUnit <= BidLimit(id)
                               /\ (recorded + 1) * TicksPerUnit > AskLimit(id)
           Honours == \A id \in DOMAIN order_node_map : TakenFrom(id) => Honoured(id)
<1>1. IInv /\ [Next]_vars => [Honours]_vars
  BY StepsTradeAtTheRestingPrice
<1> HIDE DEF Honours
<1>2. Spec => [][Honours]_vars
  BY <1>1, SpecIInv, PTL DEF Spec
<1> QED BY <1>2 DEF Honours, TradesAreAtTheRestingPrice

-----------------------------------------------------------------------------
(* Orders out of line.                                                     *)

\* An order that is in no line stays out when the lines only get shorter.
LEMMA OutWhenLinesShrink ==
  ASSUME IInv, NEW id \in DOMAIN order_node_map, ~Resting(id),
         id \in DOMAIN order_node_map', order_node_map'[id] = order_node_map[id],
         LET side == order_node_map[id].order_type
             price == order_node_map[id].price
         IN  \A j \in 1..Len(order_queues'[side][price]) :
               \E i \in 1..Len(order_queues[side][price]) :
                 order_queues'[side][price][j] = order_queues[side][price][i]
  PROVE  StaysOut(id)
BY DEF StaysOut, Resting, InLine

\* No line has an order that it did not have.
LinesShrink ==
  \A side \in Side : \A price \in DOMAIN order_queues[side] :
    \A j \in 1..Len(order_queues'[side][price]) :
      \E i \in 1..Len(order_queues[side][price]) :
        order_queues'[side][price][j] = order_queues[side][price][i]

LEMMA ShrunkLine ==
  ASSUME IInv, NEW side \in Side, NEW price \in DOMAIN order_queues[side],
         NEW k \in 1..Len(order_queues[side][price]),
         order_queues' = [order_queues EXCEPT ![side][price] = RemoveAt(@, k)]
  PROVE  LinesShrink
<1>1. SUFFICES ASSUME NEW s \in Side, NEW p \in DOMAIN order_queues[s],
                      NEW j \in 1..Len(order_queues'[s][p])
               PROVE  \E i \in 1..Len(order_queues[s][p]) :
                        order_queues'[s][p][j] = order_queues[s][p][i]
  BY DEF LinesShrink
<1>2. DOMAIN order_queues = Side
  BY TypeParts DEF IInv, LinesOK
<1>3. CASE s = side /\ p = price
  <2>1. order_queues'[s][p] = RemoveAt(order_queues[s][p], k)
    BY <1>2, <1>3
  <2>2. order_queues[s][p] \in Seq(Nat) /\ k \in 1..Len(order_queues[s][p])
    BY <1>3, LineFacts
  <2>3. /\ Len(order_queues[s][p]) \in Nat
        /\ Len(RemoveAt(order_queues[s][p], k)) = Len(order_queues[s][p]) - 1
        /\ \A i \in 1..(Len(order_queues[s][p]) - 1) :
             RemoveAt(order_queues[s][p], k)[i] = IF i < k THEN order_queues[s][p][i]
                                                  ELSE order_queues[s][p][i + 1]
    BY <2>2, LenProperties, RemoveAtProperties
  <2>4. /\ j \in 1..(Len(order_queues[s][p]) - 1)
        /\ j \in 1..Len(order_queues[s][p])
        /\ j + 1 \in 1..Len(order_queues[s][p])
    BY <2>1, <2>3
  <2> QED BY <2>1, <2>3, <2>4
<1>4. CASE s # side \/ p # price
  BY <1>2, <1>4
<1> QED BY <1>3, <1>4

\* The three ways an order leaves its line.
LEMMA HeadLeavesItsLine ==
  ASSUME IInv, NEW price, LoopLevel(price), Matches(price),
         order_queues' = WithoutFirst(price)
  PROVE  LinesShrink
<1>1. PICK side : side = Opposite(call.side)
  OBVIOUS
<1>2. /\ side \in Side
      /\ price \in DOMAIN order_queues[side]
      /\ 1 \in 1..Len(order_queues[side][price])
      /\ Tail(order_queues[side][price]) = RemoveAt(order_queues[side][price], 1)
  BY <1>1, HeadFacts
<1>3. order_queues' = [order_queues EXCEPT ![side][price] = RemoveAt(@, 1)]
  BY <1>1, <1>2 DEF WithoutFirst
<1> QED BY <1>2, <1>3, ShrunkLine

LEMMA FillShrinksLines ==
  ASSUME IInv, NEW price, Fill(price)
  PROVE  LinesShrink
<1>1. LoopLevel(price) /\ Matches(price)
  BY DEF Fill
<1>2. order_queues' = WithoutFirst(price) \/ UNCHANGED order_queues
  BY DEF Fill
<1>3. UNCHANGED order_queues => LinesShrink
  BY DEF LinesShrink
<1> QED BY <1>1, <1>2, <1>3, HeadLeavesItsLine

LEMMA CancelShrinksLines ==
  ASSUME IInv, NEW id, CancelOrder(id)
  PROVE  /\ LinesShrink
         /\ DOMAIN order_node_map' = DOMAIN order_node_map \ {id}
         /\ \A i \in DOMAIN order_node_map \ {id} : order_node_map'[i] = order_node_map[i]
<1>1. PICK side, price :
        side = order_node_map[id].order_type /\ price = order_node_map[id].price
  OBVIOUS
<1>2. /\ id \in DOMAIN order_node_map
      /\ order_node_map' = Restrict(order_node_map, DOMAIN order_node_map \ {id})
      /\ \/ \E i \in 1..Len(order_queues[side][price]) :
              order_queues' = [order_queues EXCEPT
                                 ![side][price] = RemoveAt(order_queues[side][price], i)]
         \/ UNCHANGED order_queues
  BY <1>1 DEF CancelOrder
<1>3. side \in Side /\ price \in DOMAIN order_queues[side]
  BY <1>1, <1>2, NodeFacts
<1>4. CASE \E i \in 1..Len(order_queues[side][price]) :
             order_queues' = [order_queues EXCEPT
                                ![side][price] = RemoveAt(order_queues[side][price], i)]
  <2>1. PICK i \in 1..Len(order_queues[side][price]) :
          order_queues' = [order_queues EXCEPT ![side][price] = RemoveAt(@, i)]
    BY <1>4
  <2> QED BY <1>2, <1>3, <2>1, ShrunkLine DEF Restrict
<1>5. CASE UNCHANGED order_queues
  BY <1>2, <1>5 DEF Restrict, LinesShrink
<1> QED BY <1>2, <1>4, <1>5

LEMMA OutStaysOut ==
  ASSUME IInv, NEW id \in DOMAIN order_node_map, ~Resting(id), LinesShrink,
         id \in DOMAIN order_node_map', order_node_map'[id] = order_node_map[id]
  PROVE  StaysOut(id)
<1>1. /\ order_node_map[id].order_type \in Side
      /\ order_node_map[id].price \in DOMAIN order_queues[order_node_map[id].order_type]
  BY NodeFacts
<1> QED BY <1>1, OutWhenLinesShrink DEF LinesShrink

\* Only a new order joins a line.
LEMMA RestKeepsOthersOut ==
  ASSUME IInv, RestRemainder, NEW id \in DOMAIN order_node_map, ~Resting(id)
  PROVE  StaysOut(id)
<1>1. PICK order : /\ order = [user_id |-> call.user, volume |-> call.volume,
                               price |-> call.price, order_type |-> call.side]
                   /\ AddOrderToBook(id_counter + 1, order)
  BY DEF RestRemainder
<1>2. PICK side, price : /\ side = order_node_map[id].order_type
                         /\ price = order_node_map[id].price
  OBVIOUS
<1>3. /\ id_counter + 1 # id
      /\ id \in DOMAIN order_node_map'
      /\ order_node_map'[id] = order_node_map[id]
  BY RestAddsAnOrder
<1>4. side \in Side /\ price \in DOMAIN order_queues[side] /\ DOMAIN order_queues = Side
  BY <1>2, NodeFacts, TypeParts DEF IInv, LinesOK
<1>5. \A i \in 1..Len(order_queues[side][price]) : order_queues[side][price][i] # id
  BY <1>2 DEF Resting, InLine
<1>6. \/ order_queues'[side][price] = order_queues[side][price]
      \/ order_queues'[side][price] = Append(order_queues[side][price], id_counter + 1)
  BY <1>1, <1>4 DEF AddOrderToBook
<1>7. \A j \in 1..Len(order_queues'[side][price]) : order_queues'[side][price][j] # id
  <2>1. CASE order_queues'[side][price] = order_queues[side][price]
    BY <1>5, <2>1
  <2>2. CASE order_queues'[side][price] = Append(order_queues[side][price], id_counter + 1)
    <3>1. order_queues[side][price] \in Seq(Nat) /\ id_counter + 1 \in Nat
      BY <1>4, LineFacts, TypeParts DEF IInv, RestOK
    <3>2. /\ Len(order_queues[side][price]) \in Nat
          /\ Len(Append(order_queues[side][price], id_counter + 1))
               = Len(order_queues[side][price]) + 1
          /\ \A i \in 1..Len(order_queues[side][price]) :
               Append(order_queues[side][price], id_counter + 1)[i]
                 = order_queues[side][price][i]
          /\ Append(order_queues[side][price], id_counter + 1)
               [Len(order_queues[side][price]) + 1] = id_counter + 1
      BY <3>1, AppendProperties, LenProperties
    <3>3. \A j \in 1..(Len(order_queues[side][price]) + 1) :
            j \in 1..Len(order_queues[side][price]) \/ j = Len(order_queues[side][price]) + 1
      BY <3>2
    <3> QED BY <1>3, <1>5, <2>2, <3>2, <3>3
  <2> QED BY <1>6, <2>1, <2>2
<1> QED BY <1>2, <1>3, <1>7 DEF StaysOut, Resting, InLine

LEMMA StepsKeepWashedOrdersOut ==
  IInv /\ [Next]_vars =>
    [\A id \in DOMAIN order_node_map : ~Resting(id) => StaysOut(id)]_vars
<1>1. SUFFICES ASSUME IInv, [Next]_vars, NEW id \in DOMAIN order_node_map, ~Resting(id)
               PROVE  StaysOut(id)
  OBVIOUS
<1>2. UNCHANGED <<order_node_map, order_queues>> => StaysOut(id)
  <2>1. UNCHANGED <<order_node_map, order_queues>> => LinesShrink
    BY DEF LinesShrink
  <2> QED BY <1>1, <2>1, OutStaysOut
<1>3. ASSUME NEW price, CancelWashTrade(price)
      PROVE  StaysOut(id)
  <2>1. LinesShrink /\ UNCHANGED order_node_map
    BY <1>1, <1>3, HeadLeavesItsLine DEF CancelWashTrade
  <2> QED BY <1>1, <2>1, OutStaysOut
<1>4. ASSUME NEW price, Fill(price)
      PROVE  StaysOut(id)
  <2>1. id # Head(order_queues[Opposite(call.side)][price])
    <3>1. LoopLevel(price) /\ Matches(price)
      BY <1>4 DEF Fill
    <3> QED BY <1>1, <3>1, HeadFacts DEF Resting, InLine
  <2>2. id \in DOMAIN order_node_map' /\ order_node_map'[id] = order_node_map[id]
    BY <1>1, <1>4, <2>1, FillTouchesTheHead
  <2> QED BY <1>1, <1>4, <2>2, FillShrinksLines, OutStaysOut
<1>5. ASSUME NEW other, CancelOrder(other)
      PROVE  StaysOut(id)
  <2>1. CASE other = id
    BY <1>1, <1>5, <2>1, CancelShrinksLines DEF StaysOut, CancelOrder
  <2>2. CASE other # id
    BY <1>1, <1>5, <2>2, CancelShrinksLines, OutStaysOut
  <2> QED BY <2>1, <2>2
<1>6. CASE call.phase = "matching"
  BY <1>1, <1>2, <1>3, <1>4, <1>6, MatchingSteps, RestKeepsOthersOut
     DEF SkipEmptyLevel, ReturnFilled, OtherBookGeneratesId, bookVars, vars
<1>7. CASE call.phase # "matching"
  BY <1>1, <1>2, <1>5, <1>7, IdleSteps
     DEF HandleOrder, RejectOrder, CancelUnknownOrder, GetTopOfBook, OtherBookGeneratesId,
         bookVars, vars
<1> QED BY <1>6, <1>7

\* What a wash trade took out of line neither trades nor returns to a line, for
\* any users, prices and volumes: until its owner cancels it, it only sits in
\* order_node_map.
THEOREM WashedOrdersNeverReturn == Spec => WashedOrdersStayOut
BY SpecIInv, StepsKeepWashedOrdersOut, PTL DEF Spec, WashedOrdersStayOut

-----------------------------------------------------------------------------
(* The visible book.                                                       *)

\* Nothing comes into sight: levels leave the heaps and orders leave lines.
NothingAppears ==
  \A side \in Side : \A price \in order_pq'[side] :
    /\ price \in order_pq[side]
    /\ HasOrders(side, price)' => HasOrders(side, price)

LEMMA NothingAppearsUncrossed ==
  ASSUME VisibleBookUncrossed, NothingAppears
  PROVE  VisibleBookUncrossed'
BY SideFacts DEF VisibleBookUncrossed, NothingAppears

\* An order leaves a line that has orders.
LEMMA HeadOutOfSight ==
  ASSUME IInv, NEW price, LoopLevel(price), Matches(price),
         order_queues' = WithoutFirst(price) \/ UNCHANGED order_queues,
         \A side \in Side : order_pq'[side] \subseteq order_pq[side]
  PROVE  NothingAppears
<1>1. DOMAIN order_queues = Side /\ Opposite(call.side) \in Side
  BY HeadFacts, TypeParts DEF IInv, LinesOK
<1>2. ASSUME NEW side \in Side, NEW p \in order_pq[side], order_queues'[side][p] # <<>>
      PROVE  order_queues[side][p] # <<>>
  <2>1. CASE side = Opposite(call.side) /\ p = price
    BY <2>1 DEF Matches, HasOrders
  <2>2. CASE side # Opposite(call.side) \/ p # price
    <3>1. order_queues'[side][p] = order_queues[side][p]
      BY <1>1, <2>2, HeapFacts DEF WithoutFirst
    <3> QED BY <1>2, <3>1
  <2> QED BY <2>1, <2>2
<1> QED BY <1>2 DEF NothingAppears, HasOrders

LEMMA CancelOutOfSight ==
  ASSUME IInv, NEW id, CancelOrder(id)
  PROVE  NothingAppears
<1>1. PICK side, price :
        side = order_node_map[id].order_type /\ price = order_node_map[id].price
  OBVIOUS
<1>2. /\ \/ \E i \in 1..Len(order_queues[side][price]) :
              order_queues' = [order_queues EXCEPT
                                 ![side][price] = RemoveAt(order_queues[side][price], i)]
         \/ UNCHANGED order_queues
      /\ UNCHANGED order_pq
      /\ id \in DOMAIN order_node_map
  BY <1>1 DEF CancelOrder
<1>3. DOMAIN order_queues = Side /\ side \in Side /\ price \in DOMAIN order_queues[side]
  BY <1>1, <1>2, NodeFacts, TypeParts DEF IInv, LinesOK
<1>4. ASSUME NEW s \in Side, NEW p \in order_pq[s], order_queues'[s][p] # <<>>
      PROVE  order_queues[s][p] # <<>>
  <2>1. CASE UNCHANGED order_queues
    BY <1>4, <2>1
  <2>2. ASSUME NEW i \in 1..Len(order_queues[side][price]),
               order_queues' = [order_queues EXCEPT
                                  ![side][price] = RemoveAt(order_queues[side][price], i)]
        PROVE  order_queues[s][p] # <<>>
    <3>1. CASE s = side /\ p = price
      <4>1. order_queues[side][price] = <<>> => i \in 1..0
        BY <2>2, EmptySeq
      <4>2. i \notin 1..0
        OBVIOUS
      <4> QED BY <3>1, <4>1, <4>2
    <3>2. CASE s # side \/ p # price
      BY <1>3, <1>4, <2>2, <3>2
    <3> QED BY <3>1, <3>2
  <2> QED BY <1>2, <2>1, <2>2
<1> QED BY <1>2, <1>4 DEF NothingAppears, HasOrders

\* A fill at a level only ever takes that level off the heap.
LEMMA FillOutOfSight ==
  ASSUME IInv, NEW price, Fill(price)
  PROVE  NothingAppears
<1>1. /\ LoopLevel(price) /\ Matches(price)
      /\ order_queues' = WithoutFirst(price) \/ UNCHANGED order_queues
      /\ \E line : order_pq' = PopIfEmpty(Opposite(call.side), price, line)
  BY DEF Fill
<1>2. order_pq \in [Side -> SUBSET (Price \ {0})]
  BY TypeParts DEF IInv, RestOK
<1>3. \A side \in Side : order_pq'[side] \subseteq order_pq[side]
  BY <1>1, <1>2 DEF PopIfEmpty
<1> QED BY <1>1, <1>3, HeadOutOfSight

\* The order that comes to rest does not cross the other side's best visible
\* level, so none behind it.
LEMMA RestUncrossed ==
  ASSUME IInv, VisibleBookUncrossed, RestRemainder
  PROVE  VisibleBookUncrossed'
<1>1. PICK own, other, price, order :
        /\ own = call.side /\ other = Opposite(call.side) /\ price = call.price
        /\ order = [user_id |-> call.user, volume |-> call.volume,
                    price |-> call.price, order_type |-> call.side]
        /\ AddOrderToBook(id_counter + 1, order)
  BY DEF RestRemainder
<1>2. /\ own \in Side /\ other \in Side /\ own # other
      /\ DOMAIN order_queues = Side
      /\ order_pq \in [Side -> SUBSET (Price \ {0})]
      /\ price \in Price \ {0}
  BY <1>1, SideFacts, TypeParts
     DEF IInv, LinesOK, RestOK, CallType, CallInProgress, RestRemainder, LoopEnds
<1>3. /\ order_pq'[other] = order_pq[other]
      /\ order_queues'[other] = order_queues[other]
      /\ order_pq'[own] \subseteq order_pq[own] \cup {price}
      /\ \A p \in DOMAIN order_queues[own] \ {price} :
           order_queues'[own][p] = order_queues[own][p]
      /\ order_pq[own] \subseteq DOMAIN order_queues[own]
  BY <1>1, <1>2, HeapFacts DEF AddOrderToBook
<1>4. \A p \in order_pq[other] : ~PricesMatch(price, p, other)
  <2>1. SUFFICES ASSUME NEW p \in order_pq[other] PROVE ~PricesMatch(price, p, other)
    OBVIOUS
  <2>2. call.volume # 0
    BY TypeParts DEF RestRemainder, IInv, CallType
  <2>3. PICK top \in order_pq[other] : IsTop(other, top) /\ ~PricesMatch(price, top, other)
    BY <1>1, <2>1, <2>2 DEF RestRemainder, LoopEnds
  <2>4. AtLeastAsGood(other, top, p) /\ top \in Nat /\ p \in Nat /\ price \in Nat
    BY <1>2, <2>1, <2>3 DEF IsTop
  <2>5. other = "ASK" \/ other = "BID"
    BY <1>2 DEF Side
  <2> QED BY <2>3, <2>4, <2>5 DEF PricesMatch, AtLeastAsGood
<1>5. \A bid \in order_pq["BID"], ask \in order_pq["ASK"] :
        HasOrders("BID", bid) /\ HasOrders("ASK", ask) => bid < ask
  BY DEF VisibleBookUncrossed
<1>6. CASE own = "BID"
  <2>1. other = "ASK" /\ \A p \in order_pq["ASK"] : price < p
    <3>1. other = "ASK"
      BY <1>2, <1>6 DEF Side
    <3> QED BY <1>2, <1>4, <3>1 DEF PricesMatch
  <2>2. SUFFICES ASSUME NEW bid \in order_pq'["BID"], NEW ask \in order_pq'["ASK"],
                        HasOrders("BID", bid)', HasOrders("ASK", ask)'
                 PROVE  bid < ask
    BY DEF VisibleBookUncrossed
  <2>3. CASE bid = price
    BY <1>3, <2>1, <2>2, <2>3
  <2>4. CASE bid # price
    BY <1>3, <1>5, <1>6, <2>1, <2>2, <2>4 DEF HasOrders
  <2> QED BY <2>3, <2>4
<1>7. CASE own = "ASK"
  <2>1. other = "BID" /\ \A p \in order_pq["BID"] : p < price
    <3>1. other = "BID"
      BY <1>2, <1>7 DEF Side
    <3> QED BY <1>2, <1>4, <3>1 DEF PricesMatch
  <2>2. SUFFICES ASSUME NEW bid \in order_pq'["BID"], NEW ask \in order_pq'["ASK"],
                        HasOrders("BID", bid)', HasOrders("ASK", ask)'
                 PROVE  bid < ask
    BY DEF VisibleBookUncrossed
  <2>3. CASE ask = price
    BY <1>3, <2>1, <2>2, <2>3
  <2>4. CASE ask # price
    BY <1>3, <1>5, <1>7, <2>1, <2>2, <2>4 DEF HasOrders
  <2> QED BY <2>3, <2>4
<1> QED BY <1>2, <1>6, <1>7 DEF Side

LEMMA NextUncrossed == IInv /\ VisibleBookUncrossed /\ [Next]_vars => VisibleBookUncrossed'
<1> SUFFICES ASSUME IInv, VisibleBookUncrossed, [Next]_vars PROVE VisibleBookUncrossed'
  OBVIOUS
<1>1. order_pq \in [Side -> SUBSET (Price \ {0})] /\ Opposite(call.side) \in Side
  BY SideFacts, TypeParts DEF IInv, RestOK, CallType
<1>2. UNCHANGED order_queues /\ (\A side \in Side : order_pq'[side] \subseteq order_pq[side])
        => NothingAppears
  BY DEF NothingAppears, HasOrders
<1>3. ASSUME NEW price, SkipEmptyLevel(price)
      PROVE  NothingAppears
  <2>1. \A side \in Side : order_pq'[side] \subseteq order_pq[side]
    BY <1>1, <1>3 DEF SkipEmptyLevel
  <2> QED BY <1>2, <1>3, <2>1 DEF SkipEmptyLevel
<1>4. ASSUME NEW price, CancelWashTrade(price)
      PROVE  NothingAppears
  BY <1>4, HeadOutOfSight DEF CancelWashTrade
<1>5. ASSUME NEW user, NEW side, NEW price, NEW volume, HandleOrder(user, side, price, volume)
      PROVE  NothingAppears
  BY <1>2, <1>5 DEF HandleOrder, CleanedUp, PopUntil
<1>6. GetTopOfBook => NothingAppears
  BY <1>2 DEF GetTopOfBook, PopUntil
<1>7. CASE call.phase = "matching"
  BY <1>2, <1>3, <1>4, <1>7, MatchingSteps, FillOutOfSight, NothingAppearsUncrossed,
     RestUncrossed DEF ReturnFilled, OtherBookGeneratesId, bookVars, vars
<1>8. CASE call.phase # "matching"
  BY <1>2, <1>5, <1>6, <1>8, IdleSteps, CancelOutOfSight, NothingAppearsUncrossed
     DEF RejectOrder, CancelUnknownOrder, OtherBookGeneratesId, bookVars, vars
<1> QED BY <1>7, <1>8

\* What both heaps can see never crosses, for any users, prices and volumes:
\* the loop leaves nothing tradeable between visible levels.
THEOREM VisibleBookNeverCrosses == Spec => []VisibleBookUncrossed
<1>1. Init => VisibleBookUncrossed
  BY SideFacts DEF Init, VisibleBookUncrossed
<1> QED BY <1>1, SpecIInv, NextUncrossed, PTL DEF Spec

-----------------------------------------------------------------------------
(* Who rests after a step.                                                 *)

Ids(line) == {line[i] : i \in 1..Len(line)}

\* The ids of a line after one place is taken out are the others.
LEMMA RemovedElement ==
  ASSUME NEW line \in Seq(Nat), NEW k \in 1..Len(line),
         \A i, j \in 1..Len(line) : i < j => line[i] < line[j]
  PROVE  Ids(RemoveAt(line, k)) = Ids(line) \ {line[k]}
<1>1. /\ Len(line) \in Nat
      /\ Len(RemoveAt(line, k)) = Len(line) - 1
      /\ \A j \in 1..(Len(line) - 1) :
           RemoveAt(line, k)[j] = IF j < k THEN line[j] ELSE line[j + 1]
      /\ \A i \in 1..Len(line) : line[i] \in Nat
  <2>1. Len(line) \in Nat /\ \A i \in 1..Len(line) : line[i] \in Nat
    BY LenProperties, ElementOfSeq
  <2> QED BY <2>1, RemoveAtProperties
<1>2. \A i \in 1..Len(line) : i # k => line[i] # line[k]
  BY <1>1
<1>3. ASSUME NEW j \in 1..(Len(line) - 1)
      PROVE  \E i \in 1..Len(line) : i # k /\ RemoveAt(line, k)[j] = line[i]
  <2>1. CASE j < k
    BY <1>1, <2>1
  <2>2. CASE ~(j < k)
    <3>1. j + 1 \in 1..Len(line) /\ j + 1 # k
      BY <1>1, <2>2
    <3> QED BY <1>1, <2>2, <3>1
  <2> QED BY <2>1, <2>2
<1>4. ASSUME NEW i \in 1..Len(line), i # k
      PROVE  \E j \in 1..(Len(line) - 1) : RemoveAt(line, k)[j] = line[i]
  <2>1. CASE i < k
    <3>1. i \in 1..(Len(line) - 1)
      BY <1>1, <2>1
    <3> QED BY <1>1, <2>1, <3>1
  <2>2. CASE ~(i < k)
    <3>1. i - 1 \in 1..(Len(line) - 1) /\ ~(i - 1 < k) /\ (i - 1) + 1 = i
      BY <1>1, <1>4, <2>2
    <3> QED BY <1>1, <3>1
  <2> QED BY <2>1, <2>2
<1>5. ASSUME NEW id \in Ids(RemoveAt(line, k))
      PROVE  id \in Ids(line) \ {line[k]}
  <2>1. PICK j \in 1..(Len(line) - 1) : id = RemoveAt(line, k)[j]
    BY <1>1, <1>5 DEF Ids
  <2>2. PICK i \in 1..Len(line) : i # k /\ RemoveAt(line, k)[j] = line[i]
    BY <1>3
  <2> QED BY <1>2, <2>1, <2>2 DEF Ids
<1>6. ASSUME NEW id \in Ids(line), id # line[k]
      PROVE  id \in Ids(RemoveAt(line, k))
  <2>1. PICK i \in 1..Len(line) : id = line[i]
    BY <1>6 DEF Ids
  <2>2. PICK j \in 1..(Len(line) - 1) : RemoveAt(line, k)[j] = line[i]
    BY <1>4, <1>6, <2>1
  <2>3. j \in 1..Len(RemoveAt(line, k))
    BY <1>1
  <2> QED BY <2>1, <2>2, <2>3 DEF Ids
<1> QED BY <1>5, <1>6

\* What RemoveOrder and Pop do to the lines.
LeavesLine(side, price, k) ==
  order_queues' = [order_queues EXCEPT ![side][price] = RemoveAt(@, k)]

\* Every line has the ids it had, without this one.
LinesLose(gone) ==
  \A s \in Side : \A p \in DOMAIN order_queues[s] :
    Ids(order_queues'[s][p]) = Ids(order_queues[s][p]) \ {gone}

\* An order taken out of its line was in no other and takes no other with it.
LEMMA OneLeavesItsLine ==
  ASSUME IInv, NEW side \in Side, NEW price \in DOMAIN order_queues[side],
         NEW k \in 1..Len(order_queues[side][price]),
         LeavesLine(side, price, k)
  PROVE  LinesLose(order_queues[side][price][k])
<1>1. DOMAIN order_queues = Side
  BY TypeParts DEF IInv, LinesOK
<1>2. Ids(order_queues'[side][price])
        = Ids(order_queues[side][price]) \ {order_queues[side][price][k]}
  <2>1. PICK line : line = order_queues[side][price]
    OBVIOUS
  <2>2. /\ line \in Seq(Nat) /\ k \in 1..Len(line)
        /\ \A i, j \in 1..Len(line) : i < j => line[i] < line[j]
    BY <2>1, LineFacts DEF LiveLine
  <2>3. Ids(RemoveAt(line, k)) = Ids(line) \ {line[k]}
    BY <2>2, RemovedElement
  <2>4. order_queues'[side][price] = RemoveAt(line, k)
    BY <1>1, <2>1 DEF LeavesLine
  <2> QED BY <2>1, <2>3, <2>4
<1>3. ASSUME NEW s \in Side, NEW p \in DOMAIN order_queues[s], s # side \/ p # price
      PROVE  Ids(order_queues'[s][p]) = Ids(order_queues[s][p]) \ {order_queues[side][price][k]}
  <2>1. order_queues'[s][p] = order_queues[s][p]
    BY <1>1, <1>3 DEF LeavesLine
  <2>2. /\ order_node_map[order_queues[side][price][k]].order_type = side
        /\ order_node_map[order_queues[side][price][k]].price = price
    BY LineFacts
  <2>3. \A i \in 1..Len(order_queues[s][p]) :
          /\ order_node_map[order_queues[s][p][i]].order_type = s
          /\ order_node_map[order_queues[s][p][i]].price = p
    BY LineFacts
  <2> QED BY <1>3, <2>1, <2>2, <2>3 DEF Ids
<1> QED BY <1>2, <1>3 DEF LinesLose

\* An order rests when its line has its id.
LEMMA RestingMeansInLine ==
  ASSUME NEW id
  PROVE  /\ Resting(id) <=>
              id \in Ids(order_queues[order_node_map[id].order_type][order_node_map[id].price])
         /\ Resting(id)' <=>
              id \in Ids(order_queues'[order_node_map'[id].order_type][order_node_map'[id].price])
BY DEF Resting, InLine, Ids

\* Nothing that the engine sees of the resting orders changes.
LEMMA SameRestingOrders ==
  ASSUME UNCHANGED <<order_node_map, order_queues>>
  PROVE  RestingOrders' = RestingOrders
BY DEF RestingOrders, RestingIds, Resting, InLine

\* One order leaves its line, and perhaps the map.
LEMMA OneStopsResting ==
  ASSUME IInv, NEW gone, LinesLose(gone),
         DOMAIN order_node_map \ {gone} \subseteq DOMAIN order_node_map',
         DOMAIN order_node_map' \subseteq DOMAIN order_node_map,
         gone \in DOMAIN order_node_map' => order_node_map'[gone] = order_node_map[gone],
         \A id \in DOMAIN order_node_map \ {gone} : order_node_map'[id] = order_node_map[id]
  PROVE  RestingOrders' = Engine!Without(gone)
<1>1. ASSUME NEW id \in DOMAIN order_node_map'
      PROVE  Resting(id)' <=> Resting(id) /\ id # gone
  <2>1. id \in DOMAIN order_node_map /\ order_node_map'[id] = order_node_map[id]
    OBVIOUS
  <2>2. PICK s, p : s = order_node_map[id].order_type /\ p = order_node_map[id].price
    OBVIOUS
  <2>3. s \in Side /\ p \in DOMAIN order_queues[s]
    BY <2>1, <2>2, NodeFacts
  <2>5. Ids(order_queues'[s][p]) = Ids(order_queues[s][p]) \ {gone}
    BY <2>3 DEF LinesLose
  <2>6. Resting(id) <=> id \in Ids(order_queues[s][p])
    BY <2>2, RestingMeansInLine
  <2>7. Resting(id)' <=> id \in Ids(order_queues'[s][p])
    BY <2>1, <2>2, RestingMeansInLine
  <2> QED BY <2>5, <2>6, <2>7
<1>2. RestingIds' = RestingIds \ {gone}
  BY <1>1 DEF RestingIds
<1>3. \A id \in RestingIds' : order_node_map'[id] = order_node_map[id]
  BY <1>2 DEF RestingIds
<1> QED BY <1>2, <1>3 DEF RestingOrders, Engine!Without
\* The head of the line the loop looks at rests; once it is out of line the
\* lines have lost it.
LEMMA HeadRests ==
  ASSUME IInv, NEW price, LoopLevel(price), Matches(price),
         NEW id, id = Head(order_queues[Opposite(call.side)][price])
  PROVE  /\ id \in DOMAIN RestingOrders
         /\ RestingOrders[id] = order_node_map[id]
         /\ id \in DOMAIN order_node_map
         /\ order_node_map[id].order_type = Opposite(call.side)
         /\ order_node_map[id].price = price
         /\ order_queues' = WithoutFirst(price) => LinesLose(id)
<1>1. PICK side : side = Opposite(call.side)
  OBVIOUS
<1>2. /\ side \in Side
      /\ price \in DOMAIN order_queues[side]
      /\ 1 \in 1..Len(order_queues[side][price])
      /\ id = order_queues[side][price][1]
      /\ id \in DOMAIN order_node_map
      /\ order_node_map[id].order_type = side
      /\ order_node_map[id].price = price
      /\ Tail(order_queues[side][price]) = RemoveAt(order_queues[side][price], 1)
  BY <1>1, HeadFacts
<1>3. Resting(id)
  BY <1>2, Zenon DEF Resting, InLine
<1>4. id \in DOMAIN RestingOrders /\ RestingOrders[id] = order_node_map[id]
  BY <1>2, <1>3 DEF RestingOrders, RestingIds
<1>5. ASSUME order_queues' = WithoutFirst(price)
      PROVE  LinesLose(id)
  <2>1. LeavesLine(side, price, 1)
    BY <1>1, <1>2, <1>5 DEF WithoutFirst, LeavesLine
  <2> QED BY <1>2, <2>1, OneLeavesItsLine
<1> QED BY <1>1, <1>2, <1>4, <1>5

-----------------------------------------------------------------------------
(* The log.                                                                *)

LEMMA FunctionIsSeq ==
  ASSUME NEW S, NEW n \in Nat, NEW f \in [1..n -> S]
  PROVE  f \in Seq(S) /\ Len(f) = n
<1>1. f \in Seq(S)
  BY SeqDef
<1>2. Len(f) \in Nat /\ 1..Len(f) = 1..n
  BY <1>1, LenProperties
<1> QED BY <1>1, <1>2

Entry == [trade_id : Nat, volume : Nat, bid_user_id : User, ask_user_id : User]

LEMMA LogType ==
  ASSUME filled_trades \in Seq(Trade)
  PROVE  Log \in Seq(Entry) /\ Len(Log) = Len(filled_trades)
<1>1. Len(filled_trades) \in Nat /\ \A i \in 1..Len(filled_trades) : filled_trades[i] \in Trade
  BY LenProperties, ElementOfSeq
<1>2. \A trade \in Trade : Logged(trade) \in Entry
  BY DEF Trade, Logged, Entry
<1>3. Log \in [1..Len(filled_trades) -> Entry]
  BY <1>1, <1>2 DEF Log
<1> QED BY <1>1, <1>3, FunctionIsSeq

\* A trade of the book is an entry of the engine's log.
LEMMA LogGrows ==
  ASSUME IInv, NEW trade \in Trade, filled_trades' = Append(filled_trades, trade)
  PROVE  Log' = Append(Log, Logged(trade))
<1>1. filled_trades \in Seq(Trade) /\ Len(filled_trades) \in Nat
  BY TypeParts, LenProperties DEF IInv, RestOK
<1>2. /\ filled_trades' \in Seq(Trade)
      /\ Len(filled_trades') = Len(filled_trades) + 1
      /\ \A i \in 1..Len(filled_trades) : filled_trades'[i] = filled_trades[i]
      /\ filled_trades'[Len(filled_trades) + 1] = trade
  BY <1>1, AppendProperties
<1>3. Log \in Seq(Entry) /\ Len(Log) = Len(filled_trades)
  BY <1>1, LogType
<1>4. Log' \in Seq(Entry) /\ Len(Log') = Len(filled_trades) + 1
  <2>1. \A i \in 1..(Len(filled_trades) + 1) : filled_trades'[i] \in Trade
    BY <1>2, ElementOfSeq
  <2>2. \A t \in Trade : Logged(t) \in Entry
    BY DEF Trade, Logged, Entry
  <2>3. Log' \in [1..(Len(filled_trades) + 1) -> Entry]
    BY <1>2, <2>1, <2>2 DEF Log, Logged
  <2> QED BY <1>1, <2>3, FunctionIsSeq
<1>5. Logged(trade) \in Entry
  BY DEF Trade, Logged, Entry
<1>6. /\ Append(Log, Logged(trade)) \in Seq(Entry)
      /\ Len(Append(Log, Logged(trade))) = Len(filled_trades) + 1
      /\ \A i \in 1..Len(filled_trades) : Append(Log, Logged(trade))[i] = Log[i]
      /\ Append(Log, Logged(trade))[Len(filled_trades) + 1] = Logged(trade)
  BY <1>3, <1>5, AppendProperties
<1>7. ASSUME NEW i \in 1..(Len(filled_trades) + 1)
      PROVE  Log'[i] = Append(Log, Logged(trade))[i]
  <2>1. Log'[i] = Logged(filled_trades'[i])
    BY <1>2, <1>7 DEF Log, Logged
  <2>2. CASE i = Len(filled_trades) + 1
    BY <1>2, <1>6, <2>1, <2>2
  <2>3. CASE i # Len(filled_trades) + 1
    <3>1. i \in 1..Len(filled_trades)
      BY <1>1, <2>3
    <3>2. Log[i] = Logged(filled_trades[i])
      BY <3>1 DEF Log
    <3> QED BY <1>2, <1>6, <2>1, <3>1, <3>2
  <2> QED BY <2>2, <2>3
<1> QED BY <1>4, <1>6, <1>7, SeqEqual

LEMMA SameLog ==
  ASSUME UNCHANGED filled_trades
  PROVE  Log' = Log
BY DEF Log, Logged

\* The book starts as the engine does.
LEMMA InitEngine == Init => Engine!Init
<1> SUFFICES ASSUME Init PROVE Engine!Init
  OBVIOUS
<1>1. RestingIds = {}
  BY DEF Init, RestingIds
<1>2. RestingOrders \in [1..0 -> {}]
  BY <1>1 DEF RestingOrders
<1>3. RestingOrders = <<>>
  BY <1>2, FunctionIsSeq, EmptySeq
<1>4. Log = <<>>
  <2>1. filled_trades = <<>> /\ filled_trades \in Seq(Trade) /\ Len(filled_trades) = 0
    BY EmptySeq DEF Init
  <2>2. Log \in Seq(Entry) /\ Len(Log) = 0
    BY <2>1, LogType
  <2> QED BY <2>2, EmptySeq
<1>5. Incoming = {} /\ id_counter = 0
  BY DEF Init, Incoming, NoCall
<1> QED BY <1>3, <1>4, <1>5 DEF Engine!Init
-----------------------------------------------------------------------------
(* The calls, each a step of the engine or none.                           *)

EngineStep == Engine!Next \/ UNCHANGED Engine!vars

LEMMA SameView ==
  ASSUME UNCHANGED <<order_node_map, order_queues, filled_trades, id_counter>>,
         Incoming' = Incoming
  PROVE  EngineStep
<1>1. RestingOrders' = RestingOrders /\ Log' = Log
  BY SameRestingOrders, SameLog
<1> QED BY <1>1 DEF EngineStep, Engine!vars

LEMMA NothingIncoming == call.phase # "matching" <=> Incoming = {}
BY DEF Incoming

LEMMA NothingIncomingAfter == call'.phase # "matching" <=> Incoming' = {}
BY DEF Incoming

LEMMA HandleOrderSubmits ==
  ASSUME NEW user \in User, NEW side \in Side, NEW price \in Price, NEW volume \in Volume,
         HandleOrder(user, side, price, volume)
  PROVE  EngineStep
<1>1. Incoming = {}
  BY NothingIncoming DEF HandleOrder, Idle
<1>2. Incoming' = {[user_id |-> user, volume |-> volume, price |-> price, order_type |-> side]}
  <2>1. /\ call'.phase = "matching" /\ call'.user = user /\ call'.side = side
        /\ call'.price = price /\ call'.volume = volume
    BY DEF HandleOrder, NoCall
  <2> QED BY <2>1 DEF Incoming
<1>3. RestingOrders' = RestingOrders /\ Log' = Log
  BY SameRestingOrders, SameLog DEF HandleOrder
<1>4. price > 0 /\ volume > 0 /\ UNCHANGED id_counter
  BY DEF HandleOrder
<1>5. Engine!Submit(user, side, price, volume)
  BY <1>1, <1>2, <1>3, <1>4 DEF Engine!Submit
<1>6. side \in Engine!Side
  BY DEF Side, Engine!Side
<1> QED BY <1>5, <1>6 DEF EngineStep, Engine!Next

\* The order being matched.
Matched == [user_id |-> call.user, volume |-> call.volume,
            price |-> call.price, order_type |-> call.side]

\* It crosses the order at the head of the line that the loop looks at.
LEMMA HeadCrosses ==
  ASSUME IInv, NEW price, LoopLevel(price), Matches(price),
         NEW id, id = Head(order_queues[Opposite(call.side)][price])
  PROVE  IF call.side = "ASK"
         THEN Engine!Cross(order_node_map[id], Matched)
         ELSE Engine!Cross(Matched, order_node_map[id])
<1>1. /\ order_node_map[id].order_type = Opposite(call.side)
      /\ order_node_map[id].price = price
  BY HeadRests
<1>2. call.side = "ASK" \/ call.side = "BID"
  BY TypeParts DEF IInv, CallType, Side
<1>3. PricesMatch(call.price, price, Opposite(call.side))
  BY DEF Matches
<1>4. CASE call.side = "ASK"
  <2>1. Opposite(call.side) = "BID" /\ price >= call.price
    BY <1>3, <1>4 DEF PricesMatch, Opposite
  <2> QED BY <1>1, <1>4, <2>1 DEF Engine!Cross, Matched
<1>5. CASE call.side = "BID"
  <2>1. Opposite(call.side) = "ASK" /\ call.price >= price
    BY <1>3, <1>5 DEF PricesMatch, Opposite
  <2> QED BY <1>1, <1>5, <2>1 DEF Engine!Cross, Matched
<1> QED BY <1>2, <1>4, <1>5

LEMMA CancelWashTradeStepsAside ==
  ASSUME IInv, NEW price, CancelWashTrade(price)
  PROVE  EngineStep
<1>1. LoopLevel(price) /\ Matches(price) /\ order_queues' = WithoutFirst(price)
  BY DEF CancelWashTrade
<1>2. PICK id : id = Head(order_queues[Opposite(call.side)][price])
  OBVIOUS
<1>3. /\ id \in DOMAIN RestingOrders
      /\ RestingOrders[id] = order_node_map[id]
      /\ LinesLose(id)
  BY <1>1, <1>2, HeadRests
<1>4. RestingOrders' = Engine!Without(id)
  <2>1. order_node_map' = order_node_map
    BY DEF CancelWashTrade
  <2> QED BY <1>3, <2>1, OneStopsResting
<1>5. Incoming = {Matched} /\ Incoming' = Incoming
  BY DEF Incoming, Matched, CancelWashTrade, LoopLevel
<1>6. Log' = Log /\ id_counter' = id_counter
  BY SameLog DEF CancelWashTrade
<1>7. Engine!Cross(Matched, RestingOrders[id]) \/ Engine!Cross(RestingOrders[id], Matched)
  BY <1>1, <1>2, <1>3, HeadCrosses
<1>8. RestingOrders[id].user_id = Matched.user_id
  BY <1>2, <1>3 DEF CancelWashTrade, IsWashTrade, Matched
<1>9. Engine!StepAside(id)
  BY <1>4, <1>5, <1>6, <1>7, <1>8 DEF Engine!StepAside
<1> QED BY <1>3, <1>9 DEF EngineStep, Engine!Next

LEMMA ReturnFilledFinishes ==
  ASSUME ReturnFilled
  PROVE  EngineStep
<1>1. Incoming = {Matched} /\ Matched.volume = 0
  BY DEF ReturnFilled, LoopEnds, Incoming, Matched
<1>2. Incoming' = {}
  <2>1. call' = [call EXCEPT !.phase = "returned"]
    BY DEF ReturnFilled
  <2> QED BY <2>1, NothingIncomingAfter
<1>3. RestingOrders' = RestingOrders /\ Log' = Log /\ id_counter' = id_counter
  BY SameRestingOrders, SameLog DEF ReturnFilled, bookVars
<1>4. Engine!Finish
  BY <1>1, <1>2, <1>3 DEF Engine!Finish
<1> QED BY <1>4 DEF EngineStep, Engine!Next

LEMMA OtherBookSkipsId ==
  ASSUME OtherBookGeneratesId
  PROVE  EngineStep
<1>1. RestingOrders' = RestingOrders /\ Log' = Log
  BY SameRestingOrders, SameLog DEF OtherBookGeneratesId, bookVars
<1>2. Incoming' = Incoming /\ id_counter' = id_counter + 1
  BY DEF OtherBookGeneratesId, Incoming
<1>3. Engine!SkipId
  BY <1>1, <1>2 DEF Engine!SkipId
<1> QED BY <1>3 DEF EngineStep, Engine!Next

\* Calls that change neither orders nor trades nor ids.
LEMMA OthersAreUnseen ==
  ASSUME \/ \E price, volume : RejectOrder(price, volume)
         \/ \E price : SkipEmptyLevel(price)
         \/ \E id : CancelUnknownOrder(id)
         \/ GetTopOfBook
         \/ UNCHANGED vars
  PROVE  EngineStep
<1>1. UNCHANGED <<order_node_map, order_queues, filled_trades, id_counter>>
  BY DEF RejectOrder, SkipEmptyLevel, CancelUnknownOrder, GetTopOfBook, bookVars, vars
<1>2. \/ call' = call
      \/ call' = NoCall /\ call.phase # "matching"
  BY DEF RejectOrder, SkipEmptyLevel, CancelUnknownOrder, GetTopOfBook, Idle, vars
<1>3. Incoming' = Incoming
  <2>1. CASE call' = call
    BY <2>1 DEF Incoming
  <2>2. CASE call' = NoCall /\ call.phase # "matching"
    BY <2>2, NothingIncoming, NothingIncomingAfter DEF NoCall
  <2> QED BY <1>2, <2>1, <2>2
<1> QED BY <1>1, <1>3, SameView
\* What a fill leaves of the order it takes from.
LEMMA FillTakesVolume ==
  ASSUME IInv, NEW price, Fill(price),
         NEW id, id = Head(order_queues[Opposite(call.side)][price]),
         NEW filled, filled = VolFilled(order_node_map[id])
  PROVE  RestingOrders' = IF filled = RestingOrders[id].volume
                          THEN Engine!Without(id)
                          ELSE [RestingOrders EXCEPT ![id].volume = @ - filled]
<1>1. LoopLevel(price) /\ Matches(price)
  BY Zenon DEF Fill
<1>2. /\ id \in DOMAIN RestingOrders
      /\ RestingOrders[id] = order_node_map[id]
      /\ id \in DOMAIN order_node_map
      /\ order_queues' = WithoutFirst(price) => LinesLose(id)
  BY <1>1, HeadRests
<1>3. CASE order_node_map[id].volume = filled
  <2>1. /\ order_node_map' = Restrict(order_node_map, DOMAIN order_node_map \ {id})
        /\ order_queues' = WithoutFirst(price)
    BY <1>3, Zenon DEF Fill
  <2>2. /\ DOMAIN order_node_map' = DOMAIN order_node_map \ {id}
        /\ \A other \in DOMAIN order_node_map \ {id} :
             order_node_map'[other] = order_node_map[other]
    BY <2>1 DEF Restrict
  <2>3. RestingOrders' = Engine!Without(id)
    BY <1>2, <2>1, <2>2, OneStopsResting
  <2> QED BY <1>2, <1>3, <2>3
<1>4. CASE order_node_map[id].volume # filled
  <2>1. /\ order_node_map' = [order_node_map EXCEPT ![id].volume = @ - filled]
        /\ order_queues' = order_queues
    BY <1>4, Zenon DEF Fill
  <2>2. DOMAIN order_node_map' = DOMAIN order_node_map
    BY <2>1
  <2>3. \A other \in DOMAIN order_node_map :
          order_node_map'[other] = IF other = id
                                   THEN [order_node_map[id] EXCEPT !.volume = @ - filled]
                                   ELSE order_node_map[other]
    BY <1>2, <2>1
  <2>4. \A other \in DOMAIN order_node_map : Resting(other)' <=> Resting(other)
    <3>1. order_node_map[id] \in OrderNode
      BY <1>2, NodeFacts
    <3>2. \A other \in DOMAIN order_node_map :
            /\ order_node_map'[other].order_type = order_node_map[other].order_type
            /\ order_node_map'[other].price = order_node_map[other].price
      BY <2>3, <3>1 DEF OrderNode
    <3> QED BY <2>1, <3>2, RestingMeansInLine, Zenon
  <2>5. RestingIds' = RestingIds
    BY <2>2, <2>4 DEF RestingIds
  <2>6. RestingOrders' = [RestingOrders EXCEPT ![id].volume = @ - filled]
    <3>1. RestingIds \subseteq DOMAIN order_node_map
      BY DEF RestingIds
    <3>2. RestingOrders' = [other \in RestingIds |-> order_node_map'[other]]
      BY <2>5, Zenon DEF RestingOrders
    <3> QED BY <1>2, <2>3, <3>1, <3>2, Zenon DEF RestingOrders
  <2> QED BY <1>2, <1>4, <2>6
<1> QED BY <1>3, <1>4, Zenon

LEMMA FillTrades ==
  ASSUME IInv, NEW price, Fill(price)
  PROVE  EngineStep
<1>1. LoopLevel(price) /\ Matches(price)
  BY Zenon DEF Fill
<1>2. PICK id : id = Head(order_queues[Opposite(call.side)][price])
  OBVIOUS
<1>3. PICK filled : filled = VolFilled(order_node_map[id])
  OBVIOUS
<1>4. PICK trade : trade = GenerateTrade(id_counter + 1, Opposite(call.side), call.user,
                                         order_node_map[id].user_id, price, filled)
  OBVIOUS
<1>5. /\ id \in DOMAIN RestingOrders
      /\ RestingOrders[id] = order_node_map[id]
  BY <1>1, <1>2, HeadRests
<1>6. /\ filled \in Nat \ {0}
      /\ filled <= call.volume
      /\ filled <= order_node_map[id].volume
      /\ order_node_map[id].volume \in Nat \ {0}
      /\ order_node_map[id].user_id \in User
      /\ call.user \in User
      /\ price \in Price
  BY <1>1, <1>2, <1>3, FillFacts, Zenon
<1>7. /\ Incoming = {Matched}
      /\ Incoming' = {[Matched EXCEPT !.volume = @ - filled]}
  <2>1. call' = [call EXCEPT !.volume = @ - filled, !.trades = Append(@, trade)]
    BY <1>2, <1>3, <1>4, Zenon DEF Fill
  <2>2. call \in CallType /\ call.phase = "matching"
    BY <1>1, TypeParts DEF IInv, LoopLevel
  <2>3. /\ call'.phase = "matching" /\ call'.user = call.user /\ call'.side = call.side
        /\ call'.price = call.price /\ call'.volume = call.volume - filled
    BY <2>1, <2>2 DEF CallType
  <2>4. [Matched EXCEPT !.volume = @ - filled]
          = [user_id |-> call.user, volume |-> call.volume - filled,
             price |-> call.price, order_type |-> call.side]
    BY DEF Matched
  <2> QED BY <2>2, <2>3, <2>4 DEF Incoming, Matched
<1>8. /\ Opposite(call.side) \in Side
      /\ Opposite(call.side) = "ASK" <=> call.side # "ASK"
      /\ id_counter \in Nat
  BY SideFacts, TypeParts DEF IInv, RestOK, CallType, Side, Opposite
<1>9. trade \in Trade
  BY <1>4, <1>6, <1>8, TradeType
<1>10. filled_trades' = Append(filled_trades, trade) /\ id_counter' = id_counter + 1
  BY <1>2, <1>3, <1>4, Zenon DEF Fill
<1>11. Log' = Append(Log, Logged(trade))
  BY <1>9, <1>10, LogGrows
<1>12. RestingOrders' = IF filled = RestingOrders[id].volume
                        THEN Engine!Without(id)
                        ELSE [RestingOrders EXCEPT ![id].volume = @ - filled]
  BY <1>2, <1>3, FillTakesVolume
<1>13. order_node_map[id].user_id # call.user
  BY <1>2, Zenon DEF Fill, IsWashTrade
<1>14. CASE call.side = "ASK"
  <2>1. Engine!Cross(RestingOrders[id], Matched)
    BY <1>1, <1>2, <1>5, <1>14, HeadCrosses
  <2>2. Logged(trade) = [trade_id |-> id_counter + 1, volume |-> filled,
                         bid_user_id |-> RestingOrders[id].user_id,
                         ask_user_id |-> Matched.user_id]
    BY <1>4, <1>5, <1>8, <1>14 DEF Logged, GenerateTrade, Matched
  <2>3. /\ RestingOrders[id].user_id # Matched.user_id
        /\ filled <= RestingOrders[id].volume /\ filled <= Matched.volume
    BY <1>5, <1>6, <1>13 DEF Matched
  <2>4. Engine!TradeWith(id, filled)
    BY <1>7, <1>10, <1>11, <1>12, <2>1, <2>2, <2>3 DEF Engine!TradeWith
  <2> QED BY <1>5, <1>6, <2>4 DEF EngineStep, Engine!Next
<1>15. CASE call.side # "ASK"
  <2>1. Engine!Cross(Matched, RestingOrders[id])
    BY <1>1, <1>2, <1>5, <1>15, HeadCrosses
  <2>2. Logged(trade) = [trade_id |-> id_counter + 1, volume |-> filled,
                         bid_user_id |-> Matched.user_id,
                         ask_user_id |-> RestingOrders[id].user_id]
    BY <1>4, <1>5, <1>8, <1>15 DEF Logged, GenerateTrade, Matched
  <2>3. /\ RestingOrders[id].user_id # Matched.user_id
        /\ filled <= RestingOrders[id].volume /\ filled <= Matched.volume
    BY <1>5, <1>6, <1>13 DEF Matched
  <2>4. Engine!TradeWith(id, filled)
    BY <1>7, <1>10, <1>11, <1>12, <2>1, <2>2, <2>3 DEF Engine!TradeWith
  <2> QED BY <1>5, <1>6, <2>4 DEF EngineStep, Engine!Next
<1> QED BY <1>14, <1>15
\* The ids of a line that another one joins.
LEMMA AppendedElement ==
  ASSUME NEW line \in Seq(Nat), NEW id \in Nat
  PROVE  Ids(Append(line, id)) = Ids(line) \cup {id}
<1>1. /\ Len(line) \in Nat
      /\ Len(Append(line, id)) = Len(line) + 1
      /\ \A i \in 1..Len(line) : Append(line, id)[i] = line[i]
      /\ Append(line, id)[Len(line) + 1] = id
  BY AppendProperties, LenProperties
<1>2. ASSUME NEW other \in Ids(Append(line, id))
      PROVE  other \in Ids(line) \cup {id}
  <2>1. PICK i \in 1..(Len(line) + 1) : other = Append(line, id)[i]
    BY <1>1, <1>2 DEF Ids
  <2>2. i \in 1..Len(line) \/ i = Len(line) + 1
    BY <1>1
  <2> QED BY <1>1, <2>1, <2>2 DEF Ids
<1>3. ASSUME NEW other \in Ids(line) \cup {id}
      PROVE  other \in Ids(Append(line, id))
  <2>1. PICK i \in 1..(Len(line) + 1) : other = Append(line, id)[i]
    <3>1. CASE other = id
      <4>1. Len(line) + 1 \in 1..(Len(line) + 1)
        BY <1>1
      <4> QED BY <1>1, <3>1, <4>1
    <3>2. CASE other \in Ids(line)
      <4>1. PICK i \in 1..Len(line) : other = line[i]
        BY <3>2 DEF Ids
      <4>2. i \in 1..(Len(line) + 1)
        BY <1>1
      <4> QED BY <1>1, <4>1, <4>2
    <3> QED BY <1>3, <3>1, <3>2
  <2> QED BY <1>1, <2>1 DEF Ids
<1> QED BY <1>2, <1>3

\* The order that is put to rest joins the resting ones and moves none.
LEMMA RestAddsToResting ==
  ASSUME IInv, RestRemainder, NEW id, id = id_counter + 1
  PROVE  RestingOrders' = [i \in DOMAIN RestingOrders \cup {id} |->
                             IF i = id THEN Matched ELSE RestingOrders[i]]
<1>1. AddOrderToBook(id, Matched)
  BY DEF RestRemainder, Matched
<1>2. PICK side, price : side = call.side /\ price = call.price
  OBVIOUS
<1>3. /\ side \in Side /\ DOMAIN order_queues = Side /\ id \in Nat
      /\ Matched.order_type = side /\ Matched.price = price
  BY <1>2, TypeParts DEF IInv, LinesOK, RestOK, CallType, Matched
<1>4. /\ id \notin DOMAIN order_node_map
      /\ DOMAIN order_node_map' = DOMAIN order_node_map \cup {id}
      /\ \A i \in DOMAIN order_node_map : order_node_map'[i] = order_node_map[i]
      /\ order_node_map'[id] = Matched
  BY <1>1, RestAddsAnOrder DEF AddOrderToBook
<1>5. ASSUME NEW i \in DOMAIN order_node_map
      PROVE  Resting(i)' <=> Resting(i)
  <2>1. PICK s, p : s = order_node_map[i].order_type /\ p = order_node_map[i].price
    OBVIOUS
  <2>2. s \in Side /\ p \in DOMAIN order_queues[s]
    BY <2>1, NodeFacts
  <2>3. order_queues[s][p] \in Seq(Nat)
    BY <2>2, LineFacts
  <2>4. \/ order_queues'[s][p] = order_queues[s][p]
        \/ order_queues'[s][p] = Append(order_queues[s][p], id)
    BY <1>1, <1>3, <2>2 DEF AddOrderToBook
  <2>5. i \in Ids(order_queues'[s][p]) <=> i \in Ids(order_queues[s][p])
    <3>1. Ids(Append(order_queues[s][p], id)) = Ids(order_queues[s][p]) \cup {id}
      BY <1>3, <2>3, AppendedElement
    <3>2. i # id
      BY <1>4
    <3> QED BY <2>4, <3>1, <3>2
  <2>6. Resting(i) <=> i \in Ids(order_queues[s][p])
    BY <2>1, RestingMeansInLine
  <2>7. Resting(i)' <=> i \in Ids(order_queues'[s][p])
    BY <1>4, <2>1, RestingMeansInLine
  <2> QED BY <2>5, <2>6, <2>7
<1>6. Resting(id)'
  <2>1. id \in Ids(order_queues'[side][price])
    <3>1. CASE price \in DOMAIN order_queues[side]
      <4>1. order_queues'[side][price] = Append(order_queues[side][price], id)
        BY <1>1, <1>3, <3>1 DEF AddOrderToBook
      <4>2. order_queues[side][price] \in Seq(Nat)
        BY <1>3, <3>1, LineFacts
      <4> QED BY <1>3, <4>1, <4>2, AppendedElement
    <3>2. CASE price \notin DOMAIN order_queues[side]
      <4>1. order_queues'[side][price] = <<id>>
        BY <1>1, <1>3, <3>2 DEF AddOrderToBook
      <4> QED BY <4>1 DEF Ids
    <3> QED BY <3>1, <3>2
  <2> QED BY <1>3, <1>4, <2>1, RestingMeansInLine
<1>7. RestingIds' = RestingIds \cup {id}
  BY <1>4, <1>5, <1>6 DEF RestingIds
<1>8. RestingIds \subseteq DOMAIN order_node_map
  BY DEF RestingIds
<1>9. RestingOrders' = [i \in RestingIds \cup {id} |-> order_node_map'[i]]
  BY <1>7 DEF RestingOrders
<1> QED BY <1>4, <1>8, <1>9 DEF RestingOrders

LEMMA RestRemainderRests ==
  ASSUME IInv, RestRemainder
  PROVE  EngineStep
<1>1. RestingOrders' = [i \in DOMAIN RestingOrders \cup {id_counter + 1} |->
                          IF i = id_counter + 1 THEN Matched ELSE RestingOrders[i]]
  BY RestAddsToResting
<1>2. Incoming = {Matched} /\ Matched.volume > 0
  BY DEF RestRemainder, LoopEnds, Incoming, Matched
<1>3. Incoming' = {}
  <2>1. call'.phase = "returned"
    <3>1. call \in CallType
      BY TypeParts DEF IInv
    <3> QED BY <3>1 DEF RestRemainder, CallType
  <2> QED BY <2>1, NothingIncomingAfter
<1>4. Log' = Log /\ id_counter' = id_counter + 1
  BY SameLog DEF RestRemainder
<1>5. Engine!Rest
  BY <1>1, <1>2, <1>3, <1>4 DEF Engine!Rest
<1> QED BY <1>5 DEF EngineStep, Engine!Next

\* An order in line is withdrawn; one that a wash trade took out had left already.
LEMMA CancelOrderWithdraws ==
  ASSUME IInv, NEW id, CancelOrder(id)
  PROVE  EngineStep
<1>1. PICK side, price :
        side = order_node_map[id].order_type /\ price = order_node_map[id].price
  OBVIOUS
<1>2. /\ id \in DOMAIN order_node_map
      /\ DOMAIN order_node_map' = DOMAIN order_node_map \ {id}
      /\ \A i \in DOMAIN order_node_map \ {id} : order_node_map'[i] = order_node_map[i]
      /\ \/ \E i \in 1..Len(order_queues[side][price]) :
              /\ order_queues[side][price][i] = id
              /\ order_queues' = [order_queues EXCEPT
                                    ![side][price] = RemoveAt(order_queues[side][price], i)]
         \/ /\ \A i \in 1..Len(order_queues[side][price]) : order_queues[side][price][i] # id
            /\ UNCHANGED order_queues
  BY <1>1 DEF CancelOrder, Restrict
<1>3. side \in Side /\ price \in DOMAIN order_queues[side]
  BY <1>1, <1>2, NodeFacts
<1>4. Incoming = {} /\ Incoming' = {}
  BY NothingIncoming, NothingIncomingAfter DEF CancelOrder, Idle, NoCall
<1>5. Log' = Log /\ id_counter' = id_counter
  BY SameLog DEF CancelOrder
<1>6. CASE \E i \in 1..Len(order_queues[side][price]) :
             /\ order_queues[side][price][i] = id
             /\ order_queues' = [order_queues EXCEPT
                                   ![side][price] = RemoveAt(order_queues[side][price], i)]
  <2>1. PICK i \in 1..Len(order_queues[side][price]) :
          order_queues[side][price][i] = id /\ LeavesLine(side, price, i)
    BY <1>6 DEF LeavesLine
  <2>2. LinesLose(id)
    BY <1>3, <2>1, OneLeavesItsLine
  <2>3. RestingOrders' = Engine!Without(id)
    BY <1>2, <2>2, OneStopsResting
  <2>4. id \in DOMAIN RestingOrders
    BY <1>1, <1>2, <2>1 DEF RestingOrders, RestingIds, Resting, InLine
  <2>5. Engine!Withdraw(id)
    BY <1>4, <1>5, <2>3 DEF Engine!Withdraw
  <2> QED BY <2>4, <2>5 DEF EngineStep, Engine!Next
<1>7. CASE /\ \A i \in 1..Len(order_queues[side][price]) : order_queues[side][price][i] # id
           /\ UNCHANGED order_queues
  <2>1. ~Resting(id)
    BY <1>1, <1>7 DEF Resting, InLine
  <2>2. \A i \in DOMAIN order_node_map \ {id} : Resting(i)' <=> Resting(i)
    BY <1>2, <1>7 DEF Resting, InLine
  <2>3. RestingIds' = RestingIds
    BY <1>2, <2>1, <2>2 DEF RestingIds
  <2>4. RestingOrders' = RestingOrders
    BY <1>2, <2>1, <2>3 DEF RestingOrders, RestingIds
  <2> QED BY <1>4, <1>5, <2>4 DEF EngineStep, Engine!vars
<1> QED BY <1>2, <1>6, <1>7

-----------------------------------------------------------------------------

LEMMA NextEngine == IInv /\ [Next]_vars => EngineStep
<1> SUFFICES ASSUME IInv, [Next]_vars PROVE EngineStep
  OBVIOUS
<1>1. CASE call.phase = "matching"
  <2>1. ASSUME NEW price \in Price, CancelWashTrade(price) PROVE EngineStep
    BY <2>1, CancelWashTradeStepsAside
  <2>2. ASSUME NEW price \in Price, Fill(price) PROVE EngineStep
    BY <2>2, FillTrades
  <2> QED BY <1>1, <2>1, <2>2, MatchingSteps, ReturnFilledFinishes, RestRemainderRests,
             OtherBookSkipsId, OthersAreUnseen
<1>2. CASE call.phase # "matching"
  <2>1. ASSUME NEW id \in 1..MaxId, CancelOrder(id) PROVE EngineStep
    BY <2>1, CancelOrderWithdraws
  <2> QED BY <1>2, <2>1, IdleSteps, HandleOrderSubmits, OtherBookSkipsId, OthersAreUnseen
<1> QED BY <1>1, <1>2

\* What the book's users see of it - the orders in line, the order being matched
\* and the trades - behaves as the matching engine, for any users, prices and
\* volumes.
THEOREM BookImplementsEngine == Spec => ImplementsMatchingEngine
<1>1. IInv /\ [Next]_vars => [Engine!Next]_Engine!vars
  BY NextEngine DEF EngineStep
<1> QED BY <1>1, InitEngine, SpecIInv, PTL DEF Spec, ImplementsMatchingEngine, Engine!Spec

-----------------------------------------------------------------------------
(* The loop comes to an end.                                               *)

\* A level comes on a heap one at a time.
HeapsFinite == \A side \in Side : IsFiniteSet(order_pq[side])

\* No heap grows but by the level of an order that comes to rest.
LEMMA NextHeapsFinite == IInv /\ HeapsFinite /\ [Next]_vars => HeapsFinite'
<1> SUFFICES ASSUME IInv, HeapsFinite, [Next]_vars PROVE HeapsFinite'
  OBVIOUS
<1>1. order_pq = [side \in Side |-> order_pq[side]]
  BY TypeParts DEF IInv, RestOK
<1>2. ASSUME \A side \in Side : order_pq'[side] \subseteq order_pq[side]
      PROVE  HeapsFinite'
  BY <1>2, FS_Subset DEF HeapsFinite
<1>3. CASE RestRemainder
  <2>1. call.side \in Side
    BY TypeParts DEF IInv, CallType
  <2>2. \/ order_pq' = order_pq
        \/ order_pq' = [order_pq EXCEPT ![call.side] = @ \cup {call.price}]
    BY <1>3 DEF RestRemainder, AddOrderToBook
  <2>3. \A side \in Side : \/ order_pq'[side] = order_pq[side]
                           \/ order_pq'[side] = order_pq[side] \cup {call.price}
    BY <1>1, <2>1, <2>2
  <2>4. ASSUME NEW side \in Side PROVE IsFiniteSet(order_pq'[side])
    <3>1. IsFiniteSet(order_pq[side])
      BY DEF HeapsFinite
    <3>2. IsFiniteSet(order_pq[side] \cup {call.price})
      BY <3>1, FS_AddElement, Zenon
    <3> QED BY <2>3, <3>1, <3>2, Zenon
  <2> QED BY <2>4, Zenon DEF HeapsFinite
<1>4. CASE ~RestRemainder
  <2>1. \A side \in Side : \A price : PopIfEmpty(side, price, order_queues'[side][price])[side] \subseteq order_pq[side]
    BY <1>1 DEF PopIfEmpty
  <2>2. CASE \E price \in Price : SkipEmptyLevel(price)
    BY <1>1, <1>2, <2>2 DEF SkipEmptyLevel
  <2>3. CASE \E price \in Price : Fill(price)
    <3>1. PICK price \in Price : order_pq' = PopIfEmpty(Opposite(call.side), price,
                                               order_queues'[Opposite(call.side)][price])
      BY <2>3 DEF Fill
    <3>2. \A side \in Side : order_pq'[side] \subseteq order_pq[side]
      BY <1>1, <3>1 DEF PopIfEmpty
    <3> QED BY <1>2, <3>2
  <2>4. CASE \/ \E price \in Price : CancelWashTrade(price)
             \/ ReturnFilled \/ OtherBookGeneratesId \/ UNCHANGED vars
    <3>1. order_pq' = order_pq
      BY <2>4 DEF CancelWashTrade, ReturnFilled, OtherBookGeneratesId, bookVars, vars
    <3> QED BY <3>1 DEF HeapsFinite
  <2>5. CASE call.phase # "matching"
    <3>1. \A side, keep : PopUntil(side, keep) \subseteq order_pq[side]
      BY DEF PopUntil
    <3>2. CASE \E user \in User, side \in Side, price \in Price, volume \in Volume :
                 HandleOrder(user, side, price, volume)
      <4>1. order_pq' = [side \in Side |-> CleanedUp(side)]
        BY <3>2, Zenon DEF HandleOrder
      <4>2. \A side \in Side : order_pq'[side] \subseteq order_pq[side]
        BY <3>1, <4>1, Zenon DEF CleanedUp
      <4> QED BY <1>2, <4>2
    <3>3. CASE GetTopOfBook
      <4>1. order_pq' = [side \in Side |-> PopUntil(side, Alive(side))]
        BY <3>3, Zenon DEF GetTopOfBook
      <4>2. \A side \in Side : order_pq'[side] \subseteq order_pq[side]
        BY <3>1, <4>1, Zenon
      <4> QED BY <1>2, <4>2
    <3>4. CASE order_pq' = order_pq
      BY <3>4 DEF HeapsFinite
    <3>5. (\E id \in 1..MaxId : CancelOrder(id)) => order_pq' = order_pq
      BY Zenon DEF CancelOrder
    <3>6. \/ \E price \in Price, volume \in Volume : RejectOrder(price, volume)
          \/ \E id \in 1..MaxId : CancelUnknownOrder(id)
          \/ OtherBookGeneratesId
          \/ UNCHANGED vars
          => order_pq' = order_pq
      BY DEF RejectOrder, CancelUnknownOrder, OtherBookGeneratesId, bookVars, vars
    <3> QED BY <2>5, <3>2, <3>3, <3>4, <3>5, <3>6, IdleSteps
  <2> QED BY <1>4, <2>2, <2>3, <2>4, <2>5, MatchingSteps
<1> QED BY <1>3, <1>4

\* The invariant with the finite heaps.
LEMMA SpecHeapsFinite == Spec => [](IInv /\ HeapsFinite)
<1>1. Init => HeapsFinite
  BY FS_EmptySet DEF Init, HeapsFinite
<1> QED BY <1>1, InitIInv, NextIInv, NextHeapsFinite, PTL DEF Spec

\* What is counted is finite.
LEMMA TurnsLeftParts ==
  ASSUME IInv, HeapsFinite
  PROVE  /\ IsFiniteSet(RestingIds) /\ Cardinality(RestingIds) \in Nat
         /\ IsFiniteSet(order_pq[Opposite(call.side)])
         /\ Cardinality(order_pq[Opposite(call.side)]) \in Nat
         /\ call.volume \in Nat
<1>1. IsFiniteSet(RestingIds)
  <2>1. RestingIds \subseteq DOMAIN order_node_map
    BY DEF RestingIds
  <2> QED BY <2>1, NodesFinite, FS_Subset
<1>2. Opposite(call.side) \in Side
  BY DEF Opposite, Side
<1>3. IsFiniteSet(order_pq[Opposite(call.side)])
  BY <1>2 DEF HeapsFinite
<1>4. call.volume \in Nat
  BY TypeParts DEF IInv, CallType
<1> QED BY <1>1, <1>3, <1>4, FS_CardinalityType

\* Part of a finite set, without one of its members, has fewer.
LEMMA FewerOf ==
  ASSUME NEW S, IsFiniteSet(S), NEW T, T \subseteq S
  PROVE  /\ Cardinality(T) \in Nat /\ Cardinality(T) <= Cardinality(S)
         /\ \A x \in S : x \notin T => Cardinality(T) < Cardinality(S)
<1>1. IsFiniteSet(T) /\ Cardinality(T) <= Cardinality(S) /\ (Cardinality(T) = Cardinality(S) => T = S)
  BY FS_Subset
<1>2. Cardinality(T) \in Nat /\ Cardinality(S) \in Nat
  BY <1>1, FS_CardinalityType
<1> QED BY <1>1, <1>2

\* A turn that takes no volume takes an order out of line or a level off the heap.
LEMMA TurnTakes ==
  ASSUME IInv, HeapsFinite, call' = call,
         RestingIds' \subseteq RestingIds,
         order_pq'[Opposite(call.side)] \subseteq order_pq[Opposite(call.side)],
         \/ \E id \in RestingIds : id \notin RestingIds'
         \/ \E price \in order_pq[Opposite(call.side)] : price \notin order_pq'[Opposite(call.side)]
  PROVE  TurnsLeft' < TurnsLeft
<1> DEFINE heap == order_pq[Opposite(call.side)]
           heap2 == order_pq'[Opposite(call.side)]
           ids == RestingIds
           ids2 == RestingIds'
<1>1. TurnsLeft = call.volume + Cardinality(ids) + Cardinality(heap)
  BY DEF TurnsLeft
<1>2. TurnsLeft' = call.volume + Cardinality(ids2) + Cardinality(heap2)
  BY DEF TurnsLeft
<1>3. /\ IsFiniteSet(ids) /\ IsFiniteSet(heap) /\ call.volume \in Nat
      /\ Cardinality(ids) \in Nat /\ Cardinality(heap) \in Nat
      /\ ids2 \subseteq ids /\ heap2 \subseteq heap
      /\ (\E id \in ids : id \notin ids2) \/ (\E price \in heap : price \notin heap2)
  BY TurnsLeftParts
<1> HIDE DEF ids, ids2, heap, heap2
<1>4. /\ Cardinality(ids2) \in Nat /\ Cardinality(ids2) <= Cardinality(ids)
      /\ \A x \in ids : x \notin ids2 => Cardinality(ids2) < Cardinality(ids)
      /\ Cardinality(heap2) \in Nat /\ Cardinality(heap2) <= Cardinality(heap)
      /\ \A x \in heap : x \notin heap2 => Cardinality(heap2) < Cardinality(heap)
  BY <1>3, FewerOf
<1> QED BY <1>1, <1>2, <1>3, <1>4

\* A fill brings no order to rest.
LEMMA FillRestsNoOrder ==
  ASSUME IInv, NEW price, Fill(price)
  PROVE  RestingIds' \subseteq RestingIds
<1>1. PICK id : id = Head(order_queues[Opposite(call.side)][price])
  OBVIOUS
<1>2. PICK filled : filled = VolFilled(order_node_map[id])
  OBVIOUS
<1>3. RestingOrders' = IF filled = RestingOrders[id].volume
                       THEN Engine!Without(id)
                       ELSE [RestingOrders EXCEPT ![id].volume = @ - filled]
  BY <1>1, <1>2, FillTakesVolume
<1>4. DOMAIN RestingOrders' \subseteq DOMAIN RestingOrders
  BY <1>3 DEF Engine!Without
<1> QED BY <1>4 DEF RestingOrders

\* Between two turns of the loop less is left to do.
LEMMA EachTurnRunsOut ==
  ASSUME IInv, HeapsFinite, Next, call.phase = "matching", call'.phase = "matching",
         ~UNCHANGED <<bookVars, call>>
  PROVE  TurnsLeft' < TurnsLeft
<1> DEFINE side == Opposite(call.side)
<1>0. side \in Side /\ order_pq = [s \in Side |-> order_pq[s]]
  BY TypeParts DEF Opposite, Side, IInv, RestOK
<1>1. CASE \E price \in Price : SkipEmptyLevel(price)
  <2>1. PICK price \in Price : SkipEmptyLevel(price)
    BY <1>1
  <2>2. price \in order_pq[side] /\ order_pq' = [order_pq EXCEPT ![side] = @ \ {price}]
    BY <2>1 DEF SkipEmptyLevel, LoopLevel, IsTop
  <2>3. call' = call /\ order_node_map' = order_node_map /\ order_queues' = order_queues
    BY <2>1 DEF SkipEmptyLevel
  <2>4. RestingIds' = RestingIds
    BY <2>3 DEF RestingIds, Resting, InLine
  <2>5. order_pq'[side] = order_pq[side] \ {price}
    BY <1>0, <2>2
  <2> QED BY <2>2, <2>3, <2>4, <2>5, TurnTakes
<1>2. CASE \E price \in Price : CancelWashTrade(price)
  <2>1. PICK price \in Price : CancelWashTrade(price)
    BY <1>2
  <2>2. PICK id : id = Head(order_queues[Opposite(call.side)][price])
    OBVIOUS
  <2>3. LoopLevel(price) /\ Matches(price) /\ order_queues' = WithoutFirst(price)
        /\ order_node_map' = order_node_map /\ call' = call /\ order_pq' = order_pq
    BY <2>1 DEF CancelWashTrade
  <2>4. id \in DOMAIN RestingOrders /\ LinesLose(id)
    BY <2>2, <2>3, HeadRests
  <2>5. RestingOrders' = Engine!Without(id)
    BY <2>3, <2>4, OneStopsResting
  <2>6. id \in RestingIds /\ RestingIds' = RestingIds \ {id}
    <3>1. DOMAIN RestingOrders' = DOMAIN RestingOrders \ {id}
      BY <2>5 DEF Engine!Without
    <3> QED BY <2>4, <3>1 DEF RestingOrders
  <2>7. order_pq'[side] \subseteq order_pq[side] /\ RestingIds' \subseteq RestingIds /\ id \notin RestingIds'
    BY <2>3, <2>6
  <2> QED BY <2>3, <2>6, <2>7, TurnTakes
<1>3. CASE \E price \in Price : Fill(price)
  <2>1. PICK price \in Price : Fill(price)
    BY <1>3
  <2>2. PICK id : id = Head(order_queues[Opposite(call.side)][price])
    OBVIOUS
  <2>3. PICK filled : filled = VolFilled(order_node_map[id])
    OBVIOUS
  <2>4. RestingIds' \subseteq RestingIds
    BY <2>1, FillRestsNoOrder
  <2>5. LoopLevel(price) /\ Matches(price)
    BY <2>1, Zenon DEF Fill
  <2>6. /\ call'.volume = call.volume - filled /\ call'.side = call.side
        /\ order_pq' = PopIfEmpty(side, price, order_queues'[side][price])
    <3>1. call \in CallType
      BY TypeParts DEF IInv
    <3>2. /\ \E t : call' = [call EXCEPT !.volume = @ - filled, !.trades = t]
          /\ order_pq' = PopIfEmpty(side, price, order_queues'[side][price])
      BY <2>1, <2>2, <2>3, Zenon DEF Fill
    <3> QED BY <3>1, <3>2 DEF CallType
  <2>7. filled \in Nat \ {0} /\ filled <= call.volume
    <3>1. id \in DOMAIN order_node_map
      BY <2>2, <2>5, HeadRests
    <3>2. order_node_map[id].volume \in Nat \ {0}
      BY <3>1, NodeFacts DEF OrderNode
    <3>3. call.volume \in Nat /\ call.volume > 0
      BY <2>5, TypeParts DEF IInv, CallType, LoopLevel
    <3> QED BY <2>3, <3>2, <3>3 DEF VolFilled
  <2>8. order_pq'[side] \subseteq order_pq[side]
    BY <1>0, <2>6 DEF PopIfEmpty
  <2> DEFINE heap == order_pq[side]
             heap2 == order_pq'[side]
             ids == RestingIds
             ids2 == RestingIds'
  <2>9. TurnsLeft = call.volume + Cardinality(ids) + Cardinality(heap)
    BY DEF TurnsLeft
  <2>10. TurnsLeft' = (call.volume - filled) + Cardinality(ids2) + Cardinality(heap2)
    BY <2>6 DEF TurnsLeft
  <2>11. /\ IsFiniteSet(ids) /\ IsFiniteSet(heap) /\ call.volume \in Nat
         /\ Cardinality(ids) \in Nat /\ Cardinality(heap) \in Nat
    BY TurnsLeftParts
  <2> HIDE DEF ids, ids2, heap, heap2
  <2>12. /\ Cardinality(ids2) \in Nat /\ Cardinality(ids2) <= Cardinality(ids)
         /\ Cardinality(heap2) \in Nat /\ Cardinality(heap2) <= Cardinality(heap)
    BY <2>4, <2>8, <2>11, FewerOf DEF ids, ids2, heap, heap2
  <2> QED BY <2>7, <2>9, <2>10, <2>11, <2>12
<1>4. CASE ReturnFilled \/ RestRemainder
  <2>1. call \in CallType
    BY TypeParts DEF IInv
  <2>2. call'.phase = "returned"
    BY <1>4, <2>1 DEF ReturnFilled, RestRemainder, CallType
  <2> QED BY <2>2
<1>5. ~OtherBookGeneratesId /\ ~UNCHANGED vars
  BY DEF OtherBookGeneratesId, vars, bookVars
<1> QED BY <1>1, <1>2, <1>3, <1>4, <1>5, MatchingSteps

\* HandleOrder's loop turns a number of times that the order's volume, the
\* orders in line and the levels of the other heap bound: every turn, also one
\* that continues past an empty level or a wash trade, lowers a natural number.
THEOREM TheLoopRunsOut == Spec => [](TurnsLeft \in Nat) /\ TurnsRunOut
<1>1. IInv /\ HeapsFinite => TurnsLeft \in Nat
  BY TurnsLeftParts DEF TurnsLeft
<1> DEFINE RunsOut == call.phase = "matching" /\ call'.phase = "matching" => TurnsLeft' < TurnsLeft
<1>2. IInv /\ HeapsFinite /\ [Next]_vars => [RunsOut]_<<bookVars, call>>
  BY EachTurnRunsOut DEF vars, bookVars
<1> HIDE DEF RunsOut
<1>3. Spec => [](TurnsLeft \in Nat) /\ [][RunsOut]_<<bookVars, call>>
  BY <1>1, <1>2, SpecHeapsFinite, PTL DEF Spec
<1> QED BY <1>3 DEF RunsOut, TurnsRunOut

\* The conditions of the loop's turns and of its end.
TurnIsPossible ==
  \/ LoopEnds
  \/ \E price \in Price : LoopLevel(price) /\ (~HasOrders(Opposite(call.side), price) \/ Matches(price))

\* While an order is being matched the loop can take a turn or end: a heap with
\* levels has a top, which is empty, matches or stops the loop.
THEOREM TheLoopNeverHangs == Spec => [](call.phase = "matching" => TurnIsPossible)
<1>1. IInv /\ HeapsFinite => (call.phase = "matching" => TurnIsPossible)
  <2> SUFFICES ASSUME IInv, HeapsFinite, call.phase = "matching" PROVE TurnIsPossible
    OBVIOUS
  <2> DEFINE side == Opposite(call.side)
             heap == order_pq[side]
  <2>1. side \in Side /\ call.volume \in Nat
    BY TypeParts DEF Opposite, Side, IInv, CallType
  <2>2. heap \subseteq Price \ {0} /\ IsFiniteSet(heap)
    BY <2>1, HeapFacts DEF HeapsFinite
  <2>3. CASE heap = {} \/ call.volume = 0
    BY <2>3 DEF TurnIsPossible, LoopEnds
  <2>4. CASE heap # {} /\ call.volume # 0
    <3>1. PICK price \in heap : \A other \in heap : AtLeastAsGood(side, price, other)
      <4>1. heap \subseteq Nat
        BY <2>2
      <4> HIDE DEF heap, side
      <4> QED BY <2>2, <2>4, <4>1, HeapHasTop
    <3>2. LoopLevel(price) /\ price \in Price /\ IsTop(side, price)
      BY <2>1, <2>2, <2>4, <3>1 DEF LoopLevel, IsTop
    <3>3. CASE HasOrders(side, price) /\ ~PricesMatch(call.price, price, side)
      BY <3>1, <3>2, <3>3 DEF TurnIsPossible, LoopEnds
    <3>4. CASE ~(HasOrders(side, price) /\ ~PricesMatch(call.price, price, side))
      BY <3>2, <3>4 DEF TurnIsPossible, Matches
    <3> QED BY <3>3, <3>4
  <2> QED BY <2>3, <2>4
<1> QED BY <1>1, SpecHeapsFinite, PTL DEF Spec
=============================================================================
