------------------------ MODULE LimitOrderBookProofs ------------------------
(***************************************************************************)
(* The safety of the book of LimitOrderBook.tla for any users, prices,      *)
(* volumes and number of ids: its structures agree, its volumes are the sums*)
(* they should be, and no share is lost.                                    *)
(***************************************************************************)
EXTENDS LimitOrderBook, CommonLemmas

USE BookAssumption

\* An order in the matching loop is one that passed the checks, and the ids it
\* can still draw, one a share, are within the bound.
CallInProgress ==
  call.phase = "matching" =>
    call.user \in User /\ call.price \in Price \ {0} /\ IdsLeft(call.volume)

\* The inductive invariant.
IInv == TypeOK /\ CallInProgress /\ LevelsHoldLiveOrders /\ EveryOrderHasItsLevel

-----------------------------------------------------------------------------
(* Lines of orders.                                                        *)

\* The orders of ids are still there, on their side and at their price.
Keeps(nodes, nodes2, ids) ==
  \A id \in ids : /\ id \in DOMAIN nodes2
                  /\ nodes2[id].order_type = nodes[id].order_type
                  /\ nodes2[id].price = nodes[id].price

\* A line stays live when none of its orders goes.
LEMMA LiveLineKept ==
  ASSUME NEW nodes, NEW nodes2, NEW side, NEW price, NEW line \in Seq(Nat), NEW gone,
         LiveLine(nodes, side, price, line),
         Keeps(nodes, nodes2, DOMAIN nodes \ {gone}),
         \A i \in 1..Len(line) : line[i] # gone
  PROVE  LiveLine(nodes2, side, price, line)
BY DEF LiveLine, Keeps

\* A line stays live when the order at one place goes and is taken out of line.
LEMMA LiveLineShrinks ==
  ASSUME NEW nodes, NEW nodes2, NEW side, NEW price, NEW line \in Seq(Nat),
         NEW k \in 1..Len(line),
         LiveLine(nodes, side, price, line),
         Keeps(nodes, nodes2, DOMAIN nodes \ {line[k]})
  PROVE  LiveLine(nodes2, side, price, RemoveAt(line, k))
<1>1. /\ Len(line) \in Nat
      /\ Len(RemoveAt(line, k)) = Len(line) - 1
      /\ \A j \in 1..(Len(line) - 1) :
           RemoveAt(line, k)[j] = IF j < k THEN line[j] ELSE line[j + 1]
      /\ \A i \in 1..Len(line) : line[i] \in Nat
  BY RemoveAtProperties, LenProperties, ElementOfSeq
<1>2. \A i \in 1..Len(line) : i # k => line[i] # line[k]
  BY <1>1 DEF LiveLine
<1>3. ASSUME NEW j \in 1..(Len(line) - 1)
      PROVE  \E i \in 1..Len(line) : i # k /\ RemoveAt(line, k)[j] = line[i]
  <2>1. CASE j < k
    BY <1>1, <2>1
  <2>2. CASE ~(j < k)
    <3>1. j + 1 \in 1..Len(line) /\ j + 1 # k
      BY <1>1, <2>2
    <3> QED BY <1>1, <2>2, <3>1
  <2> QED BY <2>1, <2>2
<1>4. ASSUME NEW j \in 1..(Len(line) - 1)
      PROVE  /\ RemoveAt(line, k)[j] \in DOMAIN nodes2
             /\ nodes2[RemoveAt(line, k)[j]].order_type = side
             /\ nodes2[RemoveAt(line, k)[j]].price = price
  <2>1. PICK i \in 1..Len(line) : i # k /\ RemoveAt(line, k)[j] = line[i]
    BY <1>3
  <2> QED BY <1>2, <2>1 DEF LiveLine, Keeps
<1>5. ASSUME NEW i \in 1..(Len(line) - 1), NEW j \in 1..(Len(line) - 1), i < j
      PROVE  RemoveAt(line, k)[i] < RemoveAt(line, k)[j]
  <2>1. /\ i \in 1..Len(line) /\ i + 1 \in 1..Len(line)
        /\ j \in 1..Len(line) /\ j + 1 \in 1..Len(line)
    BY <1>1
  <2>2. \A a, b \in 1..Len(line) : a < b => line[a] < line[b]
    BY DEF LiveLine
  <2>3. CASE j < k
    BY <1>1, <1>5, <2>1, <2>2, <2>3
  <2>4. CASE ~(j < k) /\ i < k
    <3>1. i < j + 1
      BY <1>5
    <3> QED BY <1>1, <2>1, <2>2, <2>4, <3>1
  <2>5. CASE ~(i < k)
    <3>1. i + 1 < j + 1 /\ ~(j < k)
      BY <1>5, <2>5
    <3> QED BY <1>1, <2>1, <2>2, <2>5, <3>1
  <2> QED BY <2>3, <2>4, <2>5
<1> QED BY <1>1, <1>4, <1>5 DEF LiveLine

\* A new order with an id above all others may join a live line.
LEMMA LiveLineGrows ==
  ASSUME NEW nodes, NEW nodes2, NEW side, NEW price, NEW line \in Seq(Nat),
         NEW id \in Nat,
         LiveLine(nodes, side, price, line),
         Keeps(nodes, nodes2, DOMAIN nodes),
         \A other \in DOMAIN nodes : other < id,
         id \in DOMAIN nodes2, nodes2[id].order_type = side, nodes2[id].price = price
  PROVE  LiveLine(nodes2, side, price, Append(line, id))
<1>1. /\ Len(line) \in Nat
      /\ Len(Append(line, id)) = Len(line) + 1
      /\ \A i \in 1..Len(line) : Append(line, id)[i] = line[i]
      /\ Append(line, id)[Len(line) + 1] = id
  BY AppendProperties, LenProperties
<1>2. \A i \in 1..(Len(line) + 1) : i \in 1..Len(line) \/ i = Len(line) + 1
  BY <1>1
<1> QED BY <1>1, <1>2 DEF LiveLine, Keeps

-----------------------------------------------------------------------------
(* Facts of every reachable state.                                         *)

NodesOK ==
  /\ DOMAIN order_node_map \subseteq 1..id_counter
  /\ \A id \in DOMAIN order_node_map : order_node_map[id] \in OrderNode

LinesOK ==
  /\ DOMAIN order_queues = Side
  /\ \A side \in Side :
       /\ DOMAIN order_queues[side] \subseteq Price \ {0}
       /\ \A price \in DOMAIN order_queues[side] : order_queues[side][price] \in Seq(Nat)

Unit == {Units(p) : p \in Price}

RestOK ==
  /\ order_pq \in [Side -> SUBSET (Price \ {0})]
  /\ volume_at_price \in [Side -> [Unit -> Int]]
  /\ filled_trades \in Seq(Trade)
  /\ id_counter \in 0..MaxId
  /\ committed \in [User -> [Side -> Int]]

CallType == [phase : {"none", "matching", "returned"}, user : User \cup {NoUser},
             side : Side, price : Nat, asked : Nat, volume : Nat,
             trades : Seq(Trade), order_id : Nat \cup {NoOrderId}]

LEMMA TypeParts == TypeOK <=> NodesOK /\ LinesOK /\ RestOK /\ call \in CallType
BY DEF TypeOK, NodesOK, LinesOK, RestOK, CallType, Unit

LEMMA IInvAfter ==
  ASSUME NodesOK', LinesOK', RestOK', call' \in CallType, CallInProgress',
         LevelsHoldLiveOrders', EveryOrderHasItsLevel'
  PROVE  IInv'
<1>1. TypeOK'
  BY DEF TypeOK, NodesOK, LinesOK, RestOK, CallType, Unit
<1> QED BY <1>1 DEF IInv

LEMMA SideFacts ==
  /\ \A side \in Side : Opposite(side) \in Side /\ Opposite(side) # side
  /\ "BID" \in Side /\ "ASK" \in Side
BY DEF Side, Opposite

LEMMA NoCallType == NoCall \in CallType
BY SideFacts, EmptySeq DEF NoCall, CallType, NoOrderId

\* An order in the map: its id, side, price and level.
LEMMA NodeFacts ==
  ASSUME IInv, NEW id \in DOMAIN order_node_map
  PROVE  /\ id \in Nat \ {0} /\ id <= id_counter
         /\ order_node_map[id] \in OrderNode
         /\ order_node_map[id].order_type \in Side
         /\ order_node_map[id].price \in Price \ {0}
         /\ order_node_map[id].user_id \in User
         /\ order_node_map[id].volume \in Nat \ {0}
         /\ order_node_map[id].price \in DOMAIN order_queues[order_node_map[id].order_type]
<1>1. NodesOK /\ id_counter \in Nat /\ EveryOrderHasItsLevel
  BY TypeParts DEF IInv, RestOK
<1>2. id \in 1..id_counter /\ order_node_map[id] \in OrderNode
  BY <1>1 DEF NodesOK
<1> QED BY <1>1, <1>2 DEF OrderNode, EveryOrderHasItsLevel

\* A line is a sequence of ids, and an order is in no line but its own.
LEMMA LineFacts ==
  ASSUME IInv, NEW side \in Side, NEW price \in DOMAIN order_queues[side]
  PROVE  /\ order_queues[side][price] \in Seq(Nat)
         /\ price \in Price \ {0}
         /\ LiveLine(order_node_map, side, price, order_queues[side][price])
         /\ \A i \in 1..Len(order_queues[side][price]) :
              LET id == order_queues[side][price][i]
              IN  /\ id \in DOMAIN order_node_map
                  /\ order_node_map[id].order_type = side
                  /\ order_node_map[id].price = price
BY TypeParts DEF IInv, LinesOK, LevelsHoldLiveOrders, LiveLine

\* The order the loop looks at: the head of the line at the top of the heap.
LEMMA HeadFacts ==
  ASSUME IInv, NEW price, LoopLevel(price), Matches(price)
  PROVE  LET side == Opposite(call.side)
             line == order_queues[side][price]
             id == Head(line)
         IN  /\ side \in Side /\ side # call.side
             /\ price \in DOMAIN order_queues[side]
             /\ line \in Seq(Nat)
             /\ 1 \in 1..Len(line)
             /\ id = line[1]
             /\ id \in DOMAIN order_node_map
             /\ order_node_map[id].order_type = side
             /\ order_node_map[id].price = price
             /\ Tail(line) = RemoveAt(line, 1)
<1> DEFINE side == Opposite(call.side)
           line == order_queues[side][price]
<1>1. side \in Side /\ side # call.side
  BY SideFacts, TypeParts DEF IInv, CallType
<1>2. price \in DOMAIN order_queues[side]
  BY <1>1 DEF LoopLevel, IsTop, IInv, LevelsHoldLiveOrders
<1>3. line \in Seq(Nat) /\ line # <<>>
  BY <1>1, <1>2, LineFacts DEF Matches, HasOrders
<1> HIDE DEF line
<1>4. 1 \in 1..Len(line) /\ Head(line) = line[1] /\ Tail(line) = RemoveAt(line, 1)
  <2>1. Len(line) \in Nat \ {0}
    BY <1>3, EmptySeq, LenProperties
  <2>2. Head(line) = line[1]
    BY <1>3
  <2>3. Tail(line) = RemoveAt(line, 1)
    BY <1>3, RemoveAtFirst, Zenon
  <2> QED BY <2>1, <2>2, <2>3
<1> USE DEF line
<1>5. /\ line[1] \in DOMAIN order_node_map
      /\ order_node_map[line[1]].order_type = side
      /\ order_node_map[line[1]].price = price
  BY <1>1, <1>2, <1>4, LineFacts
<1> QED BY <1>1, <1>2, <1>3, <1>4, <1>5

-----------------------------------------------------------------------------
(* What the invariant's parts survive.                                     *)

LevelsUnchanged ==
  /\ DOMAIN order_queues' = Side
  /\ \A side \in Side : DOMAIN order_queues'[side] = DOMAIN order_queues[side]

\* An order leaves its line, and possibly the map.
LEMMA LeavingKeepsLevels ==
  ASSUME IInv,
         NEW side \in Side, NEW price \in DOMAIN order_queues[side],
         NEW k \in 1..Len(order_queues[side][price]),
         order_queues' = [order_queues EXCEPT ![side][price] = RemoveAt(@, k)],
         \A s \in Side : order_pq'[s] \subseteq order_pq[s],
         Keeps(order_node_map, order_node_map',
               DOMAIN order_node_map \ {order_queues[side][price][k]})
  PROVE  LevelsHoldLiveOrders' /\ LinesOK' /\ LevelsUnchanged
<1> DEFINE gone == order_queues[side][price][k]
<1>1. DOMAIN order_queues = Side
  BY TypeParts DEF IInv, LinesOK
<1>2. LevelsUnchanged
  BY <1>1 DEF LevelsUnchanged
<1>3. /\ order_queues'[side][price] = RemoveAt(order_queues[side][price], k)
      /\ \A s \in Side : \A p \in DOMAIN order_queues[s] :
           s # side \/ p # price => order_queues'[s][p] = order_queues[s][p]
  BY <1>1
<1>4. ASSUME NEW s \in Side, NEW p \in DOMAIN order_queues[s]
      PROVE  /\ order_queues'[s][p] \in Seq(Nat)
             /\ LiveLine(order_node_map', s, p, order_queues'[s][p])
  <2>1. CASE s = side /\ p = price
    <3>1. /\ order_queues[side][price] \in Seq(Nat)
          /\ LiveLine(order_node_map, side, price, order_queues[side][price])
      BY LineFacts
    <3>2. RemoveAt(order_queues[side][price], k) \in Seq(Nat)
      BY <3>1, RemoveAtProperties
    <3>3. LiveLine(order_node_map', side, price, RemoveAt(order_queues[side][price], k))
      BY <3>1, LiveLineShrinks
    <3> QED BY <1>3, <2>1, <3>2, <3>3
  <2>2. CASE s # side \/ p # price
    <3>1. /\ order_queues[s][p] \in Seq(Nat)
          /\ LiveLine(order_node_map, s, p, order_queues[s][p])
      BY LineFacts
    <3>2. \A i \in 1..Len(order_queues[s][p]) : order_queues[s][p][i] # gone
      <4>1. order_node_map[gone].order_type = side /\ order_node_map[gone].price = price
        BY LineFacts
      <4>2. \A i \in 1..Len(order_queues[s][p]) :
              /\ order_node_map[order_queues[s][p][i]].order_type = s
              /\ order_node_map[order_queues[s][p][i]].price = p
        BY LineFacts
      <4> QED BY <2>2, <4>1, <4>2
    <3>3. LiveLine(order_node_map', s, p, order_queues[s][p])
      BY <3>1, <3>2, LiveLineKept
    <3> QED BY <1>3, <2>2, <3>1, <3>3
  <2> QED BY <2>1, <2>2
<1>5. LinesOK'
  BY <1>2, <1>4, TypeParts DEF IInv, LinesOK, LevelsUnchanged
<1>6. LevelsHoldLiveOrders'
  BY <1>2, <1>4 DEF IInv, LevelsHoldLiveOrders, LevelsUnchanged
<1> QED BY <1>2, <1>5, <1>6

\* Only an order that is in no line leaves the map, if any does.
LEMMA StayingKeepsLevels ==
  ASSUME IInv, NEW gone,
         UNCHANGED order_queues,
         \A s \in Side : order_pq'[s] \subseteq order_pq[s],
         Keeps(order_node_map, order_node_map', DOMAIN order_node_map \ {gone}),
         \A s \in Side : \A p \in DOMAIN order_queues[s] :
           \A i \in 1..Len(order_queues[s][p]) : order_queues[s][p][i] # gone
  PROVE  LevelsHoldLiveOrders' /\ LinesOK' /\ LevelsUnchanged
<1>1. DOMAIN order_queues = Side /\ LinesOK
  BY TypeParts DEF IInv, LinesOK
<1>2. ASSUME NEW s \in Side, NEW p \in DOMAIN order_queues[s]
      PROVE  LiveLine(order_node_map', s, p, order_queues[s][p])
  <2>1. /\ order_queues[s][p] \in Seq(Nat)
        /\ LiveLine(order_node_map, s, p, order_queues[s][p])
    BY LineFacts
  <2> QED BY <2>1, LiveLineKept
<1>3. LevelsHoldLiveOrders'
  BY <1>2 DEF IInv, LevelsHoldLiveOrders
<1> QED BY <1>1, <1>3 DEF LinesOK, LevelsUnchanged

\* Orders only leave the map.
LEMMA FewerOrdersHaveTheirLevel ==
  ASSUME IInv, LevelsUnchanged,
         DOMAIN order_node_map' \subseteq DOMAIN order_node_map,
         Keeps(order_node_map, order_node_map', DOMAIN order_node_map')
  PROVE  EveryOrderHasItsLevel'
BY NodeFacts DEF EveryOrderHasItsLevel, LevelsUnchanged, Keeps

LEMMA NoZeroInLine ==
  ASSUME IInv
  PROVE  \A s \in Side : \A p \in DOMAIN order_queues[s] :
           \A i \in 1..Len(order_queues[s][p]) : order_queues[s][p][i] # 0
<1>1. SUFFICES ASSUME NEW s \in Side, NEW p \in DOMAIN order_queues[s],
                      NEW i \in 1..Len(order_queues[s][p])
               PROVE  order_queues[s][p][i] # 0
  OBVIOUS
<1>2. order_queues[s][p][i] \in DOMAIN order_node_map
  BY LineFacts
<1> QED BY <1>2, NodeFacts

\* No order comes or goes: at most the heaps shrink and ids are handed out.
LEMMA SameOrders ==
  ASSUME IInv, UNCHANGED <<order_node_map, order_queues>>,
         \A s \in Side : order_pq'[s] \subseteq order_pq[s],
         id_counter' \in {id_counter, id_counter + 1}
  PROVE  NodesOK' /\ LinesOK' /\ LevelsHoldLiveOrders' /\ EveryOrderHasItsLevel'
<1>1. NodesOK /\ id_counter \in Nat
  BY TypeParts DEF IInv, RestOK
<1>2. NodesOK'
  BY <1>1 DEF NodesOK
<1>3. Keeps(order_node_map, order_node_map', DOMAIN order_node_map)
  BY DEF Keeps
<1>5. LevelsHoldLiveOrders' /\ LinesOK' /\ LevelsUnchanged
  <2>1. Keeps(order_node_map, order_node_map', DOMAIN order_node_map \ {0})
    BY <1>3 DEF Keeps
  <2> QED BY <2>1, NoZeroInLine, StayingKeepsLevels
<1>6. EveryOrderHasItsLevel'
  BY <1>3, <1>5, FewerOrdersHaveTheirLevel
<1> QED BY <1>2, <1>5, <1>6

\* A heap that levels are only taken off keeps its type.
LEMMA ShrinkingHeap ==
  ASSUME RestOK, NEW pq, pq = [s \in Side |-> pq[s]],
         \A s \in Side : pq[s] \subseteq order_pq[s]
  PROVE  pq \in [Side -> SUBSET (Price \ {0})]
BY DEF RestOK

\* What an int that has wrapped around holds is a number.
LEMMA WrappedIsInt == \A n \in Int : Wrapped(n) \in Int
BY DEF Wrapped

\* Taking volume from, or adding it to, a price keeps the volumes' type.
LEMMA VolumesTyped ==
  ASSUME RestOK, NEW side \in Side, NEW price \in Price, NEW volume \in Int,
         AddVolume(side, price, volume)
  PROVE  volume_at_price' \in [Side -> [Unit -> Int]]
<1>1. Units(price) \in Unit
  BY DEF Unit
<1>2. Wrapped(volume_at_price[side][Units(price)] + volume) \in Int
  BY <1>1, WrappedIsInt DEF RestOK
<1> QED BY <1>1, <1>2 DEF RestOK, AddVolume

LEMMA UnitsNatural == \A price \in Price : Units(price) \in Nat
BY DEF Units

-----------------------------------------------------------------------------
(* The invariant holds at the start and across every action.               *)

LEMMA InitIInv == Init => IInv
<1> SUFFICES ASSUME Init PROVE IInv
  OBVIOUS
<1> USE DEF Init
<1>1. NodesOK /\ LinesOK
  BY DEF NodesOK, LinesOK
<1>2. RestOK
  BY EmptySeq DEF RestOK, Unit
<1>3. TypeOK
  BY <1>1, <1>2, NoCallType, TypeParts
<1>4. CallInProgress
  BY DEF CallInProgress, NoCall
<1>5. LevelsHoldLiveOrders /\ EveryOrderHasItsLevel
  BY DEF LevelsHoldLiveOrders, EveryOrderHasItsLevel
<1> QED BY <1>3, <1>4, <1>5 DEF IInv

LEMMA RejectOrderIInv ==
  ASSUME IInv, NEW price \in Price, NEW volume \in Volume, RejectOrder(price, volume)
  PROVE  IInv'
<1> USE DEF RejectOrder, bookVars
<1>1. RestOK /\ id_counter \in Nat
  BY TypeParts DEF IInv, RestOK
<1>2. RestOK'
  BY <1>1 DEF RestOK
<1>3. NodesOK' /\ LinesOK' /\ LevelsHoldLiveOrders' /\ EveryOrderHasItsLevel'
  BY SameOrders
<1>4. call' \in CallType /\ CallInProgress'
  BY NoCallType DEF CallInProgress, NoCall
<1> QED BY <1>2, <1>3, <1>4, IInvAfter

LEMMA HandleOrderIInv ==
  ASSUME IInv, NEW user \in User, NEW side \in Side, NEW price \in Price,
         NEW volume \in Volume, HandleOrder(user, side, price, volume)
  PROVE  IInv'
<1> USE DEF HandleOrder
<1>1. RestOK /\ id_counter \in Nat
  BY TypeParts DEF IInv, RestOK
<1>2. \A s \in Side : order_pq'[s] \subseteq order_pq[s]
  BY DEF CleanedUp, PopUntil
<1>3. order_pq' \in [Side -> SUBSET (Price \ {0})]
  BY <1>1, <1>2, ShrinkingHeap
<1>4. volume \in Nat \ {0} /\ price \in Price \ {0} /\ price \in Nat
  OBVIOUS
<1>5. committed' \in [User -> [Side -> Int]]
  BY <1>1, <1>4 DEF RestOK
<1>6. RestOK'
  BY <1>1, <1>3, <1>5 DEF RestOK
<1>7. NodesOK' /\ LinesOK' /\ LevelsHoldLiveOrders' /\ EveryOrderHasItsLevel'
  BY <1>1, <1>2, SameOrders
<1>8. call' \in CallType /\ CallInProgress'
  BY <1>4, EmptySeq DEF CallInProgress, NoCall, CallType, IdsLeft
<1> QED BY <1>6, <1>7, <1>8, IInvAfter

LEMMA SkipEmptyLevelIInv ==
  ASSUME IInv, NEW price, SkipEmptyLevel(price)
  PROVE  IInv'
<1> USE DEF SkipEmptyLevel
<1>1. RestOK /\ id_counter \in Nat /\ call \in CallType /\ CallInProgress
  BY TypeParts DEF IInv, RestOK
<1>2. order_pq' \in [Side -> SUBSET (Price \ {0})]
  BY <1>1 DEF RestOK
<1>3. \A s \in Side : order_pq'[s] \subseteq order_pq[s]
  BY <1>1 DEF RestOK
<1>4. RestOK'
  BY <1>1, <1>2 DEF RestOK
<1>5. NodesOK' /\ LinesOK' /\ LevelsHoldLiveOrders' /\ EveryOrderHasItsLevel'
  BY <1>3, SameOrders
<1>6. call' \in CallType /\ CallInProgress'
  BY <1>1 DEF CallInProgress, IdsLeft
<1> QED BY <1>4, <1>5, <1>6, IInvAfter

\* The head of a line leaves it, and the map at most loses that order.
LEMMA HeadLeaves ==
  ASSUME IInv, NEW price, LoopLevel(price), Matches(price),
         order_queues' = WithoutFirst(price),
         \A s \in Side : order_pq'[s] \subseteq order_pq[s],
         Keeps(order_node_map, order_node_map',
               DOMAIN order_node_map \ {Head(order_queues[Opposite(call.side)][price])})
  PROVE  LevelsHoldLiveOrders' /\ LinesOK' /\ LevelsUnchanged
<1>1. PICK side : side = Opposite(call.side)
  OBVIOUS
<1>2. /\ side \in Side
      /\ price \in DOMAIN order_queues[side]
      /\ 1 \in 1..Len(order_queues[side][price])
      /\ Head(order_queues[side][price]) = order_queues[side][price][1]
      /\ Tail(order_queues[side][price]) = RemoveAt(order_queues[side][price], 1)
  BY <1>1, HeadFacts
<1>3. order_queues' = [order_queues EXCEPT ![side][price] = RemoveAt(@, 1)]
  BY <1>1, <1>2 DEF WithoutFirst
<1>4. Keeps(order_node_map, order_node_map',
            DOMAIN order_node_map \ {order_queues[side][price][1]})
  BY <1>1, <1>2
<1> QED BY <1>2, <1>3, <1>4, LeavingKeepsLevels

LEMMA CancelWashTradeIInv ==
  ASSUME IInv, NEW price, CancelWashTrade(price)
  PROVE  IInv'
<1> USE DEF CancelWashTrade
<1>1. RestOK /\ NodesOK /\ call \in CallType /\ CallInProgress
  BY TypeParts DEF IInv
<1>2. Keeps(order_node_map, order_node_map', DOMAIN order_node_map)
  BY DEF Keeps
<1>3. LevelsHoldLiveOrders' /\ LinesOK' /\ LevelsUnchanged
  <2>1. Keeps(order_node_map, order_node_map',
              DOMAIN order_node_map \ {Head(order_queues[Opposite(call.side)][price])})
    BY <1>2 DEF Keeps
  <2> QED BY <2>1, HeadLeaves
<1>4. EveryOrderHasItsLevel'
  BY <1>2, <1>3, FewerOrdersHaveTheirLevel
<1>5. RestOK' /\ NodesOK' /\ call' \in CallType /\ CallInProgress'
  BY <1>1 DEF RestOK, NodesOK, CallInProgress, IdsLeft
<1> QED BY <1>3, <1>4, <1>5, IInvAfter

\* The two orders of a fill and its volume.
LEMMA FillFacts ==
  ASSUME IInv, NEW price, LoopLevel(price), Matches(price)
  PROVE  LET id == Head(order_queues[Opposite(call.side)][price])
             order == order_node_map[id]
             filled == VolFilled(order)
         IN  /\ id \in DOMAIN order_node_map
             /\ id \in Nat \ {0}
             /\ order \in OrderNode
             /\ call.user \in User
             /\ price \in Price
             /\ order.order_type = Opposite(call.side)
             /\ order.price = price
             /\ order.user_id \in User
             /\ order.volume \in Nat \ {0}
             /\ call.volume \in Nat \ {0}
             /\ id_counter + call.volume <= MaxId
             /\ filled \in Nat \ {0}
             /\ filled <= call.volume
             /\ filled <= order.volume
<1>1. PICK id : id = Head(order_queues[Opposite(call.side)][price])
  OBVIOUS
<1>2. /\ id \in DOMAIN order_node_map
      /\ order_node_map[id].order_type = Opposite(call.side)
      /\ order_node_map[id].price = price
  BY <1>1, HeadFacts
<1>3. /\ id \in Nat \ {0}
      /\ order_node_map[id] \in OrderNode
      /\ order_node_map[id].price \in Price \ {0}
      /\ order_node_map[id].user_id \in User
      /\ order_node_map[id].volume \in Nat \ {0}
  BY <1>2, NodeFacts
<1>4. call.user \in User /\ call.volume \in Nat \ {0} /\ id_counter + call.volume <= MaxId
  BY TypeParts DEF LoopLevel, IInv, CallInProgress, CallType, IdsLeft
<1>5. /\ VolFilled(order_node_map[id]) \in Nat \ {0}
      /\ VolFilled(order_node_map[id]) <= call.volume
      /\ VolFilled(order_node_map[id]) <= order_node_map[id].volume
  BY <1>3, <1>4 DEF VolFilled
<1> QED BY <1>1, <1>2, <1>3, <1>4, <1>5

LEMMA TradeType ==
  ASSUME NEW id \in Nat, NEW side \in Side, NEW user \in User, NEW opposite_user \in User,
         NEW price \in Price, NEW volume \in Nat
  PROVE  GenerateTrade(id, side, user, opposite_user, price, volume) \in Trade
BY UnitsNatural DEF GenerateTrade, Trade

LEMMA FillIInv ==
  ASSUME IInv, NEW price, Fill(price)
  PROVE  IInv'
<1> DEFINE queue == order_queues[Opposite(call.side)][price]
           order == order_node_map[Head(queue)]
<1>1. PICK side, id, filled, traded :
        /\ side = Opposite(call.side)
        /\ id = Head(order_queues[Opposite(call.side)][price])
        /\ filled = VolFilled(order)
        /\ traded = GenerateTrade(id_counter + 1, side, call.user, order.user_id, price, filled)
  OBVIOUS
<1>2. /\ LoopLevel(price) /\ Matches(price)
      /\ order_node_map' = IF order_node_map[id].volume = filled
                           THEN Restrict(order_node_map, DOMAIN order_node_map \ {id})
                           ELSE [order_node_map EXCEPT ![id].volume = @ - filled]
      /\ order_queues' = IF order_node_map[id].volume = filled
                         THEN WithoutFirst(price) ELSE order_queues
      /\ order_pq' = PopIfEmpty(side, price, order_queues'[side][price])
      /\ AddVolume(side, price, -filled)
      /\ filled_trades' = Append(filled_trades, traded)
      /\ id_counter' = id_counter + 1
      /\ call' = [call EXCEPT !.volume = @ - filled, !.trades = Append(@, traded)]
      /\ committed' = committed
  BY <1>1 DEF Fill
<1>3. /\ id \in DOMAIN order_node_map /\ id \in Nat \ {0}
      /\ order_node_map[id] \in OrderNode
      /\ order_node_map[id].user_id \in User
      /\ order_node_map[id].volume \in Nat \ {0}
      /\ call.user \in User /\ call.volume \in Nat \ {0} /\ price \in Price
      /\ filled \in Nat \ {0} /\ filled <= call.volume /\ filled <= order_node_map[id].volume
      /\ id_counter + call.volume <= MaxId
  BY <1>1, <1>2, FillFacts
<1>4. /\ RestOK /\ NodesOK /\ call \in CallType /\ CallInProgress
      /\ id_counter \in Nat /\ DOMAIN order_queues = Side /\ side \in Side
  BY <1>1, TypeParts, SideFacts DEF IInv, RestOK, LinesOK, CallType
<1>5. traded \in Trade
  BY <1>1, <1>3, <1>4, TradeType
<1> HIDE DEF queue, order
<1>6. RestOK'
  <2>1. order_pq' \in [Side -> SUBSET (Price \ {0})]
    BY <1>2, <1>4 DEF RestOK, PopIfEmpty
  <2>2. volume_at_price' \in [Side -> [Unit -> Int]]
    <3>1. -filled \in Int
      BY <1>3
    <3> QED BY <1>2, <1>3, <1>4, <3>1, VolumesTyped
  <2>3. filled_trades' \in Seq(Trade)
    BY <1>2, <1>4, <1>5, AppendProperties DEF RestOK
  <2>4. id_counter' \in 0..MaxId
    BY <1>2, <1>3, <1>4
  <2> QED BY <1>2, <1>4, <2>1, <2>2, <2>3, <2>4 DEF RestOK
<1>7. call' \in CallType /\ CallInProgress'
  <2>1. call.volume - filled \in Nat
    BY <1>3
  <2>2. Append(call.trades, traded) \in Seq(Trade)
    BY <1>4, <1>5, AppendProperties DEF CallType
  <2>3. call' \in CallType
    BY <1>2, <1>4, <2>1, <2>2 DEF CallType
  <2>4. id_counter' + call'.volume <= MaxId
    <3>1. call'.volume = call.volume - filled
      BY <1>2, <1>4 DEF CallType
    <3> QED BY <1>2, <1>3, <1>4, <3>1
  <2>5. call'.phase = call.phase /\ call'.user = call.user /\ call'.price = call.price
    BY <1>2, <1>4 DEF CallType
  <2> QED BY <1>4, <2>3, <2>4, <2>5 DEF CallInProgress, IdsLeft
<1>8. \A s \in Side : order_pq'[s] \subseteq order_pq[s]
  BY <1>2, <1>4 DEF RestOK, PopIfEmpty
<1>11. 1..id_counter \subseteq 1..id_counter'
  BY <1>2, <1>4
<1>9. CASE order_node_map[id].volume = filled
  <2>1. /\ DOMAIN order_node_map' = DOMAIN order_node_map \ {id}
        /\ \A i \in DOMAIN order_node_map \ {id} : order_node_map'[i] = order_node_map[i]
    BY <1>2, <1>9 DEF Restrict
  <2>2. NodesOK'
    BY <1>4, <1>11, <2>1 DEF NodesOK
  <2>3. Keeps(order_node_map, order_node_map', DOMAIN order_node_map \ {id})
    BY <2>1 DEF Keeps
  <2>4. LevelsHoldLiveOrders' /\ LinesOK' /\ LevelsUnchanged
    BY <1>1, <1>2, <1>8, <1>9, <2>3, HeadLeaves
  <2>5. EveryOrderHasItsLevel'
    BY <2>1, <2>3, <2>4, FewerOrdersHaveTheirLevel
  <2> QED BY <1>6, <1>7, <2>2, <2>4, <2>5, IInvAfter
<1>10. CASE order_node_map[id].volume # filled
  <2>1. /\ DOMAIN order_node_map' = DOMAIN order_node_map
        /\ \A i \in DOMAIN order_node_map :
             i # id => order_node_map'[i] = order_node_map[i]
        /\ order_node_map'[id] = [order_node_map[id] EXCEPT !.volume = @ - filled]
    BY <1>2, <1>3, <1>10
  <2>2. /\ order_node_map'[id] \in OrderNode
        /\ order_node_map'[id].order_type = order_node_map[id].order_type
        /\ order_node_map'[id].price = order_node_map[id].price
    <3>1. order_node_map[id].volume - filled \in Nat \ {0}
      BY <1>3, <1>10
    <3> QED BY <1>3, <2>1, <3>1 DEF OrderNode
  <2>3. NodesOK'
    BY <1>4, <1>11, <2>1, <2>2 DEF NodesOK
  <2>4. Keeps(order_node_map, order_node_map', DOMAIN order_node_map)
    BY <2>1, <2>2 DEF Keeps
  <2>5. LevelsHoldLiveOrders' /\ LinesOK' /\ LevelsUnchanged
    <3>1. UNCHANGED order_queues
      BY <1>2, <1>10
    <3>2. Keeps(order_node_map, order_node_map', DOMAIN order_node_map \ {0})
      BY <2>4 DEF Keeps
    <3> QED BY <1>8, <3>1, <3>2, NoZeroInLine, StayingKeepsLevels
  <2>6. EveryOrderHasItsLevel'
    BY <2>1, <2>4, <2>5, FewerOrdersHaveTheirLevel
  <2> QED BY <1>6, <1>7, <2>3, <2>5, <2>6, IInvAfter
<1> QED BY <1>9, <1>10

LEMMA ReturnFilledIInv ==
  ASSUME IInv, ReturnFilled
  PROVE  IInv'
<1> USE DEF ReturnFilled, bookVars
<1>1. RestOK /\ id_counter \in Nat /\ call \in CallType
  BY TypeParts DEF IInv, RestOK
<1>2. RestOK'
  BY <1>1 DEF RestOK
<1>3. NodesOK' /\ LinesOK' /\ LevelsHoldLiveOrders' /\ EveryOrderHasItsLevel'
  BY SameOrders
<1>4. call' \in CallType /\ call'.phase = "returned"
  BY <1>1 DEF CallType
<1> QED BY <1>2, <1>3, <1>4, IInvAfter DEF CallInProgress

LEMMA RestRemainderIInv ==
  ASSUME IInv, RestRemainder
  PROVE  IInv'
<1>1. PICK id, order, side, price :
        /\ id = id_counter + 1
        /\ side = call.side
        /\ price = call.price
        /\ order = [user_id |-> call.user, volume |-> call.volume,
                    price |-> call.price, order_type |-> call.side]
  OBVIOUS
<1>2. /\ call.phase = "matching" /\ call.volume > 0
      /\ AddOrderToBook(id, order)
      /\ AddVolume(side, price, call.volume)
      /\ id_counter' = id
      /\ call' = [call EXCEPT !.phase = "returned", !.order_id = id]
      /\ UNCHANGED <<filled_trades, committed>>
  BY <1>1 DEF RestRemainder, LoopEnds
<1>3. /\ RestOK /\ NodesOK /\ LinesOK /\ call \in CallType /\ CallInProgress
      /\ LevelsHoldLiveOrders /\ EveryOrderHasItsLevel
  BY TypeParts DEF IInv
<1>4. /\ side \in Side /\ price \in Price \ {0} /\ call.user \in User
      /\ call.volume \in Nat \ {0} /\ id_counter \in Nat /\ id \in Nat
      /\ id_counter' \in 0..MaxId /\ id \in 1..id_counter'
      /\ 1..id_counter \subseteq 1..id_counter'
      /\ \A i \in 1..id_counter : i < id
  BY <1>1, <1>2, <1>3 DEF RestOK, CallType, CallInProgress, IdsLeft
<1>5. /\ order \in OrderNode
      /\ order.order_type = side /\ order.price = price
  BY <1>1, <1>4 DEF OrderNode
<1>6. /\ DOMAIN order_node_map' = DOMAIN order_node_map \cup {id}
      /\ order_node_map'[id] = order
      /\ \A i \in DOMAIN order_node_map : i # id /\ order_node_map'[i] = order_node_map[i]
  <2>1. id \notin DOMAIN order_node_map
    BY <1>3, <1>4 DEF NodesOK
  <2> QED BY <1>2, <2>1 DEF AddOrderToBook
<1>7. /\ DOMAIN order_queues' = Side
      /\ \A s \in Side \ {side} : order_queues'[s] = order_queues[s]
      /\ DOMAIN order_queues'[side] = DOMAIN order_queues[side] \cup {price}
      /\ \A p \in DOMAIN order_queues[side] \ {price} :
           order_queues'[side][p] = order_queues[side][p]
      /\ order_queues'[side][price] = IF price \in DOMAIN order_queues[side]
                                      THEN Append(order_queues[side][price], id) ELSE <<id>>
  BY <1>2, <1>3, <1>4, <1>5 DEF AddOrderToBook, LinesOK
<1>8. /\ order_pq' \in [Side -> SUBSET (Price \ {0})]
      /\ \A s \in Side : order_pq'[s] \subseteq order_pq[s] \cup (IF s = side THEN {price} ELSE {})
  BY <1>2, <1>3, <1>4, <1>5 DEF AddOrderToBook, RestOK
<1>9. RestOK'
  <2>1. volume_at_price' \in [Side -> [Unit -> Int]]
    BY <1>2, <1>3, <1>4, VolumesTyped
  <2> QED BY <1>2, <1>3, <1>4, <1>8, <2>1 DEF RestOK
<1>10. NodesOK'
  BY <1>3, <1>4, <1>5, <1>6 DEF NodesOK
<1>11. call' \in CallType /\ CallInProgress'
  <2>1. call' \in CallType /\ call'.phase = "returned"
    BY <1>2, <1>3, <1>4 DEF CallType
  <2> QED BY <2>1 DEF CallInProgress
<1>12. Keeps(order_node_map, order_node_map', DOMAIN order_node_map)
  BY <1>6 DEF Keeps
<1>13. ASSUME NEW s \in Side, NEW p \in DOMAIN order_queues'[s]
       PROVE  /\ order_queues'[s][p] \in Seq(Nat)
              /\ LiveLine(order_node_map', s, p, order_queues'[s][p])
  <2>1. CASE p \in DOMAIN order_queues[s] /\ (s # side \/ p # price)
    <3>1. order_queues'[s][p] = order_queues[s][p]
      BY <1>7, <2>1
    <3>2. /\ order_queues[s][p] \in Seq(Nat)
          /\ LiveLine(order_node_map, s, p, order_queues[s][p])
          /\ \A i \in 1..Len(order_queues[s][p]) : order_queues[s][p][i] # 0
      BY <2>1, LineFacts, NoZeroInLine
    <3>3. Keeps(order_node_map, order_node_map', DOMAIN order_node_map \ {0})
      BY <1>12 DEF Keeps
    <3>4. LiveLine(order_node_map', s, p, order_queues[s][p])
      BY <3>2, <3>3, LiveLineKept
    <3> QED BY <3>1, <3>2, <3>4
  <2>2. CASE s = side /\ p = price /\ price \in DOMAIN order_queues[side]
    <3>1. order_queues'[s][p] = Append(order_queues[side][price], id)
      BY <1>7, <2>2
    <3>2. /\ order_queues[side][price] \in Seq(Nat)
          /\ LiveLine(order_node_map, side, price, order_queues[side][price])
      BY <1>4, <2>2, LineFacts
    <3>3. LiveLine(order_node_map', side, price, Append(order_queues[side][price], id))
      <4>1. \A other \in DOMAIN order_node_map : other < id
        BY <1>3, <1>4 DEF NodesOK
      <4> QED BY <1>4, <1>5, <1>6, <1>12, <3>2, <4>1, LiveLineGrows
    <3>4. Append(order_queues[side][price], id) \in Seq(Nat)
      BY <1>4, <3>2, AppendProperties
    <3> QED BY <2>2, <3>1, <3>3, <3>4
  <2>3. CASE s = side /\ p = price /\ price \notin DOMAIN order_queues[side]
    <3>1. order_queues'[s][p] = <<id>>
      BY <1>7, <2>3
    <3>2. LiveLine(order_node_map', side, price, <<id>>)
      BY <1>5, <1>6 DEF LiveLine
    <3> QED BY <1>4, <2>3, <3>1, <3>2
  <2>4. p \in DOMAIN order_queues[s] \/ (s = side /\ p = price)
    BY <1>7
  <2> QED BY <2>1, <2>2, <2>3, <2>4
<1>14. LinesOK'
  BY <1>3, <1>4, <1>7, <1>13 DEF LinesOK
<1>15. LevelsHoldLiveOrders'
  <2>1. \A s \in Side : order_pq'[s] \subseteq DOMAIN order_queues'[s]
    BY <1>3, <1>7, <1>8 DEF LevelsHoldLiveOrders
  <2> QED BY <1>13, <2>1 DEF LevelsHoldLiveOrders
<1>16. EveryOrderHasItsLevel'
  <2>1. SUFFICES ASSUME NEW i \in DOMAIN order_node_map'
                 PROVE  order_node_map'[i].price
                          \in DOMAIN order_queues'[order_node_map'[i].order_type]
    BY DEF EveryOrderHasItsLevel
  <2>2. CASE i = id
    BY <1>5, <1>6, <1>7, <2>2
  <2>3. CASE i \in DOMAIN order_node_map
    <3>1. /\ order_node_map'[i] = order_node_map[i]
          /\ order_node_map[i].order_type \in Side
          /\ order_node_map[i].price \in DOMAIN order_queues[order_node_map[i].order_type]
      BY <1>6, <2>3, NodeFacts
    <3> QED BY <1>7, <3>1
  <2> QED BY <1>6, <2>2, <2>3
<1> QED BY <1>9, <1>10, <1>11, <1>14, <1>15, <1>16, IInvAfter

LEMMA CancelOrderIInv ==
  ASSUME IInv, NEW id, CancelOrder(id)
  PROVE  IInv'
<1>1. PICK order, side, price :
        /\ order = order_node_map[id]
        /\ side = order.order_type
        /\ price = order.price
  OBVIOUS
<1>2. /\ id \in DOMAIN order_node_map
      /\ AddVolume(side, price, -order.volume)
      /\ \/ \E i \in 1..Len(order_queues[side][price]) :
              /\ order_queues[side][price][i] = id
              /\ order_queues' = [order_queues EXCEPT
                                    ![side][price] = RemoveAt(order_queues[side][price], i)]
         \/ /\ \A i \in 1..Len(order_queues[side][price]) :
                 order_queues[side][price][i] # id
            /\ UNCHANGED order_queues
      /\ order_node_map' = Restrict(order_node_map, DOMAIN order_node_map \ {id})
      /\ committed' = [committed EXCEPT ![order.user_id][side] = @ - order.volume]
      /\ call' = NoCall
      /\ UNCHANGED <<order_pq, filled_trades, id_counter>>
  BY <1>1 DEF CancelOrder
<1>3. /\ side \in Side /\ price \in Price /\ order.user_id \in User
      /\ order.volume \in Nat \ {0} /\ -order.volume \in Int
      /\ price \in DOMAIN order_queues[side]
  BY <1>1, <1>2, NodeFacts
<1>4. RestOK /\ NodesOK
  BY TypeParts DEF IInv
<1>5. /\ DOMAIN order_node_map' = DOMAIN order_node_map \ {id}
      /\ \A i \in DOMAIN order_node_map \ {id} : order_node_map'[i] = order_node_map[i]
  BY <1>2 DEF Restrict
<1>6. RestOK'
  <2>1. volume_at_price' \in [Side -> [Unit -> Int]]
    BY <1>2, <1>3, <1>4, VolumesTyped
  <2>2. committed' \in [User -> [Side -> Int]]
    <3>1. committed[order.user_id][side] - order.volume \in Int
      BY <1>3, <1>4 DEF RestOK
    <3> QED BY <1>2, <1>3, <1>4, <3>1 DEF RestOK
  <2> QED BY <1>2, <1>4, <2>1, <2>2 DEF RestOK
<1>7. NodesOK'
  BY <1>2, <1>4, <1>5 DEF NodesOK
<1>8. call' \in CallType /\ CallInProgress'
  BY <1>2, NoCallType DEF CallInProgress, NoCall
<1>9. Keeps(order_node_map, order_node_map', DOMAIN order_node_map \ {id})
  BY <1>5 DEF Keeps
<1>10. \A s \in Side : order_pq'[s] \subseteq order_pq[s]
  BY <1>2
<1>11. LevelsHoldLiveOrders' /\ LinesOK' /\ LevelsUnchanged
  <2>1. CASE \E i \in 1..Len(order_queues[side][price]) :
               /\ order_queues[side][price][i] = id
               /\ order_queues' = [order_queues EXCEPT
                                     ![side][price] = RemoveAt(order_queues[side][price], i)]
    <3>1. PICK i \in 1..Len(order_queues[side][price]) :
            /\ order_queues[side][price][i] = id
            /\ order_queues' = [order_queues EXCEPT ![side][price] = RemoveAt(@, i)]
      BY <2>1
    <3> QED BY <1>3, <1>9, <1>10, <3>1, LeavingKeepsLevels
  <2>2. CASE /\ \A i \in 1..Len(order_queues[side][price]) :
                  order_queues[side][price][i] # id
             /\ UNCHANGED order_queues
    <3>1. \A s \in Side : \A p \in DOMAIN order_queues[s] :
            \A i \in 1..Len(order_queues[s][p]) : order_queues[s][p][i] # id
      <4>1. SUFFICES ASSUME NEW s \in Side, NEW p \in DOMAIN order_queues[s],
                            NEW i \in 1..Len(order_queues[s][p]),
                            order_queues[s][p][i] = id
                     PROVE  FALSE
        OBVIOUS
      <4>2. s = side /\ p = price
        BY <1>1, <4>1, LineFacts
      <4> QED BY <2>2, <4>1, <4>2
    <3> QED BY <1>9, <1>10, <2>2, <3>1, StayingKeepsLevels
  <2> QED BY <1>2, <2>1, <2>2
<1>12. EveryOrderHasItsLevel'
  BY <1>5, <1>9, <1>11, FewerOrdersHaveTheirLevel
<1> QED BY <1>6, <1>7, <1>8, <1>11, <1>12, IInvAfter

LEMMA CancelUnknownOrderIInv ==
  ASSUME IInv, NEW id, CancelUnknownOrder(id)
  PROVE  IInv'
<1> USE DEF CancelUnknownOrder, bookVars
<1>1. RestOK
  BY TypeParts DEF IInv
<1>2. RestOK'
  BY <1>1 DEF RestOK
<1>3. NodesOK' /\ LinesOK' /\ LevelsHoldLiveOrders' /\ EveryOrderHasItsLevel'
  BY SameOrders
<1>4. call' \in CallType /\ CallInProgress'
  BY NoCallType DEF CallInProgress, NoCall
<1> QED BY <1>2, <1>3, <1>4, IInvAfter

LEMMA GetTopOfBookIInv ==
  ASSUME IInv, GetTopOfBook
  PROVE  IInv'
<1> USE DEF GetTopOfBook
<1>1. RestOK
  BY TypeParts DEF IInv
<1>2. \A s \in Side : order_pq'[s] \subseteq order_pq[s]
  BY DEF PopUntil
<1>3. RestOK'
  <2>1. order_pq' \in [Side -> SUBSET (Price \ {0})]
    BY <1>1, <1>2, ShrinkingHeap
  <2> QED BY <1>1, <2>1 DEF RestOK
<1>4. NodesOK' /\ LinesOK' /\ LevelsHoldLiveOrders' /\ EveryOrderHasItsLevel'
  BY <1>2, SameOrders
<1>5. call' \in CallType /\ CallInProgress'
  BY NoCallType DEF CallInProgress, NoCall
<1> QED BY <1>3, <1>4, <1>5, IInvAfter

LEMMA OtherBookGeneratesIdIInv ==
  ASSUME IInv, OtherBookGeneratesId
  PROVE  IInv'
<1>0. RestOK /\ call \in CallType
  BY TypeParts DEF IInv
<1>1. id_counter \in 0..MaxId /\ MaxId \in Nat /\ call.volume \in Nat
  BY <1>0, BookAssumption DEF RestOK, CallType
<1>2. UNCHANGED <<bookVars, call, committed>> /\ id_counter' = id_counter + 1
  BY DEF OtherBookGeneratesId
<1>3. RestOK'
  <2>1. id_counter + 1 <= MaxId
    BY <1>1 DEF OtherBookGeneratesId, IdsLeft
  <2>2. id_counter' \in 0..MaxId
    BY <1>1, <1>2, <2>1
  <2> QED BY <1>0, <1>2, <2>2 DEF RestOK, bookVars
<1>4. NodesOK' /\ LinesOK' /\ LevelsHoldLiveOrders' /\ EveryOrderHasItsLevel'
  BY <1>2, SameOrders DEF bookVars
<1>5. call' \in CallType
  BY <1>0, <1>2
<1>6. CallInProgress'
  <2>1. SUFFICES ASSUME call.phase = "matching"
                 PROVE  /\ call.user \in User /\ call.price \in Price \ {0}
                        /\ id_counter' + call.volume <= MaxId
    BY <1>2 DEF CallInProgress, IdsLeft
  <2>2. id_counter + (1 + call.volume) <= MaxId
    BY <2>1 DEF OtherBookGeneratesId, Idle, IdsLeft
  <2>3. id_counter' + call.volume <= MaxId
    BY <1>1, <1>2, <2>2
  <2> QED BY <2>1, <2>3 DEF IInv, CallInProgress
<1> QED BY <1>3, <1>4, <1>5, <1>6, IInvAfter

LEMMA StutterIInv ==
  ASSUME IInv, UNCHANGED vars
  PROVE  IInv'
<1>1. /\ NodesOK /\ LinesOK /\ RestOK /\ call \in CallType
      /\ CallInProgress /\ LevelsHoldLiveOrders /\ EveryOrderHasItsLevel
  BY TypeParts DEF IInv
<1> QED
  BY <1>1, IInvAfter
  DEF vars, NodesOK, LinesOK, RestOK, CallInProgress, IdsLeft, LevelsHoldLiveOrders,
      EveryOrderHasItsLevel

LEMMA NextIInv == IInv /\ [Next]_vars => IInv'
<1> SUFFICES ASSUME IInv, [Next]_vars PROVE IInv'
  OBVIOUS
<1>1. ASSUME NEW user \in User, NEW side \in Side, NEW price \in Price, NEW volume \in Volume,
             HandleOrder(user, side, price, volume)
      PROVE  IInv'
  BY <1>1, HandleOrderIInv
<1>2. ASSUME NEW price \in Price, NEW volume \in Volume, RejectOrder(price, volume)
      PROVE  IInv'
  BY <1>2, RejectOrderIInv
<1>3. CASE HandleOrderStep
  BY <1>3, SkipEmptyLevelIInv, CancelWashTradeIInv, FillIInv, ReturnFilledIInv,
     RestRemainderIInv DEF HandleOrderStep
<1>4. ASSUME NEW id \in 1..MaxId, CancelOrder(id) \/ CancelUnknownOrder(id)
      PROVE  IInv'
  BY <1>4, CancelOrderIInv, CancelUnknownOrderIInv
<1>5. CASE GetTopOfBook
  BY <1>5, GetTopOfBookIInv
<1>6. CASE OtherBookGeneratesId
  BY <1>6, OtherBookGeneratesIdIInv
<1>7. CASE UNCHANGED vars
  BY <1>7, StutterIInv
<1> QED BY <1>1, <1>2, <1>3, <1>4, <1>5, <1>6, <1>7 DEF Next

-----------------------------------------------------------------------------
(* The theorems.                                                           *)

LEMMA SpecIInv == Spec => []IInv
BY InitIInv, NextIInv, PTL DEF Spec

\* Whatever orders, cancellations and queries come, every order node, level,
\* heap, volume and trade of the book keeps its type.
THEOREM BookTypeCorrect == Spec => []TypeOK
<1>1. IInv => TypeOK
  BY DEF IInv
<1> QED BY SpecIInv, <1>1, PTL

\* No line holds the id of an order that was erased, that is of another side or
\* price, or that stands in it twice: the pointers HandleOrder and CancelOrder
\* follow without a test are good.
THEOREM LinesHoldLiveOrders == Spec => []LevelsHoldLiveOrders
<1>1. IInv => LevelsHoldLiveOrders
  BY DEF IInv
<1> QED BY SpecIInv, <1>1, PTL

\* CancelOrder's lookup of the level of the order it found never throws.
THEOREM CancelFindsTheLevel == Spec => []EveryOrderHasItsLevel
<1>1. IInv => EveryOrderHasItsLevel
  BY DEF IInv
<1> QED BY SpecIInv, <1>1, PTL

-----------------------------------------------------------------------------
(* Volumes of orders and trades, summed.                                   *)

\* These records have volumes.
NumbersOn(records, which) == \A x \in which : records[x].volume \in Int

\* Volumes add up to an integer.
LEMMA VolumeIsInt ==
  ASSUME NEW records, NEW which, IsFiniteSet(which), NumbersOn(records, which)
  PROVE  VolumeOf(records, which) \in Int
<1> DEFINE f == [x \in which |-> records[x].volume]
<1>1. SumFunctionOnSet(f, which) \in Int
  <2>1. \A x \in which : f[x] \in Int
    BY DEF NumbersOn
  <2> HIDE DEF f
  <2> QED BY <2>1, SumType
<1> QED BY <1>1 DEF VolumeOf, SumFunction

\* The same volumes add up to the same.
LEMMA VolumeSame ==
  ASSUME NEW old, NEW new, NEW which, \A x \in which : new[x].volume = old[x].volume
  PROVE  VolumeOf(new, which) = VolumeOf(old, which)
<1>1. [x \in which |-> new[x].volume] = [x \in which |-> old[x].volume]
  OBVIOUS
<1> QED BY <1>1 DEF VolumeOf

\* One record more.
LEMMA VolumeJoined ==
  ASSUME NEW old, NEW new, NEW which, IsFiniteSet(which), NumbersOn(old, which),
         NEW x, x \notin which, new[x].volume \in Int,
         \A y \in which : new[y].volume = old[y].volume
  PROVE  VolumeOf(new, which \cup {x}) = VolumeOf(old, which) + new[x].volume
<1> DEFINE f == [y \in which \cup {x} |-> new[y].volume]
           g == [y \in which |-> old[y].volume]
<1>1. \A y \in which : f[y] = g[y] /\ f[y] \in Int
  BY DEF NumbersOn
<1>2. f[x] = new[x].volume /\ f[x] \in Int
  OBVIOUS
<1>3. VolumeOf(new, which \cup {x}) = SumFunctionOnSet(f, which \cup {x})
  BY DEF VolumeOf, SumFunction
<1>4. VolumeOf(old, which) = SumFunctionOnSet(g, which)
  BY DEF VolumeOf, SumFunction
<1> HIDE DEF f, g
<1>5. SumFunctionOnSet(f, which \cup {x}) = f[x] + SumFunctionOnSet(f, which)
  BY <1>1, <1>2, SumAdd
<1>6. SumFunctionOnSet(f, which) = SumFunctionOnSet(g, which)
  BY <1>1, SumSame
<1>7. SumFunctionOnSet(f, which) \in Int
  BY <1>1, SumType
<1> QED BY <1>2, <1>3, <1>4, <1>5, <1>6, <1>7

\* One record less.
LEMMA VolumeLeft ==
  ASSUME NEW old, NEW new, NEW which, IsFiniteSet(which), NumbersOn(old, which),
         NEW x \in which,
         \A y \in which \ {x} : new[y].volume = old[y].volume
  PROVE  VolumeOf(new, which \ {x}) = VolumeOf(old, which) - old[x].volume
<1>1. VolumeOf(old, (which \ {x}) \cup {x}) = VolumeOf(new, which \ {x}) + old[x].volume
  <2>1. IsFiniteSet(which \ {x}) /\ NumbersOn(new, which \ {x})
    BY FS_Subset DEF NumbersOn
  <2>2. old[x].volume \in Int /\ \A y \in which \ {x} : old[y].volume = new[y].volume
    BY DEF NumbersOn
  <2> QED BY <2>1, <2>2, VolumeJoined
<1>2. (which \ {x}) \cup {x} = which
  OBVIOUS
<1>3. VolumeOf(new, which \ {x}) \in Int /\ old[x].volume \in Int
  <2>1. IsFiniteSet(which \ {x}) /\ NumbersOn(new, which \ {x})
    BY FS_Subset DEF NumbersOn
  <2> QED BY <2>1, VolumeIsInt DEF NumbersOn
<1>4. VolumeOf(old, which) = VolumeOf(new, which \ {x}) + old[x].volume
  BY <1>1, <1>2
<1> QED BY <1>3, <1>4

\* One record with another volume.
LEMMA VolumeChanged ==
  ASSUME NEW old, NEW new, NEW which, IsFiniteSet(which), NumbersOn(old, which),
         NEW x \in which, new[x].volume \in Int,
         \A y \in which \ {x} : new[y].volume = old[y].volume
  PROVE  VolumeOf(new, which) = VolumeOf(old, which) - old[x].volume + new[x].volume
<1>1. VolumeOf(old, which \ {x}) = VolumeOf(old, which) - old[x].volume
  BY VolumeLeft
<1>2. VolumeOf(new, (which \ {x}) \cup {x}) = VolumeOf(old, which \ {x}) + new[x].volume
  <2>1. IsFiniteSet(which \ {x}) /\ NumbersOn(old, which \ {x})
    BY FS_Subset DEF NumbersOn
  <2> QED BY <2>1, VolumeJoined
<1>3. (which \ {x}) \cup {x} = which
  OBVIOUS
<1> QED BY <1>1, <1>2, <1>3

-----------------------------------------------------------------------------
(* What happens to the orders of the map in a step: at most one of them     *)
(* comes, goes or becomes smaller, and d is by how much the volume of its   *)
(* user, side and price changes.                                            *)

\* Whose order it is, on which side and at which price.
IsOf(order, user, side, price) ==
  order.user_id = user /\ order.order_type = side /\ order.price = price

\* The volume an id stands for in a map of orders.
HeldBy(nodes, id) == IF id \in DOMAIN nodes THEN nodes[id].volume ELSE 0

\* At most the order id changes in a step, by the volume d.
OrderChanges(id, user, side, price, d) ==
  /\ \A i \in DOMAIN order_node_map \ {id} :
       i \in DOMAIN order_node_map' /\ order_node_map'[i] = order_node_map[i]
  /\ DOMAIN order_node_map' \subseteq DOMAIN order_node_map \cup {id}
  /\ id \in DOMAIN order_node_map => IsOf(order_node_map[id], user, side, price)
  /\ id \in DOMAIN order_node_map' => IsOf(order_node_map'[id], user, side, price)
  /\ HeldBy(order_node_map', id) = HeldBy(order_node_map, id) + d

\* A selection of the orders of a map by what of an order never changes.
LEMMA SelectedVolumeChanges ==
  ASSUME NEW nodes, NEW nodes2, IsFiniteSet(DOMAIN nodes),
         NumbersOn(nodes, DOMAIN nodes), NumbersOn(nodes2, DOMAIN nodes2),
         NEW sel, NEW sel2, sel \subseteq DOMAIN nodes, sel2 \subseteq DOMAIN nodes2,
         NEW id, NEW in \in BOOLEAN,
         id \in DOMAIN nodes => (id \in sel <=> in),
         id \in DOMAIN nodes2 => (id \in sel2 <=> in),
         \A i \in DOMAIN nodes \ {id} : /\ i \in DOMAIN nodes2 /\ nodes2[i] = nodes[i]
                                        /\ i \in sel2 <=> i \in sel,
         DOMAIN nodes2 \subseteq DOMAIN nodes \cup {id}
  PROVE  VolumeOf(nodes2, sel2) = VolumeOf(nodes, sel)
           + (IF in THEN HeldBy(nodes2, id) - HeldBy(nodes, id) ELSE 0)
<1> USE DEF HeldBy
<1>1. IsFiniteSet(sel) /\ NumbersOn(nodes, sel)
  BY FS_Subset DEF NumbersOn
<1>2. VolumeOf(nodes, sel) \in Int
  BY <1>1, VolumeIsInt
<1>3. CASE ~in
  <2>1. sel2 = sel
    BY <1>3
  <2>2. \A i \in sel : nodes2[i].volume = nodes[i].volume
    BY <1>3
  <2> QED BY <1>2, <1>3, <2>1, <2>2, VolumeSame
<1>4. CASE in /\ id \in DOMAIN nodes /\ id \in DOMAIN nodes2
  <2>1. sel2 = sel /\ id \in sel
    BY <1>4
  <2>2. nodes2[id].volume \in Int /\ nodes[id].volume \in Int
    BY <1>4 DEF NumbersOn
  <2>3. \A i \in sel \ {id} : nodes2[i].volume = nodes[i].volume
    OBVIOUS
  <2>4. VolumeOf(nodes2, sel) = VolumeOf(nodes, sel) - nodes[id].volume + nodes2[id].volume
    BY <1>1, <2>1, <2>2, <2>3, VolumeChanged
  <2> QED BY <1>2, <1>4, <2>1, <2>2, <2>4
<1>5. CASE in /\ id \in DOMAIN nodes /\ id \notin DOMAIN nodes2
  <2>1. sel2 = sel \ {id} /\ id \in sel
    BY <1>5
  <2>2. nodes[id].volume \in Int
    BY <1>5 DEF NumbersOn
  <2>3. \A i \in sel \ {id} : nodes2[i].volume = nodes[i].volume
    OBVIOUS
  <2>4. VolumeOf(nodes2, sel \ {id}) = VolumeOf(nodes, sel) - nodes[id].volume
    BY <1>1, <2>1, <2>2, <2>3, VolumeLeft
  <2> QED BY <1>2, <1>5, <2>1, <2>2, <2>4
<1>6. CASE in /\ id \notin DOMAIN nodes /\ id \in DOMAIN nodes2
  <2>1. sel2 = sel \cup {id} /\ id \notin sel
    BY <1>6
  <2>2. nodes2[id].volume \in Int
    BY <1>6 DEF NumbersOn
  <2>3. \A i \in sel : nodes2[i].volume = nodes[i].volume
    BY <2>1
  <2>4. VolumeOf(nodes2, sel \cup {id}) = VolumeOf(nodes, sel) + nodes2[id].volume
    BY <1>1, <2>1, <2>2, <2>3, VolumeJoined
  <2> QED BY <1>2, <1>6, <2>1, <2>2, <2>4
<1>7. CASE in /\ id \notin DOMAIN nodes /\ id \notin DOMAIN nodes2
  <2>1. sel2 = sel
    BY <1>7
  <2>2. \A i \in sel : nodes2[i].volume = nodes[i].volume
    BY <1>7
  <2>3. VolumeOf(nodes2, sel) = VolumeOf(nodes, sel)
    BY <2>2, VolumeSame
  <2> QED BY <1>2, <1>7, <2>1, <2>3
<1> QED BY <1>3, <1>4, <1>5, <1>6, <1>7

\* There are finitely many orders: their ids are handed out from 1 on.
LEMMA NodesFinite ==
  ASSUME IInv
  PROVE  IsFiniteSet(DOMAIN order_node_map) /\ NumbersOn(order_node_map, DOMAIN order_node_map)
<1>1. DOMAIN order_node_map \subseteq 1..id_counter /\ id_counter \in Nat
  BY TypeParts DEF IInv, NodesOK, RestOK
<1>2. IsFiniteSet(1..id_counter)
  BY <1>1, FS_Interval
<1>3. IsFiniteSet(DOMAIN order_node_map)
  BY <1>1, <1>2, FS_Subset
<1>4. NumbersOn(order_node_map, DOMAIN order_node_map)
  BY NodeFacts DEF NumbersOn
<1> QED BY <1>3, <1>4

\* Likewise after a step.
LEMMA NodesFiniteAfter ==
  ASSUME IInv'
  PROVE  NumbersOn(order_node_map', DOMAIN order_node_map')
<1>1. \A id \in DOMAIN order_node_map' : order_node_map'[id] \in OrderNode
  BY DEF IInv, TypeOK
<1> QED BY <1>1 DEF NumbersOn, OrderNode

\* The volume of a unit changes with an order whose price falls on it.
LEMMA UnitVolumeChanges ==
  ASSUME IInv, IInv', NEW id, NEW user, NEW side, NEW price, NEW d \in Int,
         OrderChanges(id, user, side, price, d), NEW s, NEW unit
  PROVE  /\ VolumeInUnit(s, unit) \in Int
         /\ VolumeInUnit(s, unit)' =
              VolumeInUnit(s, unit) + (IF s = side /\ unit = Units(price) THEN d ELSE 0)
<1> DEFINE nodes == order_node_map
           nodes2 == order_node_map'
           sel == OrdersInUnit(nodes, s, unit)
           sel2 == OrdersInUnit(nodes2, s, unit)
           in == s = side /\ unit = Units(price)
<1>1. /\ IsFiniteSet(DOMAIN nodes) /\ NumbersOn(nodes, DOMAIN nodes)
      /\ NumbersOn(nodes2, DOMAIN nodes2)
  BY NodesFinite, NodesFiniteAfter
<1>2. sel \subseteq DOMAIN nodes /\ sel2 \subseteq DOMAIN nodes2
  BY DEF OrdersInUnit
<1>3. /\ id \in DOMAIN nodes => (id \in sel <=> in)
      /\ id \in DOMAIN nodes2 => (id \in sel2 <=> in)
  BY DEF OrdersInUnit, OrderChanges, IsOf
<1>4. \A i \in DOMAIN nodes \ {id} : /\ i \in DOMAIN nodes2 /\ nodes2[i] = nodes[i]
                                     /\ i \in sel2 <=> i \in sel
  BY DEF OrdersInUnit, OrderChanges
<1>5. DOMAIN nodes2 \subseteq DOMAIN nodes \cup {id}
  BY DEF OrderChanges
<1>6. HeldBy(nodes2, id) - HeldBy(nodes, id) = d
  <2>1. HeldBy(nodes, id) \in Int
    BY <1>1 DEF HeldBy, NumbersOn
  <2> QED BY <2>1 DEF OrderChanges
<1>7. VolumeOf(nodes, sel) \in Int
  <2>1. IsFiniteSet(sel) /\ NumbersOn(nodes, sel)
    BY <1>1, <1>2, FS_Subset DEF NumbersOn
  <2> QED BY <2>1, VolumeIsInt
<1>8. in \in BOOLEAN
  OBVIOUS
<1> HIDE DEF nodes, nodes2, sel, sel2, in
<1>9. VolumeOf(nodes2, sel2) = VolumeOf(nodes, sel)
           + (IF in THEN HeldBy(nodes2, id) - HeldBy(nodes, id) ELSE 0)
  BY <1>1, <1>2, <1>3, <1>4, <1>5, <1>8, SelectedVolumeChanges
<1>10. VolumeOf(nodes2, sel2) = VolumeOf(nodes, sel) + (IF in THEN d ELSE 0)
  BY <1>6, <1>9
<1>11. VolumeInUnit(s, unit) = VolumeOf(nodes, sel) /\ VolumeInUnit(s, unit)' = VolumeOf(nodes2, sel2)
  BY DEF VolumeInUnit, sel, sel2, nodes, nodes2
<1> QED BY <1>7, <1>10, <1>11 DEF in

\* The volume of a user's orders on a side changes with an order of his.
LEMMA HeldVolumeChanges ==
  ASSUME IInv, IInv', NEW id, NEW user, NEW side, NEW price, NEW d \in Int,
         OrderChanges(id, user, side, price, d), NEW u, NEW s
  PROVE  LET held == VolumeOf(order_node_map, OrdersOf(order_node_map, u, s))
         IN  held \in Int /\ held' = held + (IF u = user /\ s = side THEN d ELSE 0)
<1> DEFINE nodes == order_node_map
           nodes2 == order_node_map'
           sel == OrdersOf(nodes, u, s)
           sel2 == OrdersOf(nodes2, u, s)
           in == u = user /\ s = side
<1>1. /\ IsFiniteSet(DOMAIN nodes) /\ NumbersOn(nodes, DOMAIN nodes)
      /\ NumbersOn(nodes2, DOMAIN nodes2)
  BY NodesFinite, NodesFiniteAfter
<1>2. sel \subseteq DOMAIN nodes /\ sel2 \subseteq DOMAIN nodes2
  BY DEF OrdersOf
<1>3. /\ id \in DOMAIN nodes => (id \in sel <=> in)
      /\ id \in DOMAIN nodes2 => (id \in sel2 <=> in)
  BY DEF OrdersOf, OrderChanges, IsOf
<1>4. \A i \in DOMAIN nodes \ {id} : /\ i \in DOMAIN nodes2 /\ nodes2[i] = nodes[i]
                                     /\ i \in sel2 <=> i \in sel
  BY DEF OrdersOf, OrderChanges
<1>5. DOMAIN nodes2 \subseteq DOMAIN nodes \cup {id}
  BY DEF OrderChanges
<1>6. HeldBy(nodes2, id) - HeldBy(nodes, id) = d
  <2>1. HeldBy(nodes, id) \in Int
    BY <1>1 DEF HeldBy, NumbersOn
  <2> QED BY <2>1 DEF OrderChanges
<1>7. VolumeOf(nodes, sel) \in Int
  <2>1. IsFiniteSet(sel) /\ NumbersOn(nodes, sel)
    BY <1>1, <1>2, FS_Subset DEF NumbersOn
  <2> QED BY <2>1, VolumeIsInt
<1>8. in \in BOOLEAN
  OBVIOUS
<1> HIDE DEF nodes2, sel, sel2, in
<1>9. VolumeOf(nodes2, sel2) = VolumeOf(nodes, sel)
           + (IF in THEN HeldBy(nodes2, id) - HeldBy(nodes, id) ELSE 0)
  BY <1>1, <1>2, <1>3, <1>4, <1>5, <1>8, SelectedVolumeChanges
<1>10. VolumeOf(nodes2, sel2) = VolumeOf(nodes, sel) + (IF in THEN d ELSE 0)
  BY <1>6, <1>9
<1> QED BY <1>7, <1>10 DEF in, sel, sel2, nodes2

-----------------------------------------------------------------------------

\* An int that has wrapped around can be added to: the result is what the sum
\* of the exact numbers would wrap to.
LEMMA WrappedOfSum ==
  ASSUME NEW a \in Int, NEW b \in Int
  PROVE  Wrapped(Wrapped(a) + b) = Wrapped(a + b)
<1> DEFINE m == 2 * IntMax + 2
           x == a + IntMax + 1
<1>1. m \in Nat \ {0} /\ x \in Int /\ IntMax \in Int
  OBVIOUS
<1>2. ((x % m) + b) % m = (x + b) % m
  <2> HIDE DEF x, m
  <2> QED BY <1>1, ModOfSum
<1>3. x % m \in Int
  <2> HIDE DEF x, m
  <2> QED BY <1>1, DivMod
<1>4. Wrapped(a) + b + IntMax + 1 = (x % m) + b
  <2>1. Wrapped(a) = (x % m) - IntMax - 1
    BY DEF Wrapped
  <2> HIDE DEF x, m
  <2> QED BY <1>1, <1>3, <2>1
<1>5. a + b + IntMax + 1 = x + b
  OBVIOUS
<1> HIDE DEF x
<1> QED BY <1>2, <1>4, <1>5 DEF Wrapped

\* A number that an int holds wraps to itself.
LEMMA WrappedWithinInt ==
  ASSUME NEW n \in Nat, n <= IntMax
  PROVE  Wrapped(n) = n
<1> DEFINE m == 2 * IntMax + 2
           x == n + IntMax + 1
<1>1. m \in Nat \ {0} /\ x \in 0..(m - 1) /\ x \in Int
  OBVIOUS
<1>2. x % m = x
  <2> HIDE DEF x, m
  <2>1. x = m * 0 + x
    BY <1>1
  <2> QED BY <1>1, <2>1, ModUnique
<1>3. Wrapped(n) = x - IntMax - 1
  BY <1>2 DEF Wrapped
<1> QED BY <1>3

\* AddVolume keeps the account of a unit right when the order changes by as much.
LEMMA AccountingAfterChange ==
  ASSUME IInv, IInv', VolumeAccounting, NEW id, NEW user, NEW side \in Side,
         NEW price \in Price, NEW d \in Int,
         OrderChanges(id, user, side, price, d), AddVolume(side, price, d)
  PROVE  VolumeAccounting'
<1>1. volume_at_price \in [Side -> [Unit -> Int]] /\ Units(price) \in Unit
  BY TypeParts DEF IInv, RestOK, Unit
<1>2. /\ DOMAIN volume_at_price' = Side
      /\ \A s \in Side : DOMAIN volume_at_price'[s] = Unit
      /\ \A s \in Side, u \in Unit :
           volume_at_price'[s][u] = IF s = side /\ u = Units(price)
                                    THEN Wrapped(volume_at_price[s][u] + d)
                                    ELSE volume_at_price[s][u]
  BY <1>1 DEF AddVolume
<1>3. ASSUME NEW s \in Side, NEW u \in Unit
      PROVE  volume_at_price'[s][u] = Wrapped(VolumeInUnit(s, u)')
  <2>1. /\ VolumeInUnit(s, u) \in Int
        /\ VolumeInUnit(s, u)' =
             VolumeInUnit(s, u) + (IF s = side /\ u = Units(price) THEN d ELSE 0)
    BY UnitVolumeChanges
  <2>2. volume_at_price[s][u] = Wrapped(VolumeInUnit(s, u))
    BY <1>1 DEF VolumeAccounting
  <2>3. CASE s = side /\ u = Units(price)
    BY <1>2, <2>1, <2>2, <2>3, WrappedOfSum
  <2>4. CASE ~(s = side /\ u = Units(price))
    <3>1. VolumeInUnit(s, u)' = VolumeInUnit(s, u)
      BY <2>1, <2>4
    <3> QED BY <1>2, <2>2, <2>4, <3>1
  <2> QED BY <2>3, <2>4
<1> QED BY <1>2, <1>3 DEF VolumeAccounting

\* Nothing to account for happens.
LEMMA AccountingSame ==
  ASSUME VolumeAccounting, UNCHANGED <<order_node_map, volume_at_price>>
  PROVE  VolumeAccounting'
BY DEF VolumeAccounting, VolumeInUnit

\* What a fill does to the books: the order it takes from loses the volume of
\* the trade, and so does the order being matched.
FillEffects(id, order, side, price, filled, trade) ==
  /\ order = order_node_map[id] /\ side = Opposite(call.side)
  /\ side \in Side /\ price \in Price /\ call.side \in Side /\ side # call.side
  /\ order.user_id \in User /\ call.user \in User /\ call.phase = "matching"
  /\ filled \in Nat /\ call.volume \in Nat
  /\ OrderChanges(id, order.user_id, side, price, -filled)
  /\ AddVolume(side, price, -filled)
  /\ trade = GenerateTrade(id_counter + 1, side, call.user, order.user_id, price, filled)
  /\ trade \in Trade
  /\ filled_trades' = Append(filled_trades, trade)
  /\ call' = [call EXCEPT !.volume = @ - filled, !.trades = Append(@, trade)]
  /\ committed' = committed

\* It does, in each branch of the loop's turn.
LEMMA FillHasEffects ==
  ASSUME IInv, NEW price, Fill(price)
  PROVE  \E id, order, side, filled, trade : FillEffects(id, order, side, price, filled, trade)
<1>1. PICK side, id, order, filled, traded :
        /\ side = Opposite(call.side)
        /\ id = Head(order_queues[Opposite(call.side)][price])
        /\ order = order_node_map[id]
        /\ filled = VolFilled(order)
        /\ traded = GenerateTrade(id_counter + 1, side, call.user, order.user_id, price, filled)
  OBVIOUS
<1>2. /\ LoopLevel(price) /\ Matches(price)
      /\ order_node_map' = IF order.volume = filled
                           THEN Restrict(order_node_map, DOMAIN order_node_map \ {id})
                           ELSE [order_node_map EXCEPT ![id].volume = @ - filled]
      /\ AddVolume(side, price, -filled)
      /\ filled_trades' = Append(filled_trades, traded)
      /\ call' = [call EXCEPT !.volume = @ - filled, !.trades = Append(@, traded)]
      /\ committed' = committed
  BY <1>1 DEF Fill
<1>3. /\ id \in DOMAIN order_node_map
      /\ order \in OrderNode
      /\ order.user_id \in User /\ order.volume \in Nat \ {0}
      /\ order.order_type = side /\ order.price = price
      /\ call.user \in User /\ call.volume \in Nat \ {0} /\ price \in Price
      /\ filled \in Nat \ {0} /\ filled <= order.volume
  BY <1>1, <1>2, FillFacts
<1>4. side \in Side /\ call.side \in Side /\ side # call.side /\ id_counter \in Nat
  BY <1>1, TypeParts, SideFacts DEF IInv, RestOK, CallType
<1>5. traded \in Trade
  BY <1>1, <1>3, <1>4, TradeType
<1>6. OrderChanges(id, order.user_id, side, price, -filled)
  <2>1. IsOf(order_node_map[id], order.user_id, side, price)
    BY <1>1, <1>3 DEF IsOf
  <2>2. CASE order.volume = filled
    <3>1. /\ DOMAIN order_node_map' = DOMAIN order_node_map \ {id}
          /\ \A i \in DOMAIN order_node_map \ {id} : order_node_map'[i] = order_node_map[i]
      BY <1>2, <2>2 DEF Restrict
    <3>2. HeldBy(order_node_map', id) = HeldBy(order_node_map, id) + -filled
      BY <1>1, <1>3, <2>2, <3>1 DEF HeldBy
    <3> QED BY <2>1, <3>1, <3>2 DEF OrderChanges
  <2>3. CASE order.volume # filled
    <3>1. /\ DOMAIN order_node_map' = DOMAIN order_node_map
          /\ \A i \in DOMAIN order_node_map :
               i # id => order_node_map'[i] = order_node_map[i]
          /\ order_node_map'[id] = [order EXCEPT !.volume = @ - filled]
      BY <1>1, <1>2, <1>3, <2>3
    <3>2. /\ IsOf(order_node_map'[id], order.user_id, side, price)
          /\ order_node_map'[id].volume = order.volume - filled
      BY <1>3, <3>1 DEF IsOf, OrderNode
    <3>3. HeldBy(order_node_map', id) = HeldBy(order_node_map, id) + -filled
      BY <1>1, <1>3, <3>1, <3>2 DEF HeldBy
    <3> QED BY <2>1, <3>1, <3>2, <3>3 DEF OrderChanges
  <2> QED BY <2>2, <2>3
<1>7. call.phase = "matching"
  BY <1>2 DEF LoopLevel
<1>8. FillEffects(id, order, side, price, filled, traded)
  BY <1>1, <1>2, <1>3, <1>4, <1>5, <1>6, <1>7 DEF FillEffects
<1> QED BY <1>8

\* The remainder is a new order with the volume that is left.
LEMMA RestRemainderEffects ==
  ASSUME IInv, RestRemainder
  PROVE  /\ call.side \in Side /\ call.price \in Price /\ call.user \in User
         /\ call.volume \in Nat
         /\ OrderChanges(id_counter + 1, call.user, call.side, call.price, call.volume)
         /\ AddVolume(call.side, call.price, call.volume)
<1>1. PICK id, order :
        /\ id = id_counter + 1
        /\ order = [user_id |-> call.user, volume |-> call.volume,
                    price |-> call.price, order_type |-> call.side]
  OBVIOUS
<1>2. /\ call.phase = "matching"
      /\ AddOrderToBook(id, order)
      /\ AddVolume(call.side, call.price, call.volume)
  BY <1>1 DEF RestRemainder, LoopEnds
<1>3. /\ call.side \in Side /\ call.price \in Price /\ call.user \in User
      /\ call.volume \in Nat /\ id_counter \in Nat /\ DOMAIN order_node_map \subseteq 1..id_counter
  BY <1>2, TypeParts DEF IInv, RestOK, NodesOK, CallType, CallInProgress
<1>4. id \notin DOMAIN order_node_map
  BY <1>1, <1>3
<1>5. /\ DOMAIN order_node_map' = DOMAIN order_node_map \cup {id}
      /\ order_node_map'[id] = order
      /\ \A i \in DOMAIN order_node_map : order_node_map'[i] = order_node_map[i]
  BY <1>2, <1>4 DEF AddOrderToBook
<1>6. IsOf(order_node_map'[id], call.user, call.side, call.price)
      /\ order_node_map'[id].volume = call.volume
  BY <1>1, <1>5 DEF IsOf
<1>7. HeldBy(order_node_map', id) = HeldBy(order_node_map, id) + call.volume
  BY <1>3, <1>4, <1>5, <1>6 DEF HeldBy
<1>8. OrderChanges(id, call.user, call.side, call.price, call.volume)
  BY <1>4, <1>5, <1>6, <1>7 DEF OrderChanges
<1> QED BY <1>1, <1>2, <1>3, <1>8

\* A cancellation takes the order's whole volume.
LEMMA CancelOrderEffects ==
  ASSUME IInv, NEW id, CancelOrder(id)
  PROVE  LET order == order_node_map[id]
         IN  /\ order.user_id \in User /\ order.order_type \in Side /\ order.price \in Price
             /\ order.volume \in Nat
             /\ OrderChanges(id, order.user_id, order.order_type, order.price, -order.volume)
             /\ AddVolume(order.order_type, order.price, -order.volume)
             /\ committed' = [committed EXCEPT ![order.user_id][order.order_type] =
                                                 @ - order.volume]
<1>1. PICK order : order = order_node_map[id]
  OBVIOUS
<1>2. /\ id \in DOMAIN order_node_map
      /\ AddVolume(order.order_type, order.price, -order.volume)
      /\ order_node_map' = Restrict(order_node_map, DOMAIN order_node_map \ {id})
      /\ committed' = [committed EXCEPT ![order.user_id][order.order_type] = @ - order.volume]
  BY <1>1 DEF CancelOrder
<1>3. /\ order.user_id \in User /\ order.order_type \in Side /\ order.price \in Price
      /\ order.volume \in Nat
  BY <1>1, <1>2, NodeFacts
<1>4. /\ DOMAIN order_node_map' = DOMAIN order_node_map \ {id}
      /\ \A i \in DOMAIN order_node_map \ {id} : order_node_map'[i] = order_node_map[i]
  BY <1>2 DEF Restrict
<1>5. HeldBy(order_node_map', id) = HeldBy(order_node_map, id) + -order.volume
  BY <1>1, <1>2, <1>3, <1>4 DEF HeldBy
<1>6. OrderChanges(id, order.user_id, order.order_type, order.price, -order.volume)
  BY <1>1, <1>4, <1>5 DEF OrderChanges, IsOf
<1> QED BY <1>1, <1>2, <1>3, <1>6

-----------------------------------------------------------------------------
(* The volume kept for a unit.                                             *)

\* No orders have no volume.
LEMMA VolumeOfNone ==
  ASSUME NEW records
  PROVE  VolumeOf(records, {}) = 0
<1> DEFINE f == [x \in {} |-> records[x].volume]
<1>1. SumFunctionOnSet(f, {}) = 0
  BY SumEmpty
<1> QED BY <1>1 DEF VolumeOf, SumFunction

\* An empty book is accounted for.
LEMMA InitAccounting == Init => VolumeAccounting
<1> SUFFICES ASSUME Init PROVE VolumeAccounting
  OBVIOUS
<1>1. ASSUME NEW side \in Side, NEW unit \in Unit
      PROVE  volume_at_price[side][unit] = Wrapped(VolumeInUnit(side, unit))
  <2>1. OrdersInUnit(order_node_map, side, unit) = {}
    BY DEF Init, OrdersInUnit
  <2>2. VolumeInUnit(side, unit) = 0
    BY <2>1, VolumeOfNone DEF VolumeInUnit
  <2>3. volume_at_price[side][unit] = 0
    BY DEF Init, Unit
  <2> QED BY <2>2, <2>3, WrappedWithinInt
<1> QED BY <1>1 DEF VolumeAccounting, Init, Unit

\* One step per call, by what it does to the orders.
LEMMA NextAccounting == IInv /\ VolumeAccounting /\ [Next]_vars => VolumeAccounting'
<1> SUFFICES ASSUME IInv, VolumeAccounting, [Next]_vars PROVE VolumeAccounting'
  OBVIOUS
<1>1. IInv'
  BY NextIInv
<1>2. ASSUME NEW user \in User, NEW side \in Side, NEW price \in Price, NEW volume \in Volume,
             HandleOrder(user, side, price, volume)
      PROVE  VolumeAccounting'
  BY <1>2, AccountingSame DEF HandleOrder
<1>3. ASSUME NEW price \in Price, NEW volume \in Volume, RejectOrder(price, volume)
      PROVE  VolumeAccounting'
  BY <1>3, AccountingSame DEF RejectOrder, bookVars
<1>4. ASSUME NEW price, SkipEmptyLevel(price) \/ CancelWashTrade(price)
      PROVE  VolumeAccounting'
  BY <1>4, AccountingSame DEF SkipEmptyLevel, CancelWashTrade
<1>5. ASSUME NEW price, Fill(price)
      PROVE  VolumeAccounting'
  <2>1. PICK id, order, side, filled, trade : FillEffects(id, order, side, price, filled, trade)
    BY <1>5, FillHasEffects
  <2>2. /\ side \in Side /\ price \in Price /\ -filled \in Int
        /\ OrderChanges(id, order.user_id, side, price, -filled)
        /\ AddVolume(side, price, -filled)
    BY <2>1 DEF FillEffects
  <2> QED BY <1>1, <2>2, AccountingAfterChange
<1>6. CASE ReturnFilled
  BY <1>6, AccountingSame DEF ReturnFilled, bookVars
<1>7. CASE RestRemainder
  <2>1. /\ call.side \in Side /\ call.price \in Price /\ call.volume \in Int
        /\ OrderChanges(id_counter + 1, call.user, call.side, call.price, call.volume)
        /\ AddVolume(call.side, call.price, call.volume)
    BY <1>7, RestRemainderEffects
  <2> QED BY <1>1, <2>1, AccountingAfterChange
<1>8. ASSUME NEW id, CancelOrder(id)
      PROVE  VolumeAccounting'
  <2>1. PICK order : order = order_node_map[id]
    OBVIOUS
  <2>2. /\ order.order_type \in Side /\ order.price \in Price /\ order.volume \in Nat
        /\ OrderChanges(id, order.user_id, order.order_type, order.price, -order.volume)
        /\ AddVolume(order.order_type, order.price, -order.volume)
    BY <1>8, <2>1, CancelOrderEffects, Zenon
  <2>3. -order.volume \in Int
    BY <2>2
  <2> QED BY <1>1, <2>2, <2>3, AccountingAfterChange
<1>9. ASSUME NEW id, CancelUnknownOrder(id)
      PROVE  VolumeAccounting'
  BY <1>9, AccountingSame DEF CancelUnknownOrder, bookVars
<1>10. CASE GetTopOfBook \/ OtherBookGeneratesId \/ UNCHANGED vars
  BY <1>10, AccountingSame DEF GetTopOfBook, OtherBookGeneratesId, bookVars, vars
<1> QED BY <1>2, <1>3, <1>4, <1>5, <1>6, <1>7, <1>8, <1>9, <1>10 DEF Next, HandleOrderStep

\* The accounts on top of the inductive invariant.
LEMMA SpecAccounting == Spec => [](IInv /\ VolumeAccounting)
<1>1. Init => IInv /\ VolumeAccounting
  BY InitIInv, InitAccounting
<1>2. IInv /\ VolumeAccounting /\ [Next]_vars => (IInv /\ VolumeAccounting)'
  BY NextIInv, NextAccounting
<1> QED BY <1>1, <1>2, PTL DEF Spec

\* VolumeAccounting, for any users, prices, volumes and ids: the volume the book
\* keeps for a whole unit is the sum over the orders whose price falls on it, as
\* an int holds it, through fills, cancellations and wash trades.
THEOREM VolumesAddUp == Spec => []VolumeAccounting
BY SpecAccounting, PTL

-----------------------------------------------------------------------------
(* Levels leave the heaps.                                                 *)

\* A line with an order in it is volume in its unit.
LEMMA LineHasVolume ==
  ASSUME IInv, NEW side \in Side, NEW price \in DOMAIN order_queues[side],
         order_queues[side][price] # <<>>
  PROVE  VolumeInUnit(side, Units(price)) \in Nat \ {0}
<1>1. /\ order_queues[side][price] \in Seq(Nat) /\ Len(order_queues[side][price]) \in Nat \ {0}
  BY LineFacts, EmptySeq, LenProperties
<1>2. PICK id : id = order_queues[side][price][1]
  OBVIOUS
<1>3. id \in DOMAIN order_node_map /\ order_node_map[id].order_type = side
      /\ order_node_map[id].price = price
  BY <1>1, <1>2, LineFacts
<1> DEFINE ids == OrdersInUnit(order_node_map, side, Units(price))
           f == [x \in ids |-> order_node_map[x].volume]
<1>4. id \in ids
  BY <1>3 DEF OrdersInUnit
<1>5. IsFiniteSet(ids) /\ \A x \in ids : f[x] \in Nat \ {0}
  <2>1. ids \subseteq DOMAIN order_node_map
    BY DEF OrdersInUnit
  <2>2. IsFiniteSet(ids)
    BY <2>1, NodesFinite, FS_Subset
  <2> HIDE DEF ids
  <2> QED BY <2>1, <2>2, NodeFacts
<1>6. VolumeInUnit(side, Units(price)) = SumFunctionOnSet(f, ids)
  BY DEF VolumeInUnit, VolumeOf, SumFunction
<1> HIDE DEF ids, f
<1>7. SumFunctionOnSet(f, ids) \in Nat /\ f[id] <= SumFunctionOnSet(f, ids)
  BY <1>4, <1>5, SumOfNaturals
<1>8. f[id] \in Nat /\ f[id] > 0
  BY <1>4, <1>5
<1> QED BY <1>6, <1>7, <1>8

\* A level leaves a heap in the clean-up, in the loop, after a fill or in
\* GetTopOfBook; the last pops it for its volume, which VolumeAccounting makes
\* that of orders.
LEMMA EmptyLevelsStep ==
  ASSUME IInv, VolumeAccounting, [Next]_vars,
         NEW side \in Side, NEW price \in order_pq[side] \ order_pq'[side]
  PROVE  \/ order_queues'[side][price] = <<>>
         \/ VolumeInUnit(side, Units(price)) > IntMax
<1>1. /\ price \in DOMAIN order_queues[side] /\ price \in Price \ {0}
      /\ order_pq \in [Side -> SUBSET (Price \ {0})] /\ order_pq[side] \subseteq Nat
      /\ volume_at_price \in [Side -> [Unit -> Int]]
  BY TypeParts DEF IInv, RestOK, LevelsHoldLiveOrders
<1> DEFINE gone == \/ order_queues'[side][price] = <<>>
                   \/ VolumeInUnit(side, Units(price)) > IntMax
<1>2. \A keep : price \in keep => price \in PopUntil(side, keep)
  BY <1>1 DEF PopUntil, AtLeastAsGood
<1>3. ASSUME NEW user \in User, NEW s \in Side, NEW p \in Price, NEW volume \in Volume,
             HandleOrder(user, s, p, volume)
      PROVE  gone
  <2>1. order_pq'[side] = CleanedUp(side) /\ order_queues' = order_queues
    BY <1>3 DEF HandleOrder
  <2>2. ~HasOrders(side, price)
    BY <1>2, <2>1 DEF CleanedUp
  <2> QED BY <2>1, <2>2 DEF HasOrders
<1>4. ASSUME NEW p, SkipEmptyLevel(p)
      PROVE  gone
  <2>1. p = price /\ side = Opposite(call.side) /\ order_queues' = order_queues
    BY <1>1, <1>4 DEF SkipEmptyLevel
  <2>2. ~HasOrders(side, price)
    BY <1>4, <2>1 DEF SkipEmptyLevel
  <2> QED BY <2>1, <2>2 DEF HasOrders
<1>5. ASSUME NEW p, Fill(p)
      PROVE  gone
  <2>1. order_pq' = PopIfEmpty(Opposite(call.side), p, order_queues'[Opposite(call.side)][p])
    BY <1>5, Zenon DEF Fill
  <2> QED BY <1>1, <2>1 DEF PopIfEmpty
<1>6. CASE RestRemainder
  <2>1. order_pq[side] \subseteq order_pq'[side]
    BY <1>1, <1>6 DEF RestRemainder, AddOrderToBook
  <2> QED BY <2>1
<1>7. CASE GetTopOfBook
  <2>1. order_pq'[side] = PopUntil(side, Alive(side)) /\ order_queues' = order_queues
    BY <1>7 DEF GetTopOfBook
  <2>2. price \notin Alive(side)
    BY <1>2, <2>1
  <2>3. ~HasOrders(side, price) \/ volume_at_price[side][Units(price)] = 0
    BY <2>2 DEF Alive
  <2>4. ASSUME HasOrders(side, price), volume_at_price[side][Units(price)] = 0
        PROVE  VolumeInUnit(side, Units(price)) > IntMax
    <3>1. VolumeInUnit(side, Units(price)) \in Nat \ {0}
      BY <1>1, <2>4, LineHasVolume DEF HasOrders
    <3>2. Wrapped(VolumeInUnit(side, Units(price))) = 0
      BY <1>1, <2>4 DEF VolumeAccounting, Unit
    <3>3. ~(VolumeInUnit(side, Units(price)) <= IntMax)
      BY <3>1, <3>2, WrappedWithinInt
    <3> QED BY <3>1, <3>3
  <2> QED BY <2>1, <2>3, <2>4 DEF HasOrders
<1>8. ASSUME UNCHANGED order_pq
      PROVE  gone
  BY <1>8
<1>9. CASE UNCHANGED vars
  BY <1>8, <1>9 DEF vars
<1>10. CASE Next
  <2>1. ASSUME NEW p \in Price, NEW volume \in Volume, RejectOrder(p, volume)
        PROVE  gone
    BY <1>8, <2>1 DEF RejectOrder, bookVars
  <2>2. ASSUME NEW p, CancelWashTrade(p)
        PROVE  gone
    BY <1>8, <2>2 DEF CancelWashTrade
  <2>3. CASE ReturnFilled
    BY <1>8, <2>3 DEF ReturnFilled, bookVars
  <2>4. ASSUME NEW id, CancelOrder(id) \/ CancelUnknownOrder(id)
        PROVE  gone
    BY <1>8, <2>4 DEF CancelOrder, CancelUnknownOrder, bookVars
  <2>5. CASE OtherBookGeneratesId
    BY <1>8, <2>5 DEF OtherBookGeneratesId, bookVars
  <2>6. CASE HandleOrderStep
    BY <1>4, <1>5, <1>6, <2>2, <2>3, <2>6 DEF HandleOrderStep
  <2> QED BY <1>3, <1>7, <1>10, <2>1, <2>4, <2>5, <2>6 DEF Next
<1> QED BY <1>9, <1>10

\* OnlyEmptyLevelsLeaveTheHeap: no call takes a level with orders off the heap,
\* unless the unit's volume is more than an int holds.
THEOREM HeapsHideNoOrder == Spec => OnlyEmptyLevelsLeaveTheHeap
<1>1. IInv /\ VolumeAccounting /\ [Next]_vars =>
        [\A side \in Side : \A price \in order_pq[side] \ order_pq'[side] :
           \/ order_queues'[side][price] = <<>>
           \/ VolumeInUnit(side, Units(price)) > IntMax]_vars
  BY EmptyLevelsStep
<1> QED BY SpecAccounting, <1>1, PTL DEF Spec, OnlyEmptyLevelsLeaveTheHeap

-----------------------------------------------------------------------------
(* Trades, summed.                                                         *)

\* Trades of this book between users.
TradesOK(trades) ==
  /\ IsFiniteSet(DOMAIN trades) /\ NumbersOn(trades, DOMAIN trades)
  /\ DOMAIN trades = 1..Len(trades) /\ Len(trades) \in Nat

\* The type of the book says so.
LEMMA TradesAreOK ==
  ASSUME NEW trades \in Seq(Trade)
  PROVE  TradesOK(trades)
<1>1. DOMAIN trades = 1..Len(trades) /\ Len(trades) \in Nat
  BY LenProperties
<1>2. IsFiniteSet(DOMAIN trades)
  BY <1>1, FS_Interval
<1>3. \A i \in DOMAIN trades : trades[i] \in Trade
  BY <1>1, ElementOfSeq
<1>4. NumbersOn(trades, DOMAIN trades)
  BY <1>3 DEF NumbersOn, Trade
<1> QED BY <1>1, <1>2, <1>4 DEF TradesOK

\* A trade more is its volume more, for those on whose side of it it counts.
LEMMA TradeJoined ==
  ASSUME NEW trades \in Seq(Trade), NEW trade \in Trade,
         NEW sel, NEW sel2, NEW in \in BOOLEAN,
         sel \subseteq DOMAIN trades,
         sel2 = IF in THEN sel \cup {Len(trades) + 1} ELSE sel
  PROVE  /\ VolumeOf(trades, sel) \in Int
         /\ VolumeOf(Append(trades, trade), sel2) =
              VolumeOf(trades, sel) + (IF in THEN trade.volume ELSE 0)
<1> DEFINE more == Append(trades, trade)
           n == Len(trades) + 1
<1>1. /\ TradesOK(trades)
      /\ \A i \in 1..Len(trades) : more[i] = trades[i]
      /\ more[n] = trade
  BY TradesAreOK, AppendProperties
<1>2. IsFiniteSet(sel) /\ NumbersOn(trades, sel) /\ n \notin sel
  BY <1>1, FS_Subset DEF TradesOK, NumbersOn
<1>3. VolumeOf(trades, sel) \in Int
  BY <1>2, VolumeIsInt
<1>4. \A i \in sel : more[i].volume = trades[i].volume
  BY <1>1 DEF TradesOK
<1>5. trade.volume \in Int
  BY DEF Trade
<1> HIDE DEF more, n
<1>6. CASE in
  <2>1. VolumeOf(more, sel \cup {n}) = VolumeOf(trades, sel) + more[n].volume
    BY <1>1, <1>2, <1>4, <1>5, VolumeJoined
  <2> QED BY <1>1, <1>3, <1>6, <2>1 DEF more, n
<1>7. CASE ~in
  <2>1. VolumeOf(more, sel) = VolumeOf(trades, sel)
    BY <1>4, VolumeSame
  <2> QED BY <1>3, <1>7, <2>1 DEF more
<1> QED BY <1>6, <1>7

\* The user is on this side of the trade.
PartyTo(trade, user, side) ==
  IF side = "BID" THEN trade.bid_user_id = user ELSE trade.ask_user_id = user

\* A trade more counts for a side's user if it is his.
LEMMA TradesOfMore ==
  ASSUME NEW trades \in Seq(Trade), NEW trade \in Trade, NEW user, NEW side \in Side
  PROVE  /\ TradesOf(trades, user, side) \subseteq DOMAIN trades
         /\ TradesOf(Append(trades, trade), user, side) =
              IF PartyTo(trade, user, side)
              THEN TradesOf(trades, user, side) \cup {Len(trades) + 1}
              ELSE TradesOf(trades, user, side)
<1> DEFINE of == IF side = "BID" THEN "bid_user_id" ELSE "ask_user_id"
           more == Append(trades, trade)
           n == Len(trades) + 1
<1>1. /\ DOMAIN trades = 1..Len(trades) /\ Len(trades) \in Nat
      /\ DOMAIN more = 1..n
      /\ \A i \in 1..Len(trades) : more[i] = trades[i]
      /\ more[n] = trade
  BY LenProperties, AppendProperties
<1>2. \A ts : TradesOf(ts, user, side) = {i \in DOMAIN ts : ts[i][of] = user}
  BY DEF TradesOf
<1>3. PartyTo(trade, user, side) <=> trade[of] = user
  BY DEF PartyTo
<1>4. 1..n = (1..Len(trades)) \cup {n} /\ n \notin 1..Len(trades)
  BY <1>1
<1> HIDE DEF of, more, n
<1>5. TradesOf(more, user, side) =
        {i \in 1..Len(trades) : trades[i][of] = user} \cup (IF trade[of] = user THEN {n} ELSE {})
  BY <1>1, <1>2, <1>4
<1>6. TradesOf(trades, user, side) = {i \in 1..Len(trades) : trades[i][of] = user}
  BY <1>1, <1>2
<1> QED BY <1>1, <1>3, <1>5, <1>6 DEF more, n

\* What a user has traded on a side.
Traded(user, side) == VolumeOf(filled_trades, TradesOf(filled_trades, user, side))

\* What Hold does to a well-formed position.
Held(user, side) == VolumeOf(order_node_map, OrdersOf(order_node_map, user, side))

\* All of these are numbers.
LEMMA Numbers ==
  ASSUME IInv, NEW user \in User, NEW side \in Side
  PROVE  /\ Traded(user, side) \in Int
         /\ Held(user, side) \in Int
         /\ BeingMatched(user, side) \in Int
         /\ committed[user][side] \in Int
<1>1. filled_trades \in Seq(Trade) /\ committed \in [User -> [Side -> Int]] /\ call \in CallType
  BY TypeParts DEF IInv, RestOK
<1>2. Traded(user, side) \in Int
  <2>1. TradesOf(filled_trades, user, side) \subseteq DOMAIN filled_trades
    BY DEF TradesOf
  <2>2. TradesOK(filled_trades)
    BY <1>1, TradesAreOK
  <2>3. /\ IsFiniteSet(TradesOf(filled_trades, user, side))
        /\ NumbersOn(filled_trades, TradesOf(filled_trades, user, side))
    BY <2>1, <2>2, FS_Subset DEF TradesOK, NumbersOn
  <2> QED BY <2>3, VolumeIsInt DEF Traded
<1>3. Held(user, side) \in Int
  <2>1. OrdersOf(order_node_map, user, side) \subseteq DOMAIN order_node_map
    BY DEF OrdersOf
  <2>2. /\ IsFiniteSet(OrdersOf(order_node_map, user, side))
        /\ NumbersOn(order_node_map, OrdersOf(order_node_map, user, side))
    BY <2>1, NodesFinite, FS_Subset DEF NumbersOn
  <2> QED BY <2>2, VolumeIsInt DEF Held
<1>4. BeingMatched(user, side) \in Int
  BY <1>1 DEF BeingMatched, CallType
<1> QED BY <1>1, <1>2, <1>3, <1>4

\* The shares of one user on one side.
Balanced(user, side) ==
  committed[user][side] = Traded(user, side) + Held(user, side) + BeingMatched(user, side)

\* SharesConserved, one by one.
LEMMA SharesBalanced == SharesConserved <=> \A user \in User, side \in Side : Balanced(user, side)
BY DEF SharesConserved, Balanced, Traded, Held

\* Nobody has sent anything.
LEMMA InitShares == Init => SharesConserved
<1> SUFFICES ASSUME Init, NEW user \in User, NEW side \in Side
             PROVE  Balanced(user, side)
  BY SharesBalanced
<1>1. TradesOf(filled_trades, user, side) = {} /\ OrdersOf(order_node_map, user, side) = {}
  BY DEF Init, TradesOf, OrdersOf
<1>2. Traded(user, side) = 0 /\ Held(user, side) = 0
  BY <1>1, VolumeOfNone DEF Traded, Held
<1>3. BeingMatched(user, side) = 0 /\ committed[user][side] = 0
  BY DEF Init, BeingMatched, NoCall
<1> QED BY <1>2, <1>3 DEF Balanced

\* Nothing but the call changes, and it is not one being matched.
LEMMA SharesSame ==
  ASSUME SharesConserved, UNCHANGED <<order_node_map, filled_trades, committed>>,
         \A user \in User, side \in Side : BeingMatched(user, side)' = BeingMatched(user, side)
  PROVE  SharesConserved'
BY DEF SharesConserved

\* No order is in the loop of a call that is over.
LEMMA IdleMatchesNothing ==
  ASSUME Idle
  PROVE  \A user, side : BeingMatched(user, side) = 0
BY DEF Idle, BeingMatched

\* Nor in a call that never was.
LEMMA NoCallMatchesNothing ==
  ASSUME call' = NoCall
  PROVE  \A user, side : BeingMatched(user, side)' = 0
BY DEF NoCall, BeingMatched

\* What is sent is in the loop.
LEMMA HandleOrderShares ==
  ASSUME IInv, SharesConserved, NEW user \in User, NEW side \in Side, NEW price \in Price,
         NEW volume \in Volume, HandleOrder(user, side, price, volume)
  PROVE  SharesConserved'
<1> SUFFICES ASSUME NEW u \in User, NEW s \in Side PROVE Balanced(u, s)'
  BY SharesBalanced DEF SharesConserved, Balanced, Traded, Held
<1>1. Traded(u, s)' = Traded(u, s) /\ Held(u, s)' = Held(u, s)
  BY DEF HandleOrder, Traded, Held
<1>2. BeingMatched(u, s) = 0
  BY IdleMatchesNothing DEF HandleOrder
<1>3. BeingMatched(u, s)' = IF u = user /\ s = side THEN volume ELSE 0
  BY DEF HandleOrder, BeingMatched, NoCall
<1>4. committed'[u][s] = committed[u][s] + (IF u = user /\ s = side THEN volume ELSE 0)
  <2>1. committed' = [committed EXCEPT ![user][side] = @ + volume]
    BY DEF HandleOrder
  <2>2. committed \in [User -> [Side -> Int]]
    BY TypeParts DEF IInv, RestOK
  <2> QED BY <2>1, <2>2
<1>5. volume \in Int /\ Balanced(u, s)
  BY SharesBalanced
<1>6. /\ Traded(u, s) \in Int /\ Held(u, s) \in Int /\ committed[u][s] \in Int
  BY Numbers
<1> QED BY <1>1, <1>2, <1>3, <1>4, <1>5, <1>6 DEF Balanced

\* A fill moves volume from the loop, and from the order it takes from, into a
\* trade: the one counts for the buyer, the other for the seller.
LEMMA FillShares ==
  ASSUME IInv, IInv', SharesConserved, NEW price, Fill(price)
  PROVE  SharesConserved'
<1> SUFFICES ASSUME NEW u \in User, NEW s \in Side PROVE Balanced(u, s)'
  BY SharesBalanced DEF SharesConserved, Balanced, Traded, Held
<1>1. PICK id, order, side, filled, trade : FillEffects(id, order, side, price, filled, trade)
  BY FillHasEffects
<1>2. /\ side \in Side /\ call.side \in Side /\ side # call.side
      /\ filled \in Nat /\ -filled \in Int /\ call.volume \in Nat
      /\ OrderChanges(id, order.user_id, side, price, -filled)
      /\ trade \in Trade /\ filled_trades' = Append(filled_trades, trade)
      /\ call.phase = "matching"
      /\ call' = [call EXCEPT !.volume = @ - filled, !.trades = Append(@, trade)]
      /\ committed' = committed
  BY <1>1 DEF FillEffects
<1>3. trade.volume = filled /\ (PartyTo(trade, u, s) <=> IF s = side THEN u = order.user_id
                                                                     ELSE u = call.user)
  <2>1. /\ trade = GenerateTrade(id_counter + 1, side, call.user, order.user_id, price, filled)
        /\ side = Opposite(call.side)
    BY <1>1 DEF FillEffects
  <2>2. /\ trade.volume = filled
        /\ trade.bid_user_id = IF side = "ASK" THEN call.user ELSE order.user_id
        /\ trade.ask_user_id = IF side = "ASK" THEN order.user_id ELSE call.user
    BY <2>1 DEF GenerateTrade
  <2> QED BY <1>2, <2>2 DEF PartyTo, Side
<1>4. Traded(u, s)' = Traded(u, s) + (IF PartyTo(trade, u, s) THEN filled ELSE 0)
  <2>1. filled_trades \in Seq(Trade)
    BY TypeParts DEF IInv, RestOK
  <2> DEFINE sel == TradesOf(filled_trades, u, s)
             sel2 == TradesOf(Append(filled_trades, trade), u, s)
             in == PartyTo(trade, u, s)
  <2>2. in \in BOOLEAN
    BY DEF PartyTo
  <2>3. /\ sel \subseteq DOMAIN filled_trades
        /\ sel2 = IF in THEN sel \cup {Len(filled_trades) + 1} ELSE sel
    BY <1>2, <2>1, TradesOfMore
  <2>4. Traded(u, s)' = VolumeOf(Append(filled_trades, trade), sel2)
    BY <1>2 DEF Traded
  <2> HIDE DEF sel, sel2, in
  <2>5. VolumeOf(Append(filled_trades, trade), sel2) =
              VolumeOf(filled_trades, sel) + (IF in THEN trade.volume ELSE 0)
    BY <1>2, <2>1, <2>2, <2>3, TradeJoined
  <2> QED BY <1>3, <2>4, <2>5 DEF Traded, sel, in
<1>5. Held(u, s)' = Held(u, s) + (IF u = order.user_id /\ s = side THEN -filled ELSE 0)
  BY <1>2, HeldVolumeChanges DEF Held
<1>6. BeingMatched(u, s)' =
        BeingMatched(u, s) - (IF u = call.user /\ s = call.side THEN filled ELSE 0)
  <2>1. /\ call'.phase = "matching" /\ call'.user = call.user /\ call'.side = call.side
        /\ call'.volume = call.volume - filled
    BY <1>2, TypeParts DEF IInv, CallType
  <2> QED BY <1>2, <2>1 DEF BeingMatched
<1>7. /\ Traded(u, s) \in Int /\ Held(u, s) \in Int /\ committed[u][s] \in Int
      /\ BeingMatched(u, s) \in Int
  BY Numbers
<1>8. committed'[u][s] = Traded(u, s) + Held(u, s) + BeingMatched(u, s)
  BY <1>2, SharesBalanced DEF Balanced
<1>9. s = side \/ s = call.side
  BY <1>2 DEF Side
<1>10. Traded(u, s)' + Held(u, s)' + BeingMatched(u, s)'
         = Traded(u, s) + Held(u, s) + BeingMatched(u, s)
  <2>1. CASE s = side
    <3> DEFINE d == IF u = order.user_id THEN filled ELSE 0
    <3>1. d \in Int /\ Traded(u, s)' = Traded(u, s) + d
      BY <1>2, <1>3, <1>4, <2>1
    <3>2. Held(u, s)' = Held(u, s) - d
      BY <1>2, <1>5, <1>7, <2>1
    <3>3. BeingMatched(u, s)' = BeingMatched(u, s)
      BY <1>2, <1>6, <1>7, <2>1
    <3> HIDE DEF d
    <3> QED BY <1>7, <3>1, <3>2, <3>3
  <2>2. CASE s = call.side
    <3> DEFINE d == IF u = call.user THEN filled ELSE 0
    <3>1. d \in Int /\ Traded(u, s)' = Traded(u, s) + d
      BY <1>2, <1>3, <1>4, <2>2
    <3>2. Held(u, s)' = Held(u, s)
      BY <1>2, <1>5, <1>7, <2>2
    <3>3. BeingMatched(u, s)' = BeingMatched(u, s) - d
      BY <1>2, <1>6, <1>7, <2>2
    <3> HIDE DEF d
    <3> QED BY <1>7, <3>1, <3>2, <3>3
  <2> QED BY <1>9, <2>1, <2>2
<1> QED BY <1>8, <1>10 DEF Balanced

\* What is left moves from the loop into an order.
LEMMA RestRemainderShares ==
  ASSUME IInv, IInv', SharesConserved, RestRemainder
  PROVE  SharesConserved'
<1> SUFFICES ASSUME NEW u \in User, NEW s \in Side PROVE Balanced(u, s)'
  BY SharesBalanced DEF SharesConserved, Balanced, Traded, Held
<1>1. /\ call.volume \in Int
      /\ OrderChanges(id_counter + 1, call.user, call.side, call.price, call.volume)
  BY RestRemainderEffects
<1>2. Held(u, s)' = Held(u, s) + (IF u = call.user /\ s = call.side THEN call.volume ELSE 0)
  BY <1>1, HeldVolumeChanges DEF Held
<1>3. Traded(u, s)' = Traded(u, s) /\ committed' = committed
  BY DEF RestRemainder, Traded
<1>4. BeingMatched(u, s) = IF u = call.user /\ s = call.side THEN call.volume ELSE 0
  BY DEF RestRemainder, LoopEnds, BeingMatched
<1>5. BeingMatched(u, s)' = 0
  <2>1. call'.phase = "returned"
    BY TypeParts DEF RestRemainder, IInv, CallType
  <2> QED BY <2>1 DEF BeingMatched
<1>6. /\ Traded(u, s) \in Int /\ Held(u, s) \in Int /\ committed[u][s] \in Int
  BY Numbers
<1>7. committed[u][s] = Traded(u, s) + Held(u, s) + BeingMatched(u, s)
  BY SharesBalanced DEF Balanced
<1> QED BY <1>1, <1>2, <1>3, <1>4, <1>5, <1>6, <1>7 DEF Balanced

\* What is cancelled was in an order.
LEMMA CancelOrderShares ==
  ASSUME IInv, IInv', SharesConserved, NEW id, CancelOrder(id)
  PROVE  SharesConserved'
<1> SUFFICES ASSUME NEW u \in User, NEW s \in Side PROVE Balanced(u, s)'
  BY SharesBalanced DEF SharesConserved, Balanced, Traded, Held
<1>1. PICK order : order = order_node_map[id]
  OBVIOUS
<1>2. /\ order.user_id \in User /\ order.order_type \in Side /\ order.volume \in Nat
      /\ OrderChanges(id, order.user_id, order.order_type, order.price, -order.volume)
      /\ committed' = [committed EXCEPT ![order.user_id][order.order_type] = @ - order.volume]
  BY <1>1, CancelOrderEffects, Zenon
<1>3. -order.volume \in Int
  BY <1>2
<1> DEFINE his == u = order.user_id /\ s = order.order_type
<1>4. Held(u, s)' = Held(u, s) + (IF his THEN -order.volume ELSE 0)
  BY <1>2, <1>3, HeldVolumeChanges DEF Held
<1>5. committed'[u][s] = committed[u][s] - (IF his THEN order.volume ELSE 0)
  <2>1. committed \in [User -> [Side -> Int]]
    BY TypeParts DEF IInv, RestOK
  <2> QED BY <1>2, <2>1
<1>6. Traded(u, s)' = Traded(u, s)
  BY DEF CancelOrder, Traded
<1>7. BeingMatched(u, s) = 0 /\ BeingMatched(u, s)' = 0
  BY IdleMatchesNothing, NoCallMatchesNothing DEF CancelOrder
<1>8. /\ Traded(u, s) \in Int /\ Held(u, s) \in Int /\ committed[u][s] \in Int
  BY Numbers
<1>9. committed[u][s] = Traded(u, s) + Held(u, s) + BeingMatched(u, s)
  BY SharesBalanced DEF Balanced
<1> HIDE DEF his
<1> QED BY <1>2, <1>4, <1>5, <1>6, <1>7, <1>8, <1>9 DEF Balanced

\* One step per call.
LEMMA NextShares == IInv /\ SharesConserved /\ [Next]_vars => SharesConserved'
<1> SUFFICES ASSUME IInv, SharesConserved, [Next]_vars PROVE SharesConserved'
  OBVIOUS
<1>1. IInv'
  BY NextIInv
<1>2. ASSUME NEW user \in User, NEW side \in Side, NEW price \in Price, NEW volume \in Volume,
             HandleOrder(user, side, price, volume)
      PROVE  SharesConserved'
  BY <1>2, HandleOrderShares
<1>3. ASSUME NEW price \in Price, NEW volume \in Volume, RejectOrder(price, volume)
      PROVE  SharesConserved'
  BY <1>3, IdleMatchesNothing, NoCallMatchesNothing, SharesSame DEF RejectOrder, bookVars
<1>4. ASSUME NEW price, SkipEmptyLevel(price) \/ CancelWashTrade(price)
      PROVE  SharesConserved'
  BY <1>4, SharesSame DEF SkipEmptyLevel, CancelWashTrade, BeingMatched
<1>5. ASSUME NEW price, Fill(price)
      PROVE  SharesConserved'
  BY <1>1, <1>5, FillShares
<1>6. CASE ReturnFilled
  <2>1. call.volume = 0 /\ call'.phase = "returned"
    BY <1>6, TypeParts DEF ReturnFilled, IInv, CallType
  <2>2. \A user, side : BeingMatched(user, side)' = BeingMatched(user, side)
    BY <2>1 DEF BeingMatched
  <2> QED BY <1>6, <2>2, SharesSame DEF ReturnFilled, bookVars
<1>7. CASE RestRemainder
  BY <1>1, <1>7, RestRemainderShares
<1>8. ASSUME NEW id, CancelOrder(id)
      PROVE  SharesConserved'
  BY <1>1, <1>8, CancelOrderShares
<1>9. ASSUME NEW id, CancelUnknownOrder(id)
      PROVE  SharesConserved'
  BY <1>9, IdleMatchesNothing, NoCallMatchesNothing, SharesSame
  DEF CancelUnknownOrder, bookVars
<1>10. CASE GetTopOfBook
  BY <1>10, IdleMatchesNothing, NoCallMatchesNothing, SharesSame DEF GetTopOfBook
<1>11. CASE OtherBookGeneratesId \/ UNCHANGED vars
  BY <1>11, SharesSame DEF OtherBookGeneratesId, bookVars, vars, BeingMatched
<1> QED BY <1>2, <1>3, <1>4, <1>5, <1>6, <1>7, <1>8, <1>9, <1>10, <1>11
    DEF Next, HandleOrderStep

\* SharesConserved, for any users, prices, volumes and ids: every share that was
\* sent and not cancelled is in a trade, in an order or in the loop.
THEOREM NoShareIsLost == Spec => []SharesConserved
<1>1. Init => IInv /\ SharesConserved
  BY InitIInv, InitShares
<1>2. IInv /\ SharesConserved /\ [Next]_vars => (IInv /\ SharesConserved)'
  BY NextIInv, NextShares
<1> QED BY <1>1, <1>2, PTL DEF Spec

-----------------------------------------------------------------------------
(* What the submitter is told.                                             *)

\* Until HandleOrder returns: the trades so far and what is left are what he sent.
ResultInProgress ==
  call.phase = "matching" =>
    /\ call.order_id = NoOrderId
    /\ call.asked = VolumeOf(call.trades, DOMAIN call.trades) + call.volume

\* The result on its way and at the end.
ResultInv == ResultInProgress /\ OrderResultAccountsForTheOrder

\* Steps that leave the call and the orders alone.
LEMMA OnlyTheCallReturned ==
  ASSUME ResultInv, UNCHANGED <<order_node_map, call>>
  PROVE  ResultInv'
BY DEF ResultInv, ResultInProgress, OrderResultAccountsForTheOrder

\* A call that never was owes nothing.
LEMMA NoCallResult ==
  ASSUME call' = NoCall
  PROVE  ResultInv'
BY DEF ResultInv, ResultInProgress, OrderResultAccountsForTheOrder, NoCall

\* A result's trades have a volume.
LEMMA TradesVolume ==
  ASSUME IInv
  PROVE  /\ call.trades \in Seq(Trade) /\ call.volume \in Nat /\ call.asked \in Nat
         /\ VolumeOf(call.trades, DOMAIN call.trades) \in Int
<1>1. call.trades \in Seq(Trade) /\ call.volume \in Nat /\ call.asked \in Nat
  BY TypeParts DEF IInv, CallType
<1>2. TradesOK(call.trades)
  BY <1>1, TradesAreOK
<1>3. VolumeOf(call.trades, DOMAIN call.trades) \in Int
  BY <1>2, VolumeIsInt DEF TradesOK
<1> QED BY <1>1, <1>3

\* A fill moves volume from what is left to the trades of the result.
LEMMA FillResult ==
  ASSUME IInv, ResultInv, NEW price, Fill(price)
  PROVE  ResultInv'
<1>1. PICK id, order, side, filled, trade : FillEffects(id, order, side, price, filled, trade)
  BY FillHasEffects
<1>2. /\ filled \in Nat /\ call.volume \in Nat /\ trade \in Trade
      /\ call.phase = "matching"
      /\ call' = [call EXCEPT !.volume = @ - filled, !.trades = Append(@, trade)]
  BY <1>1 DEF FillEffects
<1>3. trade.volume = filled
  BY <1>1 DEF FillEffects, GenerateTrade
<1>4. /\ call'.phase = "matching" /\ call'.asked = call.asked
      /\ call'.order_id = call.order_id /\ call'.volume = call.volume - filled
      /\ call'.trades = Append(call.trades, trade)
  BY <1>2, TypeParts DEF IInv, CallType
<1> DEFINE sel == DOMAIN call.trades
           more == Append(call.trades, trade)
<1>5. call.trades \in Seq(Trade) /\ DOMAIN more = sel \cup {Len(call.trades) + 1}
  <2>1. call.trades \in Seq(Trade)
    BY TradesVolume
  <2>2. /\ sel = 1..Len(call.trades) /\ Len(call.trades) \in Nat
        /\ DOMAIN more = 1..(Len(call.trades) + 1)
    BY <1>2, <2>1, LenProperties, AppendProperties
  <2> QED BY <2>1, <2>2
<1> HIDE DEF sel, more
<1>6. VolumeOf(more, DOMAIN more) = VolumeOf(call.trades, sel) + trade.volume
  <2>1. PICK in \in BOOLEAN : in
    OBVIOUS
  <2>2. sel \subseteq DOMAIN call.trades
    BY DEF sel
  <2>3. DOMAIN more = IF in THEN sel \cup {Len(call.trades) + 1} ELSE sel
    BY <1>5, <2>1
  <2> DEFINE all == DOMAIN more
  <2> HIDE DEF all
  <2>4. all = IF in THEN sel \cup {Len(call.trades) + 1} ELSE sel
    BY <2>3 DEF all
  <2>5. VolumeOf(Append(call.trades, trade), all)
          = VolumeOf(call.trades, sel) + (IF in THEN trade.volume ELSE 0)
    BY <1>2, <1>5, <2>2, <2>4, TradeJoined
  <2> QED BY <2>1, <2>5 DEF all, more
<1>7. /\ call.order_id = NoOrderId
      /\ call.asked = VolumeOf(call.trades, sel) + call.volume
      /\ VolumeOf(call.trades, sel) \in Int
  BY <1>2, TradesVolume DEF ResultInv, ResultInProgress, sel
<1>8. call'.asked = VolumeOf(more, DOMAIN more) + call'.volume
  BY <1>2, <1>3, <1>4, <1>6, <1>7
<1>9. call'.trades = more
  BY <1>4 DEF more
<1>10. ResultInProgress'
  BY <1>4, <1>7, <1>8, <1>9 DEF ResultInProgress
<1>11. OrderResultAccountsForTheOrder'
  BY <1>4 DEF OrderResultAccountsForTheOrder
<1> QED BY <1>10, <1>11 DEF ResultInv

\* Filled: the trades are all he sent.
LEMMA ReturnFilledResult ==
  ASSUME IInv, ResultInv, ReturnFilled
  PROVE  ResultInv'
<1>1. /\ call.phase = "matching" /\ call.volume = 0
      /\ call' = [call EXCEPT !.phase = "returned"]
  BY DEF ReturnFilled, LoopEnds
<1>2. /\ call'.phase = "returned" /\ call'.trades = call.trades /\ call'.asked = call.asked
      /\ call'.order_id = call.order_id
  BY <1>1, TypeParts DEF IInv, CallType
<1>3. /\ call.order_id = NoOrderId
      /\ call.asked = VolumeOf(call.trades, DOMAIN call.trades) + 0
  BY <1>1 DEF ResultInv, ResultInProgress
<1> QED BY <1>2, <1>3 DEF ResultInv, ResultInProgress, OrderResultAccountsForTheOrder

\* Not filled: the order of the result's id has the rest.
LEMMA RestRemainderResult ==
  ASSUME IInv, ResultInv, RestRemainder
  PROVE  ResultInv'
<1>1. PICK id, order :
        /\ id = id_counter + 1
        /\ order = [user_id |-> call.user, volume |-> call.volume,
                    price |-> call.price, order_type |-> call.side]
  OBVIOUS
<1>2. /\ call.phase = "matching"
      /\ AddOrderToBook(id, order)
      /\ call' = [call EXCEPT !.phase = "returned", !.order_id = id]
  BY <1>1 DEF RestRemainder, LoopEnds
<1>3. /\ call'.phase = "returned" /\ call'.trades = call.trades /\ call'.asked = call.asked
      /\ call'.order_id = id
  BY <1>2, TypeParts DEF IInv, CallType
<1>4. id # NoOrderId
  BY <1>1, TypeParts DEF IInv, RestOK, NoOrderId
<1>5. order_node_map'[id].volume = call.volume
  BY <1>1, <1>2 DEF AddOrderToBook
<1>6. call.asked = VolumeOf(call.trades, DOMAIN call.trades) + call.volume
  BY <1>2 DEF ResultInv, ResultInProgress
<1> QED BY <1>3, <1>4, <1>5, <1>6 DEF ResultInv, ResultInProgress, OrderResultAccountsForTheOrder

\* A call begins with all of it left.
LEMMA HandleOrderResult ==
  ASSUME NEW user, NEW side, NEW price, NEW volume \in Volume,
         HandleOrder(user, side, price, volume)
  PROVE  ResultInv'
<1>1. call' = [NoCall EXCEPT !.phase = "matching", !.user = user, !.side = side,
                             !.price = price, !.asked = volume, !.volume = volume]
  BY DEF HandleOrder
<1>2. /\ call'.phase = "matching" /\ call'.order_id = NoOrderId
      /\ call'.asked = volume /\ call'.volume = volume /\ call'.trades = <<>>
  BY <1>1 DEF NoCall
<1>3. VolumeOf(call'.trades, DOMAIN call'.trades) = 0
  <2>1. DOMAIN call'.trades = {}
    BY <1>2
  <2> QED BY <2>1, VolumeOfNone
<1>4. volume \in Int
  OBVIOUS
<1> QED BY <1>2, <1>3, <1>4 DEF ResultInv, ResultInProgress, OrderResultAccountsForTheOrder

\* One step per call.
LEMMA NextResult == IInv /\ ResultInv /\ [Next]_vars => ResultInv'
<1> SUFFICES ASSUME IInv, ResultInv, [Next]_vars PROVE ResultInv'
  OBVIOUS
<1>1. ASSUME NEW user \in User, NEW side \in Side, NEW price \in Price, NEW volume \in Volume,
             HandleOrder(user, side, price, volume)
      PROVE  ResultInv'
  BY <1>1, HandleOrderResult
<1>2. ASSUME NEW price \in Price, NEW volume \in Volume, RejectOrder(price, volume)
      PROVE  ResultInv'
  BY <1>2, NoCallResult DEF RejectOrder
<1>3. ASSUME NEW price, SkipEmptyLevel(price) \/ CancelWashTrade(price)
      PROVE  ResultInv'
  BY <1>3, OnlyTheCallReturned DEF SkipEmptyLevel, CancelWashTrade
<1>4. ASSUME NEW price, Fill(price)
      PROVE  ResultInv'
  BY <1>4, FillResult
<1>5. CASE ReturnFilled
  BY <1>5, ReturnFilledResult
<1>6. CASE RestRemainder
  BY <1>6, RestRemainderResult
<1>7. ASSUME NEW id, CancelOrder(id) \/ CancelUnknownOrder(id)
      PROVE  ResultInv'
  BY <1>7, NoCallResult DEF CancelOrder, CancelUnknownOrder
<1>8. CASE GetTopOfBook
  BY <1>8, NoCallResult DEF GetTopOfBook
<1>9. CASE OtherBookGeneratesId \/ UNCHANGED vars
  BY <1>9, OnlyTheCallReturned DEF OtherBookGeneratesId, bookVars, vars
<1> QED BY <1>1, <1>2, <1>3, <1>4, <1>5, <1>6, <1>7, <1>8, <1>9 DEF Next, HandleOrderStep

\* OrderResultAccountsForTheOrder, for any users, prices, volumes and ids: the
\* trades a submitter is handed and the volume under the id he is handed are what
\* he sent.
THEOREM ResultAddsUp == Spec => []OrderResultAccountsForTheOrder
<1>1. Init => IInv /\ ResultInv
  <2>1. Init => ResultInv
    BY DEF Init, ResultInv, ResultInProgress, OrderResultAccountsForTheOrder, NoCall
  <2> QED BY <2>1, InitIInv
<1>2. IInv /\ ResultInv /\ [Next]_vars => (IInv /\ ResultInv)'
  BY NextIInv, NextResult
<1>3. ResultInv => OrderResultAccountsForTheOrder
  BY DEF ResultInv
<1> QED BY <1>1, <1>2, <1>3, PTL DEF Spec
=============================================================================
