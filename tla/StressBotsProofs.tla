-------------------------- MODULE StressBotsProofs --------------------------
(***************************************************************************)
(* Theorems about StressBots.tla, for any number of bots of each kind: what *)
(* they do to the book is what the book is proved to bear, so the book goes *)
(* on to implement the matching engine; a bot only ever cancels its own     *)
(* orders; and the order a round cancels first goes with the round, unless a *)
(* request of the round fails.                                              *)
(***************************************************************************)
EXTENDS StressBots, MatchingProofs

USE BookAssumption

\* A quote lies wherever the top of the book and the spread put it.
PositivePrices == Nat \ {0} \subseteq Price

-----------------------------------------------------------------------------
(* The inductive invariant.                                                *)

BotRecord == [at : {"top", "first", "first sent", "second", "second sent",
                    "cancel first", "cancel second"},
              bid : Nat, ask : Nat, volume : Volume \cup {0},
              first : Nat \cup {NoOrderId}, second : Nat \cup {NoOrderId}]

\* What a bot remembers at each line of its round.  An adversary's only order is
\* its second.
RecordOK(b, record, last_id) ==
  /\ record.first <= last_id /\ record.second <= last_id
  /\ record.at \in {"top", "first", "first sent"} => record.first = NoAnswer
  /\ record.at \notin {"cancel first", "cancel second"} => record.second = NoAnswer
  /\ record.at = "cancel second" => record.first = NoOrderId
  /\ record.at \in {"first sent", "second"} => record.volume \in Volume
  /\ b \in Adversary => /\ record.at \in {"top", "second sent", "cancel first", "cancel second"}
                        /\ record.at # "top" => record.first = NoOrderId

BotsRemember ==
  /\ bot \in [User -> BotRecord]
  /\ \A b \in User : RecordOK(b, bot[b], id_counter)
  /\ abandoned \subseteq 1..id_counter

\* An order that its owner will cancel first is the one he remembers, if no request
\* of its round failed.
OrdersRemembered ==
  \A id \in DOMAIN order_node_map \ abandoned :
    LET order == order_node_map[id]
    IN  /\ order.user_id \in Maker /\ order.order_type = "ASK" =>
             id = bot[order.user_id].first
        /\ order.user_id \in Adversary => id = bot[order.user_id].second

\* The order in the book's loop is that of a bot that waits for it.
BotWaits ==
  call.phase = "matching" =>
    /\ call.order_id = NoOrderId
    /\ bot[call.user].at \in {"first sent", "second sent"}
    /\ bot[call.user].at = "first sent" => call.side = "ASK"
    /\ bot[call.user].at = "second sent" /\ call.user \in Maker => call.side = "BID"

BotsIInv ==
  /\ IInv
  /\ BotsRemember
  /\ OrdersRemembered
  /\ BotsCancelTheirOwnOrders
  /\ BotWaits

-----------------------------------------------------------------------------
(* The book under the bots.                                                *)

\* Orders go, and none comes or changes hands.
Sheds ==
  /\ DOMAIN order_node_map' \subseteq DOMAIN order_node_map
  /\ \A id \in DOMAIN order_node_map' :
       /\ order_node_map'[id].user_id = order_node_map[id].user_id
       /\ order_node_map'[id].order_type = order_node_map[id].order_type
  /\ id_counter <= id_counter'

\* Orders that were abandoned stay so, and are orders that were placed.
Forgets == abandoned \subseteq abandoned' /\ abandoned' \subseteq 1..id_counter'

LEMMA CounterFacts == IInv => id_counter \in Nat /\ id_counter <= MaxId
BY TypeParts DEF IInv, RestOK

LEMMA SameOrdersShed ==
  ASSUME IInv, UNCHANGED order_node_map, id_counter' \in {id_counter, id_counter + 1}
  PROVE  Sheds
BY CounterFacts DEF Sheds

LEMMA FillSheds ==
  ASSUME IInv, NEW price, Fill(price)
  PROVE  Sheds
<1>1. PICK head, filled :
        /\ order_node_map' = IF order_node_map[head].volume = filled
                             THEN Restrict(order_node_map, DOMAIN order_node_map \ {head})
                             ELSE [order_node_map EXCEPT ![head].volume = @ - filled]
        /\ id_counter' = id_counter + 1
  BY DEF Fill
<1>2. \A id \in DOMAIN order_node_map : order_node_map[id] \in OrderNode
  BY NodeFacts
<1>3. id_counter \in Nat
  BY CounterFacts
<1>4. CASE order_node_map[head].volume = filled
  BY <1>1, <1>3, <1>4 DEF Sheds, Restrict
<1>5. CASE order_node_map[head].volume # filled
  BY <1>1, <1>2, <1>3, <1>5 DEF Sheds, OrderNode
<1> QED BY <1>4, <1>5

LEMMA CancelSheds ==
  ASSUME IInv, NEW id, CancelOrder(id)
  PROVE  Sheds /\ id \notin DOMAIN order_node_map'
<1>1. /\ DOMAIN order_node_map' = DOMAIN order_node_map \ {id}
      /\ \A i \in DOMAIN order_node_map \ {id} : order_node_map'[i] = order_node_map[i]
  BY CancelShrinksLines
<1>2. id_counter' = id_counter /\ id_counter \in Nat
  BY CounterFacts DEF CancelOrder
<1> QED BY <1>1, <1>2 DEF Sheds

\* Orders in the book have ids that were handed out.
LEMMA IdsInTheBook ==
  ASSUME IInv
  PROVE  0 \notin DOMAIN order_node_map /\ NoOrderId \notin DOMAIN order_node_map
BY NodeFacts DEF NoOrderId

-----------------------------------------------------------------------------
(* One bot takes a step and no order comes to rest.                        *)

LEMMA NoOrderIdIsInt == NoOrderId \in Int /\ NoOrderId < 0
BY DEF NoOrderId

LEMMA RememberedIds ==
  ASSUME NEW record \in BotRecord
  PROVE  record.first \in Int /\ record.second \in Int
<1>1. record.first \in Nat \cup {NoOrderId} /\ record.second \in Nat \cup {NoOrderId}
  BY DEF BotRecord
<1> QED BY <1>1, NoOrderIdIsInt

\* More ids take nothing from what a bot knows.
LEMMA RecordStaysOK ==
  ASSUME NEW b, NEW record \in BotRecord, NEW last_id \in Nat, NEW more \in Nat,
         last_id <= more, RecordOK(b, record, last_id)
  PROVE  RecordOK(b, record, more)
<1>1. record.first \in Int /\ record.second \in Int
  BY RememberedIds
<1>2. record.first <= last_id /\ record.second <= last_id
  BY DEF RecordOK
<1>3. record.first <= more /\ record.second <= more
  BY <1>1, <1>2
<1> QED BY <1>3 DEF RecordOK

LEMMA BotMovesOn ==
  ASSUME BotsIInv, IInv', Sheds, Forgets, NEW b \in User, NEW record \in BotRecord,
         Update(b, record), RecordOK(b, record, id_counter'),
         record.first \in {NoAnswer, NoOrderId, bot[b].first},
         record.second \in {NoAnswer, NoOrderId, bot[b].second},
         b \in Maker /\ record.first # bot[b].first =>
           bot[b].first \notin DOMAIN order_node_map' \ abandoned',
         b \in Adversary /\ record.second # bot[b].second =>
           bot[b].second \notin DOMAIN order_node_map' \ abandoned',
         BotWaits'
  PROVE  BotsIInv'
<1>1. /\ bot \in [User -> BotRecord]
      /\ bot' \in [User -> BotRecord]
      /\ bot'[b] = record
      /\ \A other \in User \ {b} : bot'[other] = bot[other]
  BY DEF BotsIInv, BotsRemember, Update
<1>2. id_counter \in Nat /\ id_counter' \in Nat /\ id_counter <= id_counter'
  BY CounterFacts DEF BotsIInv, Sheds, IInv, RestOK, TypeOK
<1>3. BotsRemember'
  <2>1. ASSUME NEW other \in User \ {b}
        PROVE  RecordOK(other, bot[other], id_counter')
    <3>1. RecordOK(other, bot[other], id_counter) /\ bot[other] \in BotRecord
      BY <1>1 DEF BotsIInv, BotsRemember
    <3> QED BY <1>2, <3>1, RecordStaysOK
  <2> QED BY <1>1, <2>1 DEF BotsRemember, Forgets
<1>4. OrdersRemembered'
  <2>1. SUFFICES ASSUME NEW id \in DOMAIN order_node_map' \ abandoned',
                        NEW owner, owner = order_node_map'[id].user_id
                 PROVE  /\ owner \in Maker /\ order_node_map'[id].order_type = "ASK" =>
                             id = bot'[owner].first
                        /\ owner \in Adversary => id = bot'[owner].second
    BY DEF OrdersRemembered
  <2>2. /\ id \in DOMAIN order_node_map \ abandoned
        /\ owner = order_node_map[id].user_id
        /\ order_node_map'[id].order_type = order_node_map[id].order_type
    BY <2>1 DEF Sheds, Forgets
  <2>3. owner \in User
    BY <2>2, NodeFacts DEF BotsIInv
  <2>4. /\ owner \in Maker /\ order_node_map'[id].order_type = "ASK" => id = bot[owner].first
        /\ owner \in Adversary => id = bot[owner].second
    BY <2>2 DEF BotsIInv, OrdersRemembered
  <2> QED BY <1>1, <2>1, <2>3, <2>4
<1>5. BotsCancelTheirOwnOrders'
  <2>1. 0 \notin DOMAIN order_node_map /\ NoOrderId \notin DOMAIN order_node_map
    BY IdsInTheBook DEF BotsIInv
  <2>2. ASSUME NEW other \in User
        PROVE  /\ bot'[other].first \in DOMAIN order_node_map' =>
                    bot'[other].first = bot[other].first
               /\ bot'[other].second \in DOMAIN order_node_map' =>
                    bot'[other].second = bot[other].second
    BY <1>1, <2>1 DEF Sheds, NoAnswer
  <2> QED BY <2>2 DEF BotsIInv, BotsCancelTheirOwnOrders, Sheds
<1> QED BY <1>3, <1>4, <1>5 DEF BotsIInv

\* Who abandons nothing forgets nothing.
LEMMA NothingForgotten ==
  ASSUME BotsIInv, IInv', Sheds, UNCHANGED abandoned
  PROVE  Forgets
<1>1. id_counter \in Nat /\ id_counter' \in Nat /\ id_counter <= id_counter'
  BY CounterFacts DEF BotsIInv, Sheds, IInv, RestOK, TypeOK
<1> QED BY <1>1 DEF BotsIInv, BotsRemember, Forgets

\* A bot whose order is in the book's loop is not the one that takes a step.
LEMMA OthersWait ==
  ASSUME BotsIInv, NEW b \in User, bot[b].at \notin {"first sent", "second sent"},
         UNCHANGED call, NEW record, Update(b, record)
  PROVE  BotWaits'
<1>1. call.phase = "matching" => call.user # b
  BY DEF BotsIInv, BotWaits
<1>2. /\ bot \in [User -> BotRecord]
      /\ call.phase = "matching" => call.user \in User
  BY DEF BotsIInv, BotsRemember, IInv, CallInProgress
<1>3. call.phase = "matching" => bot'[call.user] = bot[call.user]
  BY <1>1, <1>2 DEF Update
<1> QED BY <1>3 DEF BotsIInv, BotWaits

LEMMA NobodyWaits ==
  ASSUME call' = NoCall
  PROVE  BotWaits'
BY DEF BotWaits, NoCall

-----------------------------------------------------------------------------
(* What the bots do to the book.                                           *)

\* Every price that place_order sends is one the book takes.
LEMMA PlaceInBook ==
  ASSUME PositivePrices, NEW b \in User, NEW side \in Side, NEW price \in Int,
         NEW volume \in Volume, NEW sent, NEW skipped,
         Place(b, side, price, volume, sent, skipped)
  PROVE  /\ [Next]_vars
         /\ \/ /\ HandleOrder(b, side, price, volume)
               /\ Update(b, [bot[b] EXCEPT !.at = sent, !.volume = volume])
               /\ UNCHANGED abandoned
            \/ /\ UNCHANGED <<vars, abandoned>>
               /\ Update(b, [bot[b] EXCEPT !.at = skipped, !.volume = volume])
            \/ UNCHANGED vars /\ Abandon(b, {})
<1>1. CASE /\ price > 0
           /\ HandleOrder(b, side, price, volume)
           /\ Update(b, [bot[b] EXCEPT !.at = sent, !.volume = volume])
           /\ UNCHANGED abandoned
  <2>1. price \in Price
    BY <1>1 DEF PositivePrices
  <2>2. Next
    BY <1>1, <2>1 DEF Next
  <2> QED BY <1>1, <2>2
<1>2. CASE /\ price <= 0
           /\ Update(b, [bot[b] EXCEPT !.at = skipped, !.volume = volume])
           /\ UNCHANGED <<vars, abandoned>>
  BY <1>2
<1>3. CASE UNCHANGED vars /\ Abandon(b, {})
  BY <1>3
<1> QED BY <1>1, <1>2, <1>3 DEF Place

\* What is read of the top of the book are whole units.
LEMMA TopIsWhole ==
  ASSUME NEW side \in Side, IInv
  PROVE  PriceOfBest(side) \in Nat
<1>1. \A t \in BestOfSide(side) : t.price \in Nat
  <2>1. Alive(side) \subseteq Price
    BY TypeParts DEF IInv, RestOK, Alive
  <2>2. SUFFICES ASSUME NEW t \in BestOfSide(side)
                 PROVE  t.price \in Nat
    OBVIOUS
  <2>3. PICK p \in Alive(side) :
          t = [price |-> Units(p), volume |-> volume_at_price[side][Units(p)]]
    BY DEF BestOfSide
  <2> QED BY <2>1, <2>3, UnitsNatural
<1> QED BY <1>1 DEF PriceOfBest

LEMMA CancellationsInBook ==
  ASSUME IInv, NEW id \in Nat \cup {NoOrderId}, id <= id_counter,
         CancelOrder(id) \/ (id > 0 /\ CancelUnknownOrder(id))
  PROVE  /\ [Next]_vars /\ Sheds
         /\ call' = NoCall
         /\ id \notin DOMAIN order_node_map'
<1>1. id_counter \in Nat /\ MaxId \in Nat /\ id_counter <= MaxId
  BY CounterFacts
<1>2. CASE CancelOrder(id)
  <2>1. id \in DOMAIN order_node_map /\ call' = NoCall
    BY <1>2 DEF CancelOrder
  <2>2. id \in 1..MaxId
    BY <1>1, <2>1, NodeFacts
  <2>3. Next
    BY <1>2, <2>2 DEF Next
  <2> QED BY <1>2, <2>1, <2>3, CancelSheds
<1>3. CASE id > 0 /\ CancelUnknownOrder(id)
  <2>1. id \in 1..MaxId
    BY <1>1, <1>3 DEF NoOrderId
  <2>2. Next
    BY <1>3, <2>1 DEF Next
  <2>3. Sheds
    BY <1>3, SameOrdersShed DEF CancelUnknownOrder, bookVars
  <2> QED BY <1>3, <2>2, <2>3 DEF CancelUnknownOrder, bookVars
<1> QED BY <1>2, <1>3

-----------------------------------------------------------------------------
(* The invariant holds at the start and across every step.                 *)

LEMMA BotFacts ==
  ASSUME BotsIInv, NEW b \in User
  PROVE  /\ IInv
         /\ bot[b] \in BotRecord
         /\ RecordOK(b, bot[b], id_counter)
         /\ bot[b].bid \in Nat /\ bot[b].ask \in Nat
         /\ bot[b].at = "second" => bot[b].volume \in Volume
         /\ bot[b].first \in Nat \cup {NoOrderId} /\ bot[b].second \in Nat \cup {NoOrderId}
<1>1. bot[b] \in BotRecord
  BY DEF BotsIInv, BotsRemember
<1>2. RecordOK(b, bot[b], id_counter)
  BY DEF BotsIInv, BotsRemember
<1> QED BY <1>1, <1>2 DEF BotsIInv, BotRecord, RecordOK

\* A bot that has nothing left of a round starts anew.
LEMMA StartOK ==
  ASSUME NEW b, NEW last_id \in Nat
  PROVE  Start \in BotRecord /\ RecordOK(b, Start, last_id)
<1>1. Start \in BotRecord
  BY DEF Start, BotRecord, NoAnswer
<1> QED BY <1>1 DEF Start, RecordOK, NoAnswer

LEMMA InitBotsIInv == BotsInit => BotsIInv
<1> SUFFICES ASSUME BotsInit PROVE BotsIInv
  OBVIOUS
<1>1. IInv /\ order_node_map = <<>> /\ call = NoCall /\ id_counter = 0
  BY InitIInv DEF BotsInit, Init
<1>2. bot = [b \in User |-> Start] /\ abandoned = {}
  BY DEF BotsInit
<1>3. BotsRemember
  BY <1>1, <1>2, StartOK DEF BotsRemember
<1>4. OrdersRemembered /\ BotsCancelTheirOwnOrders
  BY <1>1 DEF OrdersRemembered, BotsCancelTheirOwnOrders
<1>5. BotWaits
  BY <1>1 DEF BotWaits, NoCall
<1> QED BY <1>1, <1>3, <1>4, <1>5 DEF BotsIInv

LEMMA ReadTopIInv ==
  ASSUME BotsAssumption, BotsIInv, NEW b \in User, ReadTop(b)
  PROVE  BotsIInv' /\ [Next]_vars
<1>1. [Next]_vars
  BY DEF ReadTop, Next
<1>2. IInv' /\ Sheds /\ id_counter' = id_counter
  BY <1>1, NextIInv, SameOrdersShed DEF ReadTop, GetTopOfBook, vars, BotsIInv
<1>3. b \notin Adversary /\ bot[b].at = "top" /\ UNCHANGED abandoned
  BY BotsAssumption DEF ReadTop
<1>4. BotWaits'
  <2>1. CASE GetTopOfBook
    BY <2>1, NobodyWaits DEF GetTopOfBook
  <2>2. CASE UNCHANGED vars
    BY <1>3, <2>2, OthersWait DEF ReadTop, vars
  <2> QED BY <2>1, <2>2 DEF ReadTop
<1>5. PICK record :
        /\ Update(b, record)
        /\ \/ record = Start
           \/ \E bid \in Nat, ask \in Nat :
                record = [Start EXCEPT !.at = "first", !.bid = bid, !.ask = ask]
  <2>1. PriceOfBest("BID") \in Nat /\ PriceOfBest("ASK") \in Nat /\ BasePrice \in Nat
    BY TopIsWhole, SideFacts, BotsAssumption DEF BotsIInv, BotsAssumption
  <2> QED BY <2>1 DEF ReadTop
<1>6. /\ record \in BotRecord /\ record.at \in {"top", "first"}
      /\ record.first = NoAnswer /\ record.second = NoAnswer
  <2>1. CASE record = Start
    BY <2>1 DEF Start, BotRecord, NoAnswer
  <2>2. ASSUME NEW bid \in Nat, NEW ask \in Nat,
               record = [Start EXCEPT !.at = "first", !.bid = bid, !.ask = ask]
        PROVE  /\ record \in BotRecord /\ record.at = "first"
               /\ record.first = NoAnswer /\ record.second = NoAnswer
    BY <2>2 DEF Start, BotRecord, NoAnswer
  <2> QED BY <1>5, <2>1, <2>2 DEF Start
<1>7. /\ bot[b].first = NoAnswer /\ bot[b].second = NoAnswer
      /\ id_counter \in Nat /\ 0 <= id_counter
  <2>1. IInv /\ RecordOK(b, bot[b], id_counter)
    BY BotFacts
  <2>2. bot[b].first = NoAnswer /\ bot[b].second = NoAnswer
    BY <1>3, <2>1 DEF RecordOK
  <2> QED BY <2>1, <2>2, CounterFacts
<1>8. RecordOK(b, record, id_counter')
  <2>1. record.first <= id_counter' /\ record.second <= id_counter'
    BY <1>2, <1>6, <1>7 DEF NoAnswer
  <2> QED BY <1>3, <1>6, <2>1, Zenon DEF RecordOK
<1>9. Forgets
  BY <1>2, <1>3, NothingForgotten
<1>10. Update(b, record)
  BY <1>5
<1>11. record.first = bot[b].first /\ record.second = bot[b].second
  BY <1>6, <1>7
<1>12. BotsIInv'
  BY <1>2, <1>4, <1>6, <1>8, <1>9, <1>10, <1>11, BotMovesOn
<1> QED BY <1>1, <1>12

\* A bot goes back to the top of its loop: the order of its round that goes first
\* is gone, or abandoned.
LEMMA RoundOver ==
  ASSUME BotsIInv, IInv', Sheds, Forgets, NEW b \in User, Update(b, Start),
         b \in Maker => bot[b].first \notin DOMAIN order_node_map' \ abandoned',
         b \in Adversary => bot[b].second \notin DOMAIN order_node_map' \ abandoned',
         BotWaits'
  PROVE  BotsIInv'
<1>1. id_counter' \in Nat
  BY TypeParts DEF IInv, RestOK, TypeOK
<1>2. Start \in BotRecord /\ RecordOK(b, Start, id_counter')
  BY <1>1, StartOK
<1>3. Start.first = NoAnswer /\ Start.second = NoAnswer
  BY DEF Start
<1> QED BY <1>2, <1>3, BotMovesOn

\* What a bot leaves behind are orders that were placed.
LEMMA AbandonForgets ==
  ASSUME BotsIInv, NEW b \in User, NEW untold \in SUBSET (Nat \cup {NoOrderId}),
         id_counter' \in Nat, id_counter <= id_counter',
         \A id \in untold : id <= id_counter', Abandon(b, untold)
  PROVE  Forgets /\ Update(b, Start)
                 /\ {bot[b].first, bot[b].second} \cup untold
                      \subseteq abandoned' \cup {NoAnswer, NoOrderId}
<1>1. id_counter \in Nat /\ abandoned \subseteq 1..id_counter
  BY CounterFacts DEF BotsIInv, BotsRemember
<1>2. /\ bot[b].first \in Nat \cup {NoOrderId} /\ bot[b].second \in Nat \cup {NoOrderId}
      /\ bot[b].first \in Int /\ bot[b].second \in Int
      /\ RecordOK(b, bot[b], id_counter)
  BY BotFacts, RememberedIds
<1>3. bot[b].first <= id_counter' /\ bot[b].second <= id_counter'
  <2>1. bot[b].first <= id_counter /\ bot[b].second <= id_counter
    BY <1>2 DEF RecordOK
  <2> QED BY <1>1, <1>2, <2>1
<1>4. ({bot[b].first, bot[b].second} \cup untold) \ {NoAnswer, NoOrderId} \subseteq 1..id_counter'
  <2>1. ASSUME NEW id \in Nat \cup {NoOrderId}, id <= id_counter',
               id \notin {NoAnswer, NoOrderId}
        PROVE  id \in 1..id_counter'
    BY <2>1 DEF NoAnswer
  <2> QED BY <1>2, <1>3, <2>1
<1>5. abandoned \subseteq 1..id_counter'
  BY <1>1
<1> QED BY <1>4, <1>5 DEF Abandon, Forgets

\* A request fails and its round is over, whatever it did to the book but to bring
\* an order to rest.
LEMMA AbandonIInv ==
  ASSUME BotsIInv, IInv', Sheds, NEW b \in User,
         NEW untold \in SUBSET {NoOrderId}, Abandon(b, untold), BotWaits'
  PROVE  BotsIInv'
<1>1. id_counter \in Nat /\ id_counter' \in Nat /\ id_counter <= id_counter'
  BY CounterFacts DEF BotsIInv, Sheds, IInv, RestOK, TypeOK
<1>2. untold \in SUBSET (Nat \cup {NoOrderId}) /\ \A id \in untold : id <= id_counter'
  BY <1>1, NoOrderIdIsInt
<1>3. /\ Forgets /\ Update(b, Start)
      /\ {bot[b].first, bot[b].second} \subseteq abandoned' \cup {NoAnswer, NoOrderId}
  BY <1>1, <1>2, AbandonForgets
<1>4. NoAnswer \notin DOMAIN order_node_map' /\ NoOrderId \notin DOMAIN order_node_map'
  BY IdsInTheBook DEF BotsIInv, Sheds, NoAnswer
<1> QED BY <1>3, <1>4, RoundOver

\* An order is sent, or not, and the bot goes to the next line of its round; or the
\* request fails.
LEMMA PlaceIInv ==
  ASSUME PositivePrices, BotsIInv, NEW b \in User, NEW side \in Side,
         NEW price \in Int, NEW volume \in Volume, NEW sent, NEW skipped,
         Place(b, side, price, volume, sent, skipped),
         b \notin Adversary,
         \/ /\ bot[b].at = "first" /\ side = "ASK"
            /\ sent = "first sent" /\ skipped = "second"
         \/ /\ bot[b].at = "second" /\ side = "BID"
            /\ sent = "second sent" /\ skipped = "cancel first"
  PROVE  BotsIInv' /\ [Next]_vars
<1>1. [Next]_vars
  BY PlaceInBook
<1>2. IInv'
  BY <1>1, NextIInv DEF BotsIInv
<1>3. Sheds /\ id_counter' = id_counter
  BY PlaceInBook, SameOrdersShed DEF HandleOrder, vars, BotsIInv
<1>4. CASE UNCHANGED vars /\ Abandon(b, {})
  <2>1. BotWaits'
    BY <1>4, OthersWait DEF Abandon, vars
  <2> QED BY <1>1, <1>2, <1>3, <1>4, <2>1, AbandonIInv
<1>5. ASSUME NEW at \in {sent, skipped}, UNCHANGED abandoned,
             Update(b, [bot[b] EXCEPT !.at = at, !.volume = volume]),
             \/ at = sent /\ HandleOrder(b, side, price, volume)
             \/ UNCHANGED vars
      PROVE  BotsIInv'
  <2> DEFINE record == [bot[b] EXCEPT !.at = at, !.volume = volume]
  <2>1. /\ record \in BotRecord /\ record.volume = volume
        /\ record.at = at /\ record.first = bot[b].first /\ record.second = bot[b].second
    BY BotFacts DEF BotRecord
  <2>2. Update(b, record)
    BY <1>5
  <2> HIDE DEF record
  <2>3. RecordOK(b, record, id_counter')
    <3>1. RecordOK(b, bot[b], id_counter)
      BY BotFacts
    <3>2. /\ at \notin {"cancel first", "cancel second"} => record.second = NoAnswer
          /\ at = "first sent" => record.first = NoAnswer
      BY <1>5, <2>1, <3>1 DEF RecordOK
    <3>3. at \in {"first sent", "second", "second sent", "cancel first"}
      BY <1>5
    <3> QED BY <1>3, <2>1, <3>1, <3>2, <3>3 DEF RecordOK
  <2>4. BotWaits'
    <3>1. CASE at = sent /\ HandleOrder(b, side, price, volume)
      <4>1. call'.user = b /\ call'.side = side /\ call'.order_id = NoOrderId
        BY <3>1 DEF HandleOrder, NoCall
      <4>2. bot'[b].at = sent
        BY <2>1, <2>2, <3>1 DEF Update, BotsIInv, BotsRemember
      <4> QED BY <4>1, <4>2 DEF BotWaits
    <3>2. CASE UNCHANGED vars
      BY <2>2, <3>2, OthersWait DEF vars
    <3> QED BY <1>5, <3>1, <3>2
  <2>5. Forgets
    BY <1>2, <1>3, <1>5, NothingForgotten
  <2> QED BY <1>2, <1>3, <2>1, <2>2, <2>3, <2>4, <2>5, BotMovesOn
<1> QED BY <1>1, <1>4, <1>5, PlaceInBook

\* A cancellation fails, and has reached the book or not.
LEMMA CancelFails ==
  ASSUME BotsIInv, NEW b \in User, bot[b].at \notin {"first sent", "second sent"},
         NEW id \in Nat \cup {NoOrderId}, id <= id_counter,
         CancelOrder(id) \/ UNCHANGED vars, Abandon(b, {})
  PROVE  BotsIInv' /\ [Next]_vars
<1>1. /\ [Next]_vars
      /\ CancelOrder(id) => Sheds /\ call' = NoCall
  BY CancellationsInBook DEF BotsIInv
<1>2. IInv' /\ Sheds
  BY <1>1, NextIInv, SameOrdersShed DEF vars, BotsIInv
<1>3. BotWaits'
  <2>1. CASE CancelOrder(id)
    BY <1>1, <2>1, NobodyWaits
  <2>2. CASE UNCHANGED vars
    BY <2>2, OthersWait DEF Abandon, vars
  <2> QED BY <2>1, <2>2
<1> QED BY <1>1, <1>2, <1>3, AbandonIInv

LEMMA CancelFirstIInv ==
  ASSUME BotsIInv, NEW b \in User, CancelFirst(b)
  PROVE  BotsIInv' /\ [Next]_vars
<1>1. /\ IInv /\ bot[b] \in BotRecord /\ RecordOK(b, bot[b], id_counter)
      /\ bot[b].first \in Nat \cup {NoOrderId}
  BY BotFacts
<1>2. b \notin Hft /\ bot[b].at = "cancel first"
  BY DEF CancelFirst
<1>3. /\ b \in Adversary => bot[b].first = NoOrderId
      /\ bot[b].first <= id_counter
      /\ 0 \notin DOMAIN order_node_map /\ NoOrderId \notin DOMAIN order_node_map
  BY <1>1, <1>2, IdsInTheBook DEF RecordOK
<1> DEFINE record == [bot[b] EXCEPT !.at = "cancel second", !.first = NoOrderId]
<1>4. /\ record \in BotRecord
      /\ record.at = "cancel second" /\ record.first = NoOrderId
      /\ record.second = bot[b].second
  BY <1>1 DEF BotRecord
<1>5. ASSUME NEW last_id \in Nat, id_counter <= last_id
      PROVE  RecordOK(b, record, last_id)
  <2> HIDE DEF record
  <2>1. bot[b].second \in Int /\ bot[b].second <= id_counter /\ id_counter \in Nat
    BY <1>1, RememberedIds, CounterFacts DEF RecordOK
  <2>2. NoOrderId <= last_id /\ bot[b].second <= last_id
    BY <1>5, <2>1, NoOrderIdIsInt
  <2> QED BY <1>4, <2>2 DEF RecordOK
<1>6. id_counter \in Nat
  BY <1>1, CounterFacts
<1>7. CASE /\ bot[b].first = NoAnswer
           /\ Update(b, Start)
           /\ UNCHANGED <<vars, abandoned>>
  <2>1. IInv' /\ Sheds /\ Forgets
    BY <1>1, <1>7, NextIInv, SameOrdersShed, NothingForgotten DEF vars
  <2>2. BotWaits'
    BY <1>2, <1>7, OthersWait DEF vars
  <2>3. b \notin Adversary /\ bot[b].first \notin DOMAIN order_node_map'
    BY <1>3, <1>7, NoOrderIdIsInt DEF NoAnswer, vars
  <2> QED BY <1>7, <2>1, <2>2, <2>3, RoundOver
<1>8. CASE /\ bot[b].first = NoOrderId
           /\ Update(b, [bot[b] EXCEPT !.at = "cancel second"])
           /\ UNCHANGED <<vars, abandoned>>
  <2>1. IInv' /\ Sheds /\ Forgets /\ id_counter' = id_counter
    BY <1>1, <1>8, NextIInv, SameOrdersShed, NothingForgotten DEF vars
  <2>2. BotWaits'
    BY <1>2, <1>8, OthersWait DEF vars
  <2>3. [bot[b] EXCEPT !.at = "cancel second"] = record
    BY <1>1, <1>8 DEF BotRecord
  <2>4. RecordOK(b, record, id_counter')
    BY <1>5, <1>6, <2>1
  <2> HIDE DEF record
  <2> QED BY <1>4, <1>8, <2>1, <2>2, <2>3, <2>4, BotMovesOn
<1>9. CASE /\ CancelOrder(bot[b].first)
           /\ Update(b, record)
           /\ UNCHANGED abandoned
  <2>1. /\ [Next]_vars /\ Sheds /\ call' = NoCall
        /\ bot[b].first \notin DOMAIN order_node_map'
    BY <1>1, <1>3, <1>9, CancellationsInBook
  <2>2. IInv' /\ BotWaits' /\ Forgets /\ id_counter' = id_counter
    BY <1>1, <1>9, <2>1, NextIInv, NobodyWaits, NothingForgotten DEF CancelOrder
  <2>3. RecordOK(b, record, id_counter')
    BY <1>5, <1>6, <2>2
  <2> HIDE DEF record
  <2> QED BY <1>4, <1>9, <2>1, <2>2, <2>3, BotMovesOn
<1>10. CASE /\ bot[b].first > 0
            /\ CancelUnknownOrder(bot[b].first)
            /\ Update(b, Start)
            /\ UNCHANGED abandoned
  <2>1. /\ [Next]_vars /\ Sheds /\ call' = NoCall
        /\ bot[b].first \notin DOMAIN order_node_map'
    BY <1>1, <1>3, <1>10, CancellationsInBook
  <2>2. IInv' /\ BotWaits' /\ Forgets /\ b \notin Adversary
    BY <1>1, <1>3, <1>10, <2>1, NextIInv, NobodyWaits, NothingForgotten, NoOrderIdIsInt
  <2> QED BY <1>10, <2>1, <2>2, RoundOver
<1>11. CASE (CancelOrder(bot[b].first) \/ UNCHANGED vars) /\ Abandon(b, {})
  BY <1>1, <1>2, <1>3, <1>11, CancelFails
<1> QED BY <1>7, <1>8, <1>9, <1>10, <1>11 DEF CancelFirst

LEMMA CancelSecondIInv ==
  ASSUME BotsIInv, NEW b \in User, CancelSecond(b)
  PROVE  BotsIInv' /\ [Next]_vars
<1>1. /\ IInv /\ RecordOK(b, bot[b], id_counter)
      /\ bot[b].second \in Nat \cup {NoOrderId}
  BY BotFacts
<1>2. bot[b].at = "cancel second"
  BY DEF CancelSecond
<1>3. /\ bot[b].first = NoOrderId /\ bot[b].second <= id_counter
      /\ NoAnswer \notin DOMAIN order_node_map /\ NoOrderId \notin DOMAIN order_node_map
  BY <1>1, <1>2, IdsInTheBook DEF RecordOK, NoAnswer
<1>4. CASE /\ bot[b].second \in {NoAnswer, NoOrderId} /\ UNCHANGED vars
           /\ Update(b, Start) /\ UNCHANGED abandoned
  <2>1. IInv' /\ Sheds /\ Forgets
    BY <1>1, <1>4, NextIInv, SameOrdersShed, NothingForgotten DEF vars
  <2>2. BotWaits'
    BY <1>2, <1>4, OthersWait DEF vars
  <2>3. /\ bot[b].first \notin DOMAIN order_node_map'
        /\ bot[b].second \notin DOMAIN order_node_map'
    BY <1>3, <1>4 DEF vars
  <2> QED BY <1>4, <2>1, <2>2, <2>3, RoundOver
<1>5. CASE /\ \/ CancelOrder(bot[b].second)
              \/ bot[b].second > 0 /\ CancelUnknownOrder(bot[b].second)
           /\ Update(b, Start) /\ UNCHANGED abandoned
  <2>1. /\ [Next]_vars /\ Sheds /\ call' = NoCall
        /\ bot[b].second \notin DOMAIN order_node_map'
    BY <1>1, <1>3, <1>5, CancellationsInBook
  <2>2. IInv' /\ BotWaits' /\ Forgets
    BY <1>1, <1>5, <2>1, NextIInv, NobodyWaits, NothingForgotten
  <2>3. bot[b].first \notin DOMAIN order_node_map'
    BY <1>3, <2>1 DEF Sheds
  <2> QED BY <1>5, <2>1, <2>2, <2>3, RoundOver
<1>6. CASE UNCHANGED vars /\ Abandon(b, {})
  BY <1>1, <1>2, <1>3, <1>6, CancelFails
<1> QED BY <1>4, <1>5, <1>6 DEF CancelSecond

LEMMA DisruptIInv ==
  ASSUME BotsAssumption, BotsIInv, NEW b \in User, Disrupt(b)
  PROVE  BotsIInv' /\ [Next]_vars
<1>1. PICK side \in Side, price \in AdversaryPrice, volume \in AdversaryVolume :
        HandleOrder(b, side, price, volume)
  BY DEF Disrupt
<1>2. /\ b \in Adversary /\ b \notin Maker /\ bot[b].at = "top"
      /\ price \in Price /\ volume \in Volume
  BY <1>1 DEF Disrupt, BotsAssumption
<1>3. [Next]_vars
  BY <1>1, <1>2 DEF Next
<1>4. IInv' /\ Sheds /\ id_counter' = id_counter
  BY <1>1, <1>3, NextIInv, SameOrdersShed DEF HandleOrder, BotsIInv
<1> DEFINE record == [Start EXCEPT !.at = "second sent", !.first = NoOrderId]
<1>5. /\ record \in BotRecord /\ record.at = "second sent"
      /\ record.first = NoOrderId /\ record.second = NoAnswer
  BY DEF Start, BotRecord, NoAnswer
<1>6. Update(b, record) /\ Forgets
  BY <1>4, NothingForgotten DEF Disrupt
<1> HIDE DEF record
<1>7. bot[b].second = NoAnswer /\ id_counter \in Nat
  <2>1. IInv /\ RecordOK(b, bot[b], id_counter)
    BY BotFacts
  <2>2. bot[b].second = NoAnswer
    BY <1>2, <2>1 DEF RecordOK
  <2> QED BY <2>1, <2>2, CounterFacts
<1>8. RecordOK(b, record, id_counter')
  <2>1. NoOrderId <= id_counter' /\ NoAnswer <= id_counter'
    BY <1>4, <1>7, NoOrderIdIsInt DEF NoAnswer
  <2> QED BY <1>5, <2>1 DEF RecordOK
<1>9. BotWaits'
  <2>1. call'.user = b /\ call'.order_id = NoOrderId
    BY <1>1 DEF HandleOrder, NoCall
  <2>2. bot'[b].at = "second sent"
    BY <1>5, <1>6 DEF Update, BotsIInv, BotsRemember
  <2> QED BY <1>2, <2>1, <2>2 DEF BotWaits
<1> QED BY <1>2, <1>3, <1>4, <1>5, <1>6, <1>7, <1>8, <1>9, BotMovesOn

LEMMA TicksOfUnits == \A units \in Nat : units * TicksPerUnit \in Int
OBVIOUS

LEMMA HitIInv ==
  ASSUME PositivePrices, BotsAssumption, BotsIInv, NEW b \in User, HitFirst(b) \/ HitSecond(b)
  PROVE  BotsIInv' /\ [Next]_vars
<1>1. bot[b].ask * TicksPerUnit \in Int /\ bot[b].bid * TicksPerUnit \in Int
  BY BotFacts, TicksOfUnits
<1>2. b \notin Adversary
  BY DEF HitFirst, HitSecond, BotsAssumption
<1>3. CASE HitFirst(b)
  <2>1. PICK volume \in HftVolume :
          Place(b, "ASK", bot[b].ask * TicksPerUnit, volume, "first sent", "second")
    BY <1>3 DEF HitFirst
  <2>2. volume \in Volume /\ bot[b].at = "first"
    BY <1>3 DEF HitFirst, BotsAssumption
  <2> QED BY <1>1, <1>2, <2>1, <2>2, SideFacts, PlaceIInv
<1>4. CASE HitSecond(b)
  BY <1>1, <1>2, <1>4, BotFacts, SideFacts, PlaceIInv DEF HitSecond
<1> QED BY <1>3, <1>4

LEMMA QuoteIInv ==
  ASSUME PositivePrices, BotsAssumption, BotsIInv, NEW b \in User,
         QuoteFirst(b) \/ QuoteSecond(b)
  PROVE  BotsIInv' /\ [Next]_vars
<1>1. (bot[b].bid + bot[b].ask) * TicksPerUnit \in Int
  <2>1. bot[b].bid + bot[b].ask \in Nat
    BY BotFacts
  <2> QED BY <2>1, TicksOfUnits
<1>2. Mid(b) \in Int
  BY <1>1 DEF Mid
<1>3. Mid(b) - Spread \in Int /\ Mid(b) + Spread \in Int
  <2>1. Spread \in Int
    BY DEF BotsAssumption
  <2> QED BY <1>2, <2>1
<1>4. b \notin Adversary /\ OrderSize \in Volume
  BY DEF QuoteFirst, QuoteSecond, BotsAssumption
<1> QED BY <1>3, <1>4, SideFacts, PlaceIInv DEF QuoteFirst, QuoteSecond

LEMMA RoundEndsIInv ==
  ASSUME BotsAssumption, BotsIInv, NEW b \in User, RoundEnds(b)
  PROVE  BotsIInv' /\ [Next]_vars
<1>1. /\ b \notin Maker /\ b \notin Adversary
      /\ bot[b].at \notin {"first sent", "second sent"}
      /\ Update(b, Start) /\ UNCHANGED <<vars, abandoned>>
  BY DEF RoundEnds, BotsAssumption
<1>2. IInv' /\ Sheds /\ Forgets
  BY <1>1, NextIInv, SameOrdersShed, NothingForgotten DEF vars, BotsIInv
<1>3. BotWaits'
  BY <1>1, OthersWait DEF vars
<1> QED BY <1>1, <1>2, <1>3, RoundOver

\* A step that no bot takes part in and that brings no order to rest.
LEMMA BotsLookOn ==
  ASSUME BotsIInv, IInv', Sheds, UNCHANGED <<bot, abandoned>>, BotWaits'
  PROVE  BotsIInv'
<1>1. id_counter \in Nat /\ id_counter' \in Nat /\ id_counter <= id_counter'
  BY CounterFacts DEF BotsIInv, Sheds, IInv, RestOK, TypeOK
<1>2. BotsRemember'
  BY <1>1, RecordStaysOK, NothingForgotten DEF BotsIInv, BotsRemember, Forgets
<1>3. OrdersRemembered'
  BY DEF BotsIInv, OrdersRemembered, Sheds
<1>4. BotsCancelTheirOwnOrders'
  BY DEF BotsIInv, BotsCancelTheirOwnOrders, Sheds
<1> QED BY <1>2, <1>3, <1>4 DEF BotsIInv

LEMMA PrintOrderBookIInv ==
  ASSUME BotsIInv, PrintOrderBook
  PROVE  BotsIInv' /\ [Next]_vars
<1>1. [Next]_vars
  BY DEF PrintOrderBook, Next
<1>2. IInv' /\ Sheds /\ BotWaits'
  BY <1>1, NextIInv, SameOrdersShed, NobodyWaits DEF PrintOrderBook, GetTopOfBook, BotsIInv
<1> QED BY <1>1, <1>2, BotsLookOn DEF PrintOrderBook

-----------------------------------------------------------------------------
(* The book goes on with a bot's order.                                    *)

LEMMA WaitingFacts ==
  ASSUME BotsIInv, call.phase = "matching", NEW b, b = call.user
  PROVE  /\ b \in User
         /\ bot[b].at \in {"first sent", "second sent"}
         /\ bot[b].at = "first sent" => call.side = "ASK" /\ b \notin Adversary
         /\ bot[b].at = "second sent" /\ b \in Maker => call.side = "BID"
         /\ bot[b].at = "first sent" => bot[b].first = NoAnswer
         /\ bot[b].second = NoAnswer
         /\ b \in Adversary => bot[b].first = NoOrderId
<1>1. /\ b \in User
      /\ bot[b].at \in {"first sent", "second sent"}
      /\ bot[b].at = "first sent" => call.side = "ASK"
      /\ bot[b].at = "second sent" /\ b \in Maker => call.side = "BID"
  BY DEF BotsIInv, BotWaits, IInv, CallInProgress
<1>2. RecordOK(b, bot[b], id_counter)
  BY <1>1 DEF BotsIInv, BotsRemember
<1> QED BY <1>1, <1>2 DEF RecordOK

\* What a bot is told it keeps under the right name.
LEMMA ToldFacts ==
  ASSUME BotsIInv, call.phase = "matching", NEW b, b = call.user,
         NEW id \in Nat \cup {NoOrderId}, NEW last_id \in Nat,
         id <= last_id, id_counter <= last_id
  PROVE  /\ Told(bot[b], id) \in BotRecord
         /\ RecordOK(b, Told(bot[b], id), last_id)
         /\ bot[b].at = "first sent" => /\ Told(bot[b], id).first = id
                                        /\ Told(bot[b], id).second = NoAnswer
         /\ bot[b].at # "first sent" => /\ Told(bot[b], id).first = bot[b].first
                                        /\ Told(bot[b], id).second = id
<1>1. /\ b \in User
      /\ bot[b].at \in {"first sent", "second sent"}
      /\ bot[b].at = "first sent" => b \notin Adversary
      /\ bot[b].second = NoAnswer
      /\ b \in Adversary => bot[b].first = NoOrderId
  BY WaitingFacts
<1>2. bot[b] \in BotRecord /\ RecordOK(b, bot[b], id_counter) /\ id_counter \in Nat
  BY <1>1, BotFacts, CounterFacts
<1>3. RecordOK(b, bot[b], last_id)
  BY <1>2, RecordStaysOK
<1>4. CASE bot[b].at = "first sent"
  <2> DEFINE record == [bot[b] EXCEPT !.at = "second", !.first = id]
  <2>1. Told(bot[b], id) = record
    BY <1>4 DEF Told
  <2>2. /\ record \in BotRecord
        /\ record.at = "second" /\ record.first = id /\ record.second = NoAnswer
        /\ record.volume = bot[b].volume
    BY <1>1, <1>2 DEF BotRecord
  <2> HIDE DEF record
  <2>3. RecordOK(b, record, last_id)
    BY <1>1, <1>3, <1>4, <2>2 DEF RecordOK
  <2> QED BY <1>4, <2>1, <2>2, <2>3
<1>5. CASE bot[b].at # "first sent"
  <2> DEFINE record == [bot[b] EXCEPT !.at = "cancel first", !.second = id]
  <2>1. Told(bot[b], id) = record
    BY <1>5 DEF Told
  <2>2. /\ record \in BotRecord
        /\ record.at = "cancel first" /\ record.first = bot[b].first /\ record.second = id
    BY <1>2 DEF BotRecord
  <2> HIDE DEF record
  <2>3. RecordOK(b, record, last_id)
    BY <1>1, <1>3, <1>5, <2>2 DEF RecordOK
  <2> QED BY <1>5, <2>1, <2>2, <2>3
<1> QED BY <1>4, <1>5

\* The rest of a bot's order comes to rest, and the bot is told under which id, or
\* it is not and abandons the order.
LEMMA RestIInv ==
  ASSUME BotsIInv, BookStep, RestRemainder
  PROVE  BotsIInv'
<1>1. [Next]_vars
  BY DEF BookStep, Next
<1>2. /\ IInv /\ IInv' /\ call \in CallType
      /\ bot \in [User -> BotRecord]
      /\ call.phase = "matching"
  BY <1>1, NextIInv, TypeParts DEF BotsIInv, BotsRemember, IInv, RestRemainder, LoopEnds
<1>3. PICK b, id : b = call.user /\ id = id_counter + 1
  OBVIOUS
<1>4. /\ id_counter \in Nat /\ id \in Nat /\ id_counter <= id /\ id # NoAnswer
      /\ id_counter' = id /\ b \in User
  <2>1. id_counter \in Nat /\ id_counter' = id /\ b \in User
    BY <1>2, <1>3, CounterFacts, WaitingFacts DEF RestRemainder
  <2> QED BY <1>3, <2>1 DEF NoAnswer
<1>5. call'.phase = "returned" /\ call'.order_id = id
  BY <1>2, <1>3 DEF RestRemainder, CallType
<1>6. PICK record :
        /\ Update(b, record)
        /\ \/ record = Told(bot[b], id) /\ UNCHANGED abandoned
           \/ record = Start /\ Abandon(b, {id})
  BY <1>3, <1>5 DEF BookStep, Abandon
<1>7. /\ bot'[b] = record
      /\ \A other \in User \ {b} : bot'[other] = bot[other]
      /\ bot' \in [User -> BotRecord]
      /\ RecordOK(b, record, id)
      /\ Forgets
      /\ record.first = NoAnswer \/ record.first = bot[b].first
           \/ (record.first = id /\ bot[b].at = "first sent")
      /\ record.second = NoAnswer \/ (record.second = id /\ bot[b].at # "first sent")
      /\ bot[b].at = "first sent" /\ id \notin abandoned' => record.first = id
      /\ bot[b].at # "first sent" /\ id \notin abandoned' => record.second = id
      /\ bot[b].at # "first sent" => \/ record.first = bot[b].first
                                     \/ bot[b].first \in abandoned' \cup {NoAnswer, NoOrderId}
  <2>1. record \in BotRecord => /\ bot'[b] = record
                                /\ \A other \in User \ {b} : bot'[other] = bot[other]
                                /\ bot' \in [User -> BotRecord]
    BY <1>2, <1>4, <1>6 DEF Update
  <2>2. CASE record = Told(bot[b], id) /\ UNCHANGED abandoned
    <3>1. id \in Nat \cup {NoOrderId} /\ id <= id
      BY <1>4
    <3>2. /\ record \in BotRecord
          /\ RecordOK(b, record, id)
          /\ bot[b].at = "first sent" => record.first = id /\ record.second = NoAnswer
          /\ bot[b].at # "first sent" => record.first = bot[b].first /\ record.second = id
      BY <1>2, <1>3, <1>4, <2>2, <3>1, ToldFacts
    <3>3. Forgets
      BY <1>4, <2>2 DEF BotsIInv, BotsRemember, Forgets
    <3> QED BY <2>1, <3>2, <3>3
  <2>3. CASE record = Start /\ Abandon(b, {id})
    <3>1. /\ record \in BotRecord /\ RecordOK(b, record, id)
          /\ record.first = NoAnswer /\ record.second = NoAnswer
      BY <1>4, <2>3, StartOK DEF Start
    <3>2. /\ {id} \in SUBSET (Nat \cup {NoOrderId})
          /\ \A one \in {id} : one <= id_counter'
      BY <1>4
    <3>3. /\ Forgets
          /\ bot[b].first \in abandoned' \cup {NoAnswer, NoOrderId}
          /\ id \in abandoned' \cup {NoAnswer, NoOrderId}
      BY <1>4, <2>3, <3>2, AbandonForgets
    <3>4. id # NoOrderId
      BY <1>4, NoOrderIdIsInt
    <3> QED BY <1>4, <2>1, <3>1, <3>3, <3>4
  <2> QED BY <1>6, <2>2, <2>3
<1>8. /\ id \notin DOMAIN order_node_map
      /\ DOMAIN order_node_map' = DOMAIN order_node_map \cup {id}
      /\ \A other \in DOMAIN order_node_map : order_node_map'[other] = order_node_map[other]
  BY <1>2, <1>3, RestAddsAnOrder
<1>9. order_node_map'[id].user_id = b /\ order_node_map'[id].order_type = call.side
  BY <1>3, <1>8 DEF RestRemainder, AddOrderToBook
<1>10. /\ bot[b].at \in {"first sent", "second sent"}
       /\ bot[b].at = "first sent" => call.side = "ASK" /\ b \notin Adversary
       /\ bot[b].at = "second sent" /\ b \in Maker => call.side = "BID"
       /\ bot[b].at = "first sent" => bot[b].first = NoAnswer
       /\ bot[b].second = NoAnswer
       /\ NoAnswer \notin DOMAIN order_node_map /\ NoOrderId \notin DOMAIN order_node_map
  BY <1>2, <1>3, WaitingFacts, IdsInTheBook DEF NoAnswer
<1>11. BotsRemember'
  <2>1. ASSUME NEW other \in User \ {b}
        PROVE  RecordOK(other, bot[other], id)
    BY <1>4, RecordStaysOK DEF BotsIInv, BotsRemember
  <2> QED BY <1>2, <1>4, <1>7, <2>1 DEF BotsRemember, Forgets
<1>12. OrdersRemembered'
  <2>1. SUFFICES ASSUME NEW i \in DOMAIN order_node_map' \ abandoned',
                        NEW owner, owner = order_node_map'[i].user_id
                 PROVE  /\ owner \in Maker /\ order_node_map'[i].order_type = "ASK" =>
                             i = bot'[owner].first
                        /\ owner \in Adversary => i = bot'[owner].second
    BY DEF OrdersRemembered
  <2>2. CASE i = id
    BY <1>7, <1>9, <1>10, <2>1, <2>2
  <2>3. CASE i \in DOMAIN order_node_map
    <3>1. /\ owner \in User
          /\ order_node_map'[i].order_type = order_node_map[i].order_type
          /\ owner = order_node_map[i].user_id
      BY <1>2, <1>8, <2>1, <2>3, NodeFacts
    <3>2. /\ owner \in Maker /\ order_node_map'[i].order_type = "ASK" => i = bot[owner].first
          /\ owner \in Adversary => i = bot[owner].second
      <4>1. i \notin abandoned
        BY <1>7, <2>1 DEF Forgets
      <4> QED BY <2>3, <3>1, <4>1 DEF BotsIInv, OrdersRemembered
    <3> QED BY <1>7, <1>10, <2>1, <2>3, <3>1, <3>2
  <2> QED BY <1>8, <2>2, <2>3
<1>13. BotsCancelTheirOwnOrders'
  <2>1. SUFFICES ASSUME NEW owner \in User
                 PROVE  /\ bot'[owner].first \in DOMAIN order_node_map' =>
                             /\ order_node_map'[bot'[owner].first].user_id = owner
                             /\ order_node_map'[bot'[owner].first].order_type = "ASK"
                        /\ bot'[owner].second \in DOMAIN order_node_map' =>
                             order_node_map'[bot'[owner].second].user_id = owner
    BY DEF BotsCancelTheirOwnOrders
  <2>2. bot[owner].first # id /\ bot[owner].second # id
    <3>1. /\ bot[owner].first \in Int /\ bot[owner].second \in Int
          /\ RecordOK(owner, bot[owner], id_counter)
      BY BotFacts, RememberedIds
    <3>2. bot[owner].first <= id_counter /\ bot[owner].second <= id_counter
      BY <3>1 DEF RecordOK
    <3> QED BY <1>3, <1>4, <3>1, <3>2
  <2>3. /\ bot[owner].first \in DOMAIN order_node_map =>
             /\ order_node_map[bot[owner].first].user_id = owner
             /\ order_node_map[bot[owner].first].order_type = "ASK"
        /\ bot[owner].second \in DOMAIN order_node_map =>
             order_node_map[bot[owner].second].user_id = owner
    BY DEF BotsIInv, BotsCancelTheirOwnOrders
  <2>4. NoAnswer \notin DOMAIN order_node_map'
    BY <1>4, <1>8, <1>10
  <2>5. CASE owner # b
    BY <1>7, <1>8, <2>2, <2>3, <2>5
  <2>6. CASE owner = b
    <3>1. bot'[owner].first \in DOMAIN order_node_map' =>
            /\ order_node_map'[bot'[owner].first].user_id = owner
            /\ order_node_map'[bot'[owner].first].order_type = "ASK"
      BY <1>7, <1>8, <1>9, <1>10, <2>2, <2>3, <2>4, <2>6
    <3>2. bot'[owner].second \in DOMAIN order_node_map' =>
            order_node_map'[bot'[owner].second].user_id = owner
      BY <1>7, <1>8, <1>9, <2>4, <2>6
    <3> QED BY <3>1, <3>2
  <2> QED BY <2>5, <2>6
<1>14. BotWaits'
  BY <1>5 DEF BotWaits
<1> QED BY <1>2, <1>11, <1>12, <1>13, <1>14 DEF BotsIInv

LEMMA BookStepIInv ==
  ASSUME BotsIInv, BookStep
  PROVE  BotsIInv' /\ [Next]_vars
<1>1. [Next]_vars
  BY DEF BookStep, Next
<1>2. /\ IInv /\ IInv' /\ call \in CallType
      /\ bot \in [User -> BotRecord]
  BY <1>1, NextIInv, TypeParts DEF BotsIInv, BotsRemember, IInv
<1>3. call.phase = "matching"
  BY DEF BookStep, HandleOrderStep, SkipEmptyLevel, CancelWashTrade, Fill, ReturnFilled,
         RestRemainder, LoopLevel, LoopEnds
<1>4. PICK b : b = call.user
  OBVIOUS
<1>5. b \in User
  BY <1>3, <1>4, WaitingFacts
<1>6. ASSUME NEW price \in Price,
             SkipEmptyLevel(price) \/ CancelWashTrade(price) \/ Fill(price)
      PROVE  BotsIInv'
  <2>1. Sheds
    BY <1>2, <1>6, FillSheds, SameOrdersShed DEF SkipEmptyLevel, CancelWashTrade
  <2>2. /\ call'.phase = "matching" /\ call'.user = call.user
        /\ call'.side = call.side /\ call'.order_id = call.order_id
    <3>1. CASE UNCHANGED call
      BY <1>3, <3>1
    <3>2. CASE Fill(price)
      <4>1. PICK filled, trade :
              call' = [call EXCEPT !.volume = @ - filled, !.trades = Append(@, trade)]
        BY <3>2, Zenon DEF Fill
      <4> QED BY <1>2, <1>3, <4>1 DEF CallType
    <3> QED BY <1>6, <3>1, <3>2 DEF SkipEmptyLevel, CancelWashTrade
  <2>3. UNCHANGED <<bot, abandoned>>
    BY <2>2 DEF BookStep
  <2>4. BotWaits'
    BY <1>3, <2>2, <2>3 DEF BotsIInv, BotWaits
  <2> QED BY <1>2, <2>1, <2>3, <2>4, BotsLookOn
<1>7. CASE ReturnFilled
  <2>1. call'.phase = "returned" /\ call'.order_id = NoOrderId
    <3>1. call' = [call EXCEPT !.phase = "returned"]
      BY <1>7 DEF ReturnFilled
    <3>2. call.order_id = NoOrderId
      BY <1>3 DEF BotsIInv, BotWaits
    <3> QED BY <1>2, <3>1, <3>2 DEF CallType
  <2>2. Sheds /\ id_counter' = id_counter /\ id_counter \in Nat
    BY <1>2, <1>7, SameOrdersShed, CounterFacts DEF ReturnFilled, bookVars
  <2>3. BotWaits'
    BY <2>1 DEF BotWaits
  <2>4. CASE Update(b, Told(bot[b], NoOrderId)) /\ UNCHANGED abandoned
    <3> DEFINE record == Told(bot[b], NoOrderId)
    <3>1. NoOrderId <= id_counter' /\ id_counter <= id_counter'
      BY <2>2, NoOrderIdIsInt
    <3>2. /\ record \in BotRecord
          /\ RecordOK(b, record, id_counter')
          /\ bot[b].at = "first sent" => /\ record.first = NoOrderId
                                         /\ record.second = NoAnswer
          /\ bot[b].at # "first sent" => /\ record.first = bot[b].first
                                         /\ record.second = NoOrderId
      BY <1>3, <1>4, <2>2, <3>1, ToldFacts
    <3>3. /\ bot[b].at = "first sent" => bot[b].first = NoAnswer
          /\ bot[b].second = NoAnswer
          /\ NoAnswer \notin DOMAIN order_node_map'
      BY <1>2, <1>3, <1>4, <2>2, WaitingFacts, IdsInTheBook DEF Sheds, NoAnswer
    <3>4. Forgets /\ Update(b, record)
      BY <1>2, <2>2, <2>4, NothingForgotten
    <3> HIDE DEF record
    <3> QED BY <1>1, <1>2, <1>5, <2>2, <2>3, <3>2, <3>3, <3>4, BotMovesOn
  <2>5. CASE Abandon(b, {NoOrderId})
    BY <1>1, <1>2, <1>5, <2>2, <2>3, <2>5, AbandonIInv
  <2> QED BY <1>4, <2>1, <2>4, <2>5 DEF BookStep
<1>8. CASE RestRemainder
  BY <1>1, <1>8, RestIInv
<1> QED BY <1>1, <1>6, <1>7, <1>8 DEF BookStep, HandleOrderStep

LEMMA BotsNextIInv ==
  PositivePrices /\ BotsIInv /\ [BotsNext]_botsVars => BotsIInv' /\ [Next]_vars
<1> SUFFICES ASSUME PositivePrices, BotsIInv, [BotsNext]_botsVars
             PROVE  BotsIInv' /\ [Next]_vars
  OBVIOUS
<1>1. CASE BookStep
  BY <1>1, BookStepIInv
<1>2. ASSUME NEW b \in User, BotStep(b)
      PROVE  BotsIInv' /\ [Next]_vars
  BY <1>2, BotsAssumption, ReadTopIInv, QuoteIInv, CancelFirstIInv, CancelSecondIInv,
     DisruptIInv, HitIInv, RoundEndsIInv DEF BotStep
<1>3. CASE PrintOrderBook
  BY <1>3, PrintOrderBookIInv
<1>4. CASE UNCHANGED botsVars
  <2>1. UNCHANGED vars /\ UNCHANGED <<bot, abandoned>>
    BY <1>4 DEF botsVars
  <2>2. IInv' /\ Sheds
    BY <2>1, NextIInv, SameOrdersShed DEF vars, BotsIInv
  <2>3. BotWaits'
    BY <2>1 DEF vars, BotsIInv, BotWaits
  <2> QED BY <2>1, <2>2, <2>3, BotsLookOn
<1> QED BY <1>1, <1>2, <1>3, <1>4 DEF BotsNext

LEMMA BotsSpecIInv == PositivePrices => (BotsSpec => []BotsIInv)
<1> SUFFICES ASSUME PositivePrices PROVE BotsSpec => []BotsIInv
  OBVIOUS
<1>1. BotsIInv /\ [BotsNext]_botsVars => BotsIInv'
  BY BotsNextIInv
<1> QED BY <1>1, InitBotsIInv, PTL DEF BotsSpec

-----------------------------------------------------------------------------

\* A bot remembers what the answers told it, and sends prices that the book is
\* made for.
THEOREM BotsTypeCorrect == PositivePrices => (BotsSpec => []BotsTypeOK)
<1> SUFFICES ASSUME PositivePrices PROVE BotsSpec => []BotsTypeOK
  OBVIOUS
<1>1. BotsIInv => BotsTypeOK
  <2> SUFFICES ASSUME BotsIInv PROVE BotsTypeOK
    OBVIOUS
  <2>1. call.price \in Nat
    BY TypeParts DEF BotsIInv, IInv, CallType
  <2>2. call.price \in Price \cup {0}
    BY <2>1 DEF PositivePrices
  <2> QED BY <2>2 DEF BotsIInv, BotsRemember, BotRecord, BotsTypeOK
<1> QED BY <1>1, BotsSpecIInv, PTL

\* However many bots trade, whatever prices and volumes the adversaries and the
\* high-frequency traders draw, and whichever of their requests fail, what users see
\* of the book behaves as the matching engine.
THEOREM BotsTradeOnAnEngine == PositivePrices => (BotsSpec => ImplementsMatchingEngine)
<1> SUFFICES ASSUME PositivePrices PROVE BotsSpec => ImplementsMatchingEngine
  OBVIOUS
<1>1. BotsIInv /\ [BotsNext]_botsVars => [Engine!Next]_Engine!vars
  <2>1. BotsIInv /\ [BotsNext]_botsVars => IInv /\ [Next]_vars
    BY BotsNextIInv DEF BotsIInv
  <2> QED BY <2>1, NextEngine DEF EngineStep
<1>2. BotsInit => Engine!Init
  BY InitEngine DEF BotsInit
<1> QED BY <1>1, <1>2, BotsSpecIInv, PTL DEF BotsSpec, ImplementsMatchingEngine, Engine!Spec

\* Whatever became of the orders a bot was told of, an id it cancels is never
\* that of another's order, for any number of bots.
THEOREM BotsOnlyCancelTheirOwn == PositivePrices => (BotsSpec => []BotsCancelTheirOwnOrders)
<1> SUFFICES ASSUME PositivePrices PROVE BotsSpec => []BotsCancelTheirOwnOrders
  OBVIOUS
<1>1. BotsIInv => BotsCancelTheirOwnOrders
  BY DEF BotsIInv
<1> QED BY <1>1, BotsSpecIInv, PTL

\* The order a round cancels first is gone when the round is over, for any number
\* of bots, unless a request of the round failed.
THEOREM FirstOrdersEndWithTheRound ==
  PositivePrices => (BotsSpec => []FirstOrderEndsWithTheRound)
<1> SUFFICES ASSUME PositivePrices PROVE BotsSpec => []FirstOrderEndsWithTheRound
  OBVIOUS
<1>1. BotsIInv => FirstOrderEndsWithTheRound
  <2> SUFFICES ASSUME BotsIInv,
                      NEW b \in Maker \cup Adversary,
                      NEW id \in DOMAIN order_node_map \ abandoned,
                      bot[b].at = "top", order_node_map[id].user_id = b
               PROVE  b \in Maker /\ order_node_map[id].order_type = "BID"
    BY DEF FirstOrderEndsWithTheRound
  <2>1. b \in User
    BY BotsAssumption DEF BotsAssumption
  <2>2. RecordOK(b, bot[b], id_counter)
    BY <2>1, BotFacts
  <2>3. bot[b].first = NoAnswer /\ bot[b].second = NoAnswer
    BY <2>2 DEF RecordOK
  <2>4. id # NoAnswer
    BY IdsInTheBook DEF BotsIInv, NoAnswer
  <2>5. order_node_map[id].order_type \in Side
    BY NodeFacts DEF BotsIInv
  <2> QED BY <2>3, <2>4, <2>5 DEF BotsIInv, OrdersRemembered, Side
<1> QED BY <1>1, BotsSpecIInv, PTL
=============================================================================
