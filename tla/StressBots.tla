----------------------------- MODULE StressBots -----------------------------
(***************************************************************************)
(* src/trading_bots/tests/stress_trading.py: market makers, adversarial and *)
(* high-frequency traders that trade in one book (LimitOrderBook.tla).  A   *)
(* bot sends a request and waits for the answer; the server has one worker, *)
(* so that requests are handled one after the other.  Any request may fail, *)
(* before it is handled or after: the bot gets an error for its answer.     *)
(* What a bot remembers of its orders is what the answers told it, and what *)
(* it does next depends on Python's exceptions: an answer without the key   *)
(* that is asked of it, or no answer at all, ends the round, and the next   *)
(* one starts anew.                                                         *)
(*                                                                          *)
(* The bots send order_type 1 for what they call a buy; it is the code's    *)
(* ASK (order_type.hpp).                                                    *)
(***************************************************************************)
EXTENDS LimitOrderBook

CONSTANTS
  Maker,            \* threads of market_maker
  Adversary,        \* threads of adversarial_trader
  Hft,              \* threads of high_frequency_trader
  Spread,           \* a market maker's distance from the middle, in ticks
  BasePrice,        \* where a market maker takes the middle to be, untold, in units
  OrderSize,        \* what market makers send
  AdversaryPrice,   \* what adversaries draw from
  AdversaryVolume,
  HftVolume         \* what high-frequency traders draw from

ASSUME BotsAssumption ==
  /\ User = Maker \cup Adversary \cup Hft
  /\ Maker \cap Adversary = {} /\ Maker \cap Hft = {} /\ Adversary \cap Hft = {}
  /\ TicksPerUnit % 2 = 0
  /\ OrderSize \in Volume /\ AdversaryVolume \subseteq Volume /\ HftVolume \subseteq Volume
  /\ AdversaryPrice \subseteq Price /\ Spread \in Nat /\ BasePrice \in Nat

VARIABLES
  bot,       \* bot -> where it is in its round and what it has been told
  abandoned  \* auxiliary: orders of rounds that the failure of a request cut short

botsVars == <<vars, bot, abandoned>>

\* What place_order returns for a price that is not positive: no answer.
NoAnswer == 0

Start == [at |-> "top", bid |-> 0, ask |-> 0, volume |-> 0,
          first |-> NoAnswer, second |-> NoAnswer]

BotsInit == Init /\ bot = [b \in User |-> Start] /\ abandoned = {}

Update(b, record) == bot' = [bot EXCEPT ![b] = record]

\* The ids the rest of a round draws at most: one for each share it is to send.
RoundIds(b) ==
  CASE bot[b].at \in {"top", "first"} ->
         (IF b \in Adversary THEN Max(AdversaryVolume)
          ELSE 2 * (IF b \in Hft THEN Max(HftVolume) ELSE OrderSize))
    [] bot[b].at = "second" -> bot[b].volume
    [] OTHER -> 0

\* The bound on ids: a round starts only if it and those in progress can end.
RoundFits(b) ==
  LET rounds == {b} \cup {other \in User : bot[other].at # "top"}
  IN  IdsLeft(SumFunction([other \in rounds |-> RoundIds(other)]))

-----------------------------------------------------------------------------
(* Requests.  An operator named Broken... is a definition with a slip in    *)
(* it: the properties below are tried on it, and it is part of no           *)
(* specification.                                                           *)

PriceOfBest(side) ==
  IF BestOfSide(side) = {} THEN 0 ELSE (CHOOSE t \in BestOfSide(side) : TRUE).price

\* get_top_of_book: a side without a top is reported at 0.  A market maker whose
\* request fails quotes as if both sides stood at BASE_PRICE, a high-frequency
\* trader does nothing.
ReadTop(b) ==
  /\ b \in Maker \cup Hft
  /\ bot[b].at = "top"
  /\ RoundFits(b)
  /\ \/ /\ GetTopOfBook
        /\ Update(b, [Start EXCEPT !.at = "first", !.bid = PriceOfBest("BID"),
                                   !.ask = PriceOfBest("ASK")])
     \/ /\ GetTopOfBook \/ UNCHANGED vars
        /\ Update(b, IF b \in Hft THEN Start
                     ELSE [Start EXCEPT !.at = "first", !.bid = BasePrice, !.ask = BasePrice])
  /\ UNCHANGED abandoned

\* A request of the bot fails: what is asked of the answer is not in it, and the
\* round is over.  Left behind are the orders the bot was told of in this round,
\* and the one it was never told of.
Abandon(b, untold) ==
  /\ abandoned' = abandoned \cup
       (({bot[b].first, bot[b].second} \cup untold) \ {NoAnswer, NoOrderId})
  /\ Update(b, Start)

\* place_order at a price that is not positive sends nothing.
Place(b, side, price, volume, sent, skipped) ==
  LET next(at) == [bot[b] EXCEPT !.at = at, !.volume = volume]
  IN  \/ /\ price > 0
         /\ HandleOrder(b, side, price, volume)
         /\ Update(b, next(sent))
         /\ UNCHANGED abandoned
      \/ /\ price > 0
         /\ Abandon(b, {})
         /\ UNCHANGED vars
      \/ /\ price <= 0
         /\ Update(b, next(skipped))
         /\ UNCHANGED <<vars, abandoned>>

BrokenTold(record, order_id) ==  \* takes an order that has traded for filled
  LET id == IF call'.trades = <<>> THEN order_id ELSE NoOrderId
  IN  IF record.at = "first sent" THEN [record EXCEPT !.at = "second", !.first = id]
      ELSE [record EXCEPT !.at = "cancel first", !.second = id]

\* What the bot does with the id in the answer to its order.
Told(record, order_id) ==
  IF record.at = "first sent" THEN [record EXCEPT !.at = "second", !.first = order_id]
  ELSE [record EXCEPT !.at = "cancel first", !.second = order_id]

\* The book goes on with an order.  When it is done the bot is told the id, or the
\* answer is lost on its way.
BookStep ==
  /\ HandleOrderStep
  /\ \/ call'.phase = "matching" /\ UNCHANGED <<bot, abandoned>>
     \/ /\ call'.phase = "returned"
        /\ Update(call.user, Told(bot[call.user], call'.order_id))
        /\ UNCHANGED abandoned
     \/ /\ call'.phase = "returned"
        /\ Abandon(call.user, {call'.order_id})

-----------------------------------------------------------------------------
(* market_maker.                                                           *)

BrokenMid(b) == (bot[b].bid + bot[b].ask) * TicksPerUnit  \* does not halve

Mid(b) == ((bot[b].bid + bot[b].ask) * TicksPerUnit) \div 2

QuoteFirst(b) ==
  /\ b \in Maker /\ bot[b].at = "first"
  /\ Place(b, "ASK", Mid(b) - Spread, OrderSize, "first sent", "second")

QuoteSecond(b) ==
  /\ b \in Maker /\ bot[b].at = "second"
  /\ Place(b, "BID", Mid(b) + Spread, OrderSize, "second sent", "cancel first")

\* A test of an order that got no answer raises, and so does cancel_order when
\* the book no longer has the order, or when its request fails: before the book
\* has cancelled the order, or after.
CancelFirst(b) ==
  LET id == bot[b].first
  IN  /\ b \notin Hft /\ bot[b].at = "cancel first"
      /\ \/ /\ id = NoAnswer
            /\ Update(b, Start)
            /\ UNCHANGED <<vars, abandoned>>
         \/ /\ id = NoOrderId
            /\ Update(b, [bot[b] EXCEPT !.at = "cancel second"])
            /\ UNCHANGED <<vars, abandoned>>
         \/ /\ CancelOrder(id)
            /\ Update(b, [bot[b] EXCEPT !.at = "cancel second", !.first = NoOrderId])
            /\ UNCHANGED abandoned
         \/ /\ id > 0
            /\ CancelUnknownOrder(id)
            /\ Update(b, Start)
            /\ UNCHANGED abandoned
         \/ /\ id > 0
            /\ CancelOrder(id) \/ UNCHANGED vars
            /\ Abandon(b, {})

\* The round is over, also when the cancellation raises.
CancelSecond(b) ==
  LET id == bot[b].second
  IN  /\ bot[b].at = "cancel second"
      /\ \/ /\ \/ id \in {NoAnswer, NoOrderId} /\ UNCHANGED vars
               \/ CancelOrder(id)
               \/ id > 0 /\ CancelUnknownOrder(id)
            /\ Update(b, Start)
            /\ UNCHANGED abandoned
         \/ id > 0 /\ UNCHANGED vars /\ Abandon(b, {})

-----------------------------------------------------------------------------
(* The other bots.                                                         *)

\* adversarial_trader places one order and cancels what came to rest of it.  (A
\* request that fails before it is handled leaves everything as it is.)
Disrupt(b) ==
  /\ b \in Adversary /\ bot[b].at = "top"
  /\ RoundFits(b)
  /\ \E side \in Side, price \in AdversaryPrice, volume \in AdversaryVolume :
       HandleOrder(b, side, price, volume)
  /\ Update(b, [Start EXCEPT !.at = "second sent", !.first = NoOrderId])
  /\ UNCHANGED abandoned

\* high_frequency_trader trades when the spread is large, and never cancels.  Both
\* its orders have the volume it drew.
HitFirst(b) ==
  /\ b \in Hft /\ bot[b].at = "first"
  /\ bot[b].ask - bot[b].bid > 1
  /\ \E volume \in HftVolume :
       Place(b, "ASK", bot[b].ask * TicksPerUnit, volume, "first sent", "second")

HitSecond(b) ==
  /\ b \in Hft /\ bot[b].at = "second"
  /\ Place(b, "BID", bot[b].bid * TicksPerUnit, bot[b].volume, "second sent", "cancel first")

RoundEnds(b) ==
  /\ b \in Hft
  /\ \/ bot[b].at = "first" /\ bot[b].ask - bot[b].bid <= 1
     \/ bot[b].at = "cancel first"
  /\ Update(b, Start)
  /\ UNCHANGED <<vars, abandoned>>

\* print_order_book only looks.
PrintOrderBook == GetTopOfBook /\ UNCHANGED <<bot, abandoned>>

BotStep(b) ==
  \/ ReadTop(b)
  \/ QuoteFirst(b)
  \/ QuoteSecond(b)
  \/ CancelFirst(b)
  \/ CancelSecond(b)
  \/ Disrupt(b)
  \/ HitFirst(b)
  \/ HitSecond(b)
  \/ RoundEnds(b)

BotsNext ==
  \/ BookStep
  \/ \E b \in User : BotStep(b)
  \/ PrintOrderBook

\* The worker that handles an order keeps running.  That it ever comes to a bot's
\* next request is not assumed.
BotsFairness == WF_botsVars(BookStep)

BotsSpec == BotsInit /\ [][BotsNext]_botsVars /\ BotsFairness

-----------------------------------------------------------------------------
(* What must hold.                                                         *)

\* A bot is in its round and has been told ids, and what it sends is what the
\* book is made for.
BotsTypeOK ==
  /\ bot \in [User -> [at : {"top", "first", "first sent", "second", "second sent",
                            "cancel first", "cancel second"},
                      bid : Nat, ask : Nat, volume : Volume \cup {0},
                      first : Nat \cup {NoOrderId}, second : Nat \cup {NoOrderId}]]
  /\ abandoned \subseteq 1..id_counter
  /\ call.price \in Price \cup {0}

\* An id a bot was told is never that of another's order, whatever became of its
\* own: what it cancels is what it placed, on the side it placed it.
BotsCancelTheirOwnOrders ==
  \A b \in User :
    /\ bot[b].first \in DOMAIN order_node_map =>
         order_node_map[bot[b].first].user_id = b
         /\ order_node_map[bot[b].first].order_type = "ASK"
    /\ bot[b].second \in DOMAIN order_node_map =>
         order_node_map[bot[b].second].user_id = b

\* The order a round cancels first outlives the round only if a request of that
\* round failed, though it may meanwhile be filled, in part or whole, or washed
\* out of line by the bot's own next order.
FirstOrderEndsWithTheRound ==
  \A b \in Maker \cup Adversary : \A id \in DOMAIN order_node_map \ abandoned :
    bot[b].at = "top" /\ order_node_map[id].user_id = b =>
      b \in Maker /\ order_node_map[id].order_type = "BID"

-----------------------------------------------------------------------------
(* What the repository says of the bots and the code does not do.          *)

\* stress_trading.py:122, "Cancel old orders if placed properly": a market maker
\* that starts a round has no order of an earlier one in the book, also when no
\* request fails.  A first order that was not placed, or is filled before its
\* cancellation, makes the round end with an exception before the second is
\* cancelled.
OldOrdersAreCancelled ==
  \A b \in Maker : \A id \in DOMAIN order_node_map \ abandoned :
    bot[b].at = "top" => order_node_map[id].user_id # b
=============================================================================
