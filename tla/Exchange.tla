------------------------------ MODULE Exchange ------------------------------
(***************************************************************************)
(* src/src/Exchange/exchange.cpp: the books of all tickers, the trades of   *)
(* every user and the registered users, called by the worker threads of the *)
(* server.  Nothing in it is locked.                                        *)
(*                                                                          *)
(* A thread is inside a container for a while, and what it does there is    *)
(* done when it leaves.  Two threads in one container at once, one of them  *)
(* to change what the other uses, are a data race: from there on C++        *)
(* promises nothing about any container, nor that the process goes on, and  *)
(* the model says no more.  What it says is of the runs that no data race   *)
(* has ended; in them accesses that do not overlap see each other.          *)
(*                                                                          *)
(* Of a book only what the exchange and its callers can tell is here: whose *)
(* orders wait on which side, the ids the book draws and the trades it      *)
(* makes, one at a time (LimitOrderBook.tla is the whole of it).  An order  *)
(* out of line after a wash trade may trade here.                           *)
(***************************************************************************)
EXTENDS Integers, SequencesExt

CONSTANTS
  Ticker,    \* the tickers the exchange was made with
  User,
  Thread,    \* threads that call the exchange
  NoUser,
  NoTicker,  \* a ticker the exchange does not have
  OrderIds,  \* bound: ids that one order may draw, one a share at most
  MaxId      \* bound: ids GenerateId may hand out

ASSUME ExchangeAssumption ==
  /\ OrderIds \in Nat /\ MaxId \in Nat
  /\ NoUser \notin User
  /\ NoTicker \notin Ticker

VARIABLES
  order_node_map,  \* ticker -> id -> whose order it is, on which side
  filled_trades,   \* ticker -> the trades of its book
  id_counter,      \* the last id GenerateId handed out
  trades_by_user,  \* user -> his trades, of the users that have an entry
  users,           \* registered users
  task,            \* thread -> the call it is in
  undefined,       \* whether there has been a data race
  granted,         \* auxiliary: user -> how often RegisterUser returned true
  contested        \* auxiliary: users that two threads looked for before either inserted him

books == <<order_node_map, filled_trades, id_counter>>
vars == <<order_node_map, filled_trades, id_counter, trades_by_user, users, task, undefined,
          granted, contested>>

Side == {"BID", "ASK"}

NoTask == [step |-> "idle", inside |-> FALSE, user |-> NoUser, ticker |-> NoTicker,
           side |-> "BID", trades |-> <<>>]

Init ==
  /\ order_node_map = [ticker \in Ticker |-> <<>>]
  /\ filled_trades = [ticker \in Ticker |-> <<>>]
  /\ id_counter = 0
  /\ trades_by_user = <<>>
  /\ users = {}
  /\ task = [thread \in Thread |-> NoTask]
  /\ undefined = FALSE
  /\ granted = [user \in User |-> 0]
  /\ contested = {}

-----------------------------------------------------------------------------
(* Who is where.  An operator named Broken... is a definition with a slip   *)
(* in it: the properties below are tried on it, and it is part of no        *)
(* specification.                                                           *)

BrokenParty(call) ==  \* the buyer twice
  IF call.step \in {"bid find", "bid push", "ask find", "ask push"}
  THEN Head(call.trades).bid_user_id ELSE call.user

\* Whose trades the call is about: a trade is recorded under the buyer, then under
\* the seller; a query names the user.
Party(call) ==
  CASE call.step \in {"bid find", "bid push"} -> Head(call.trades).bid_user_id
    [] call.step \in {"ask find", "ask push"} -> Head(call.trades).ask_user_id
    [] OTHER -> call.user

InBook(call)   == call.step \in {"matching", "in book", "reading book"}
InMap(call)    == call.step \in {"bid find", "ask find", "trades find"}
InVector(call) == call.step \in {"bid push", "ask push", "trades copy"}
InUsers(call)  == call.step \in {"user find", "user emplace"}

\* The calls that change nothing where they are.  trades_by_user[...] makes an entry
\* for a user that has none.
Reads(call) ==
  \/ call.step \in {"reading book", "trades find", "trades copy", "user find"}
  \/ call.step \in {"bid find", "ask find"} /\ Party(call) \in DOMAIN trades_by_user

\* Two calls use the same data and one of them changes it.  trades_by_user and users
\* are one container for all users: an insertion may move every bucket.  The vectors
\* of two users are apart, and no insertion moves them.
DataRace(call, other) ==
  /\ \/ InBook(call) /\ InBook(other) /\ call.ticker = other.ticker
     \/ InMap(call) /\ InMap(other)
     \/ InVector(call) /\ InVector(other) /\ Party(call) = Party(other)
     \/ InUsers(call) /\ InUsers(other)
  /\ ~(Reads(call) /\ Reads(other))

Goto(thread, call) == task' = [task EXCEPT ![thread] = call]

Enter(thread, call) ==
  /\ Goto(thread, [call EXCEPT !.inside = TRUE])
  /\ undefined' = \E other \in Thread \ {thread} :
                    task[other].inside /\ DataRace(call, task[other])

Leave(thread, call) ==
  /\ Goto(thread, [call EXCEPT !.inside = FALSE])
  /\ UNCHANGED undefined

Idle(thread) == ~undefined /\ task[thread].step = "idle"

\* The thread has done what it does at this step.
Done(thread, step) == ~undefined /\ task[thread].inside /\ task[thread].step = step

\* A call goes on to the next container.
GoOn(thread) ==
  /\ ~undefined
  /\ task[thread].step # "idle" /\ ~task[thread].inside
  /\ Enter(thread, task[thread])
  /\ UNCHANGED <<books, trades_by_user, users, granted, contested>>

-----------------------------------------------------------------------------
(* The books.                                                              *)

\* ThrowIfTickerNotFound: any other ticker throws before anything changes.
TickerFound(ticker) == ticker \in Ticker

\* The ids that calls in progress may still draw.
IdsPromised ==
  MapThenSumSet(LAMBDA thread : OrderIds - Len(task[thread].trades),
                {thread \in Thread : task[thread].step = "matching"})

\* An order the book does not refuse (for its price or its volume).
HandleOrder(thread, user, side, ticker) ==
  /\ Idle(thread)
  /\ TickerFound(ticker)
  /\ id_counter + IdsPromised + OrderIds <= MaxId
  /\ Enter(thread, [NoTask EXCEPT !.step = "matching", !.user = user, !.ticker = ticker,
                                  !.side = side])
  /\ UNCHANGED <<books, trades_by_user, users, granted, contested>>

\* The other calls of a book: CancelOrder and GetTopOfBook, which drops levels, and
\* GetVolume and GetPreviousTrades, which only read.
UseBook(thread, ticker, step) ==
  /\ Idle(thread)
  /\ TickerFound(ticker)
  /\ Enter(thread, [NoTask EXCEPT !.step = step, !.ticker = ticker])
  /\ UNCHANGED <<books, trades_by_user, users, granted, contested>>

BrokenGenerateId ==  \* an increment may be lost
  /\ id_counter < MaxId
  /\ id_counter' \in {id_counter, id_counter + 1}

\* The static counter of all books, incremented in one atomic step.
GenerateId ==
  /\ id_counter < MaxId
  /\ id_counter' = id_counter + 1

Without(ticker, id) ==
  [order_node_map EXCEPT ![ticker] = Restrict(@, DOMAIN @ \ {id})]

BrokenRecord(call, trades) == [call EXCEPT !.step = "bid find", !.trades = trades]  \* no test

\* What is left to do when these trades of a result are not recorded.
Record(call, trades) ==
  IF trades = <<>> THEN NoTask ELSE [call EXCEPT !.step = "bid find", !.trades = trades]

\* The book of the thread's order makes a trade with another user's order: that
\* one is filled and the matching goes on, or the thread's is filled, and the
\* other perhaps in part, and the book returns.
BookTrades(thread, id) ==
  LET call == task[thread]
      other == order_node_map[call.ticker][id]
      trade == [trade_id |-> id_counter + 1,
                bid_user_id |-> IF call.side = "BID" THEN call.user ELSE other.user_id,
                ask_user_id |-> IF call.side = "BID" THEN other.user_id ELSE call.user]
      trades == Append(call.trades, trade)
  IN  /\ Done(thread, "matching")
      /\ id \in DOMAIN order_node_map[call.ticker]
      /\ other.order_type # call.side /\ other.user_id # call.user
      /\ GenerateId
      /\ filled_trades' = [filled_trades EXCEPT ![call.ticker] = Append(@, trade)]
      /\ \/ /\ Len(trades) < OrderIds
            /\ order_node_map' = Without(call.ticker, id)
            /\ Goto(thread, [call EXCEPT !.trades = trades])
            /\ UNCHANGED undefined
         \/ /\ order_node_map' \in {order_node_map, Without(call.ticker, id)}
            /\ Leave(thread, Record(call, trades))
      /\ UNCHANGED <<trades_by_user, users, granted, contested>>

\* What is left of the order comes to rest, and the book returns.
BookRests(thread) ==
  LET call == task[thread]
      order == [user_id |-> call.user, order_type |-> call.side]
  IN  /\ Done(thread, "matching")
      /\ GenerateId
      /\ order_node_map' =
           [order_node_map EXCEPT ![call.ticker] =
              [id \in DOMAIN @ \cup {id_counter'} |-> IF id = id_counter' THEN order ELSE @[id]]]
      /\ Leave(thread, Record(call, call.trades))
      /\ UNCHANGED <<filled_trades, trades_by_user, users, granted, contested>>

CancelOrder(thread, id) ==
  LET ticker == task[thread].ticker
  IN  /\ Done(thread, "in book")
      /\ id \in DOMAIN order_node_map[ticker]
      /\ order_node_map' = Without(ticker, id)
      /\ Leave(thread, NoTask)
      /\ UNCHANGED <<filled_trades, id_counter, trades_by_user, users, granted, contested>>

\* Whatever else a book is asked, or an id it does not have, changes nothing here.
LeaveBook(thread) ==
  /\ Done(thread, "in book") \/ Done(thread, "reading book")
  /\ Leave(thread, NoTask)
  /\ UNCHANGED <<books, trades_by_user, users, granted, contested>>

-----------------------------------------------------------------------------
(* HandleOrder records the trades the book has made.                       *)

\* trades_by_user[...] finds the user's entry, or makes an empty one.
FindEntry(thread) ==
  LET call == task[thread]
  IN  /\ Done(thread, "bid find") \/ Done(thread, "ask find")
      /\ trades_by_user' =
           [user \in DOMAIN trades_by_user \cup {Party(call)} |->
              IF user \in DOMAIN trades_by_user THEN trades_by_user[user] ELSE <<>>]
      /\ Leave(thread, [call EXCEPT !.step = IF @ = "bid find" THEN "bid push" ELSE "ask push"])
      /\ UNCHANGED <<books, users, granted, contested>>

BrokenPushTrade(thread) ==  \* records the first trade of the result only
  LET call == task[thread]
  IN  /\ Done(thread, "bid push") \/ Done(thread, "ask push")
      /\ trades_by_user' = [trades_by_user EXCEPT ![Party(call)] = Append(@, Head(call.trades))]
      /\ Leave(thread, IF call.step = "bid push" THEN [call EXCEPT !.step = "ask find"]
                       ELSE NoTask)
      /\ UNCHANGED <<books, users, granted, contested>>

\* push_back of the trade into the user's vector.
PushTrade(thread) ==
  LET call == task[thread]
  IN  /\ Done(thread, "bid push") \/ Done(thread, "ask push")
      /\ trades_by_user' = [trades_by_user EXCEPT ![Party(call)] = Append(@, Head(call.trades))]
      /\ Leave(thread, IF call.step = "bid push" THEN [call EXCEPT !.step = "ask find"]
                       ELSE Record(call, Tail(call.trades)))
      /\ UNCHANGED <<books, users, granted, contested>>

-----------------------------------------------------------------------------
(* GetTradesByUser and RegisterUser.                                       *)

\* A query or a registration begins by looking the user up.
LookUp(thread, user, step) ==
  /\ Idle(thread)
  /\ Enter(thread, [NoTask EXCEPT !.step = step, !.user = user])
  /\ UNCHANGED <<books, trades_by_user, users, granted, contested>>

\* GetTradesByUser copies the user's vector, if he has one.
GetTradesByUser(thread) ==
  /\ \/ /\ Done(thread, "trades find")
        /\ Leave(thread, IF task[thread].user \notin DOMAIN trades_by_user THEN NoTask
                         ELSE [task[thread] EXCEPT !.step = "trades copy"])
     \/ /\ Done(thread, "trades copy")
        /\ Leave(thread, NoTask)
  /\ UNCHANGED <<books, trades_by_user, users, granted, contested>>

Inserts(call, user) == call.step = "user emplace" /\ call.user = user

\* RegisterUser: one that is found is not registered again, and false returned.
RegisterUser(thread) ==
  LET user == task[thread].user
  IN  /\ Done(thread, "user find")
      /\ \/ /\ user \in users
            /\ Leave(thread, NoTask)
            /\ UNCHANGED contested
         \/ /\ user \notin users
            /\ Leave(thread, [task[thread] EXCEPT !.step = "user emplace"])
            /\ contested' = IF \E other \in Thread \ {thread} : Inserts(task[other], user)
                            THEN contested \cup {user} ELSE contested
      /\ UNCHANGED <<books, trades_by_user, users, granted>>

BrokenEmplaceUser(thread) ==  \* inserts nobody
  /\ Done(thread, "user emplace")
  /\ granted' = [granted EXCEPT ![task[thread].user] = @ + 1]
  /\ Leave(thread, NoTask)
  /\ UNCHANGED <<books, trades_by_user, users, contested>>

\* The user is inserted and true returned, whatever emplace answers.
EmplaceUser(thread) ==
  /\ Done(thread, "user emplace")
  /\ users' = users \cup {task[thread].user}
  /\ granted' = [granted EXCEPT ![task[thread].user] = @ + 1]
  /\ Leave(thread, NoTask)
  /\ UNCHANGED <<books, trades_by_user, contested>>

NothingIsPromised == undefined /\ UNCHANGED vars

Next ==
  \/ \E thread \in Thread :
       \/ GoOn(thread)
       \/ \E user \in User, side \in Side, ticker \in Ticker \cup {NoTicker} :
            HandleOrder(thread, user, side, ticker)
       \/ \E ticker \in Ticker \cup {NoTicker}, step \in {"in book", "reading book"} :
            UseBook(thread, ticker, step)
       \/ \E id \in 1..MaxId : BookTrades(thread, id) \/ CancelOrder(thread, id)
       \/ BookRests(thread)
       \/ LeaveBook(thread)
       \/ FindEntry(thread)
       \/ PushTrade(thread)
       \/ \E user \in User, step \in {"trades find", "user find"} : LookUp(thread, user, step)
       \/ GetTradesByUser(thread)
       \/ RegisterUser(thread)
       \/ EmplaceUser(thread)
  \/ NothingIsPromised

Spec == Init /\ [][Next]_vars

-----------------------------------------------------------------------------
(* What must hold.                                                         *)

Order == [user_id : User, order_type : Side]
Trade == [trade_id : Nat, bid_user_id : User, ask_user_id : User]
Recording(call) == call.step \in {"bid find", "bid push", "ask find", "ask push"}
Steps == {"idle", "matching", "in book", "reading book", "bid find", "bid push", "ask find",
          "ask push", "trades find", "trades copy", "user find", "user emplace"}
Call == [step : Steps, inside : BOOLEAN, user : User \cup {NoUser},
         ticker : Ticker \cup {NoTicker}, side : Side, trades : Seq(Trade)]

\* The exchange's containers hold what they are declared to hold, and a thread
\* that records trades has one to record, under a user that has an entry.
TypeOK ==
  /\ DOMAIN order_node_map = Ticker
  /\ \A ticker \in Ticker : \A id \in DOMAIN order_node_map[ticker] :
       id \in Nat /\ order_node_map[ticker][id] \in Order
  /\ filled_trades \in [Ticker -> Seq(Trade)]
  /\ id_counter \in 0..MaxId
  /\ DOMAIN trades_by_user \subseteq User
  /\ \A user \in DOMAIN trades_by_user : trades_by_user[user] \in Seq(Trade)
  /\ users \subseteq User
  /\ task \in [Thread -> Call]
  /\ \A thread \in Thread :
       /\ Recording(task[thread]) => task[thread].trades # <<>>
       /\ InVector(task[thread]) => Party(task[thread]) \in DOMAIN trades_by_user
  /\ undefined \in BOOLEAN
  /\ granted \in [User -> Nat]
  /\ contested \subseteq User

\* Where an id is in use: by an order of a book, or by one of its trades.
OrderId(ticker, id) == id \in DOMAIN order_node_map[ticker]
TradeId(ticker, i, id) ==
  i \in DOMAIN filled_trades[ticker] /\ filled_trades[ticker][i].trade_id = id

UniqueIds ==
  \A t1, t2 \in Ticker : \A id \in 1..id_counter :
    /\ OrderId(t1, id) /\ OrderId(t2, id) => t1 = t2
    /\ \A i \in DOMAIN filled_trades[t1] : TradeId(t1, i, id) =>
         /\ ~OrderId(t2, id)
         /\ \A j \in DOMAIN filled_trades[t2] : TradeId(t2, j, id) => t1 = t2 /\ i = j

\* No id is in use twice, by orders or trades of any books, although books match
\* at the same time and share nothing but the counter: an order cancelled by its
\* id is the one that was placed, whatever ticker is given with it.
IdsNeverRepeat == ~undefined => UniqueIds

TradesMade == UNION {ToSet(filled_trades[ticker]) : ticker \in Ticker}
TradesOf(user) == {trade \in TradesMade : user \in {trade.bid_user_id, trade.ask_user_id}}

\* What GetTradesByUser returns.
RecordedTrades(user) ==
  IF user \in DOMAIN trades_by_user THEN ToSet(trades_by_user[user]) ELSE {}

\* GetTradesByUser is never ahead of the books and never counts a trade twice, as
\* long as no data race has ended the promise: a trade under a user is a trade of his
\* that a book has made, and it is there once.
RecordedTradesWereMade ==
  ~undefined =>
    \A user \in DOMAIN trades_by_user :
      /\ RecordedTrades(user) \subseteq TradesOf(user)
      /\ IsInjective(trades_by_user[user])

\* A thread has this trade still to record under this user.
StillToRecord(call, trade, user) ==
  \E i \in DOMAIN call.trades :
    /\ call.trades[i] = trade
    /\ i = 1 /\ call.step \in {"ask find", "ask push"} => user = trade.ask_user_id

\* A trade is missing under one of its users only as long as the thread that made
\* it has not come to it, however calls interleave that are not in a data race.
TradesAreLostOnlyInRaces ==
  ~undefined =>
    \A user \in User : \A trade \in TradesOf(user) \ RecordedTrades(user) :
      \E thread \in Thread : StillToRecord(task[thread], trade, user)

\* RegisterUser returns true once a user, unless two threads have looked for him
\* before either inserted him, or there was a data race.
RegistrationRepeatsOnlyInRaces ==
  ~undefined => \A user \in User \ contested : granted[user] <= 1

-----------------------------------------------------------------------------
(* What the repository says of the exchange and the code does not do.      *)

\* test_exchange.cpp:422, "Duplicate should fail": RegisterUser returns true
\* once a user.  Two threads that both look before either inserts get true both,
\* without a data race if the one inserts after the other.
DuplicateRegistrationFails == ~undefined => \A user \in User : granted[user] <= 1
=============================================================================
