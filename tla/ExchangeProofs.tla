--------------------------- MODULE ExchangeProofs ---------------------------
(***************************************************************************)
(* The safety of Exchange.tla for any number of tickers, users and threads, *)
(* results of any number of trades, and any bound on the ids.               *)
(***************************************************************************)
EXTENDS Exchange, CommonLemmas

\* A call that records trades has one to record, and one in a book may have some; no
\* other has.  A call is of a user and a book, where it needs them.
CallOK(call) ==
  /\ call \in Call
  /\ Recording(call) => call.trades # <<>>
  /\ ~Recording(call) /\ call.step # "matching" => call.trades = <<>>
  /\ call.step = "matching" => call.user \in User /\ call.ticker \in Ticker
  /\ call.step \in {"trades find", "trades copy", "user find", "user emplace"} =>
       call.user \in User

CallsOK == \A thread \in Thread : CallOK(task[thread])

\* Every id in use has been handed out.
IdsOK ==
  \A ticker \in Ticker :
    /\ \A id \in DOMAIN order_node_map[ticker] : id \in 1..id_counter
    /\ \A i \in DOMAIN filled_trades[ticker] : filled_trades[ticker][i].trade_id \in 1..id_counter

\* What the types and the ids rest on.
BooksInv == TypeOK /\ CallsOK /\ IdsOK /\ UniqueIds

\* As long as no two threads have looked for a user before either inserted him: he
\* was granted once, and was inserted then, or not yet, and one thread at most is at it.
RegistersOK ==
  \A user \in User \ contested :
    /\ \/ granted[user] = 0
       \/ /\ granted[user] = 1 /\ user \in users
          /\ \A thread \in Thread : ~Inserts(task[thread], user)
    /\ \A t, u \in Thread : Inserts(task[t], user) /\ Inserts(task[u], user) => t = u

\* Each trade is under both of its users, or still to be recorded there.
NothingLost ==
  \A user \in User : \A trade \in TradesOf(user) \ RecordedTrades(user) :
    \E thread \in Thread : StillToRecord(task[thread], trade, user)

\* Calls have trades that books have made, each trade one call, between two users.
CallTradesOK ==
  /\ \A trade \in TradesMade : trade.bid_user_id # trade.ask_user_id
  /\ \A t \in Thread : \A i \in DOMAIN task[t].trades :
       /\ task[t].trades[i] \in TradesMade
       /\ \A u \in Thread : \A j \in DOMAIN task[u].trades :
            task[u].trades[j] = task[t].trades[i] => t = u /\ i = j

\* A vector of a user's trades, none of them twice, none still to record.
VectorOK(list, user) ==
  /\ \A i \in DOMAIN list :
       /\ list[i] \in TradesOf(user)
       /\ \A t \in Thread : ~StillToRecord(task[t], list[i], user)
  /\ IsInjective(list)

RecordsOK == \A user \in DOMAIN trades_by_user : VectorOK(trades_by_user[user], user)

-----------------------------------------------------------------------------
(* Calls and the steps they make.                                          *)

\* What idle threads and calls that begin look like.
LEMMA NewCall ==
  /\ CallOK(NoTask) /\ NoTask.step = "idle" /\ NoTask.trades = <<>>
  /\ NoTask.user = NoUser
<1>1. <<>> \in Seq(Trade)
  BY EmptySeq
<1> QED BY <1>1 DEF NoTask, Call, Steps, Side, Recording, CallOK

\* What a call still has to record, whether there is any or not.
LEMMA RecordProperties ==
  ASSUME NEW call, CallOK(call), NEW trades \in Seq(Trade)
  PROVE  /\ CallOK(Record(call, trades))
         /\ Record(call, trades).trades = trades
         /\ Record(call, trades).step \in {"idle", "bid find"}
<1>1. CASE trades = <<>>
  BY <1>1, NewCall DEF Record
<1>2. CASE trades # <<>>
  BY <1>2 DEF Record, Recording, Call, Steps, CallOK
<1> QED BY <1>1, <1>2

\* The user a trade is recorded under is one of its two.
LEMMA PartyProperties ==
  ASSUME NEW call, CallOK(call)
  PROVE  /\ Recording(call) => /\ Head(call.trades) \in Trade
                               /\ Party(call) \in User
                               /\ Party(call) = IF call.step \in {"bid find", "bid push"}
                                                THEN Head(call.trades).bid_user_id
                                                ELSE Head(call.trades).ask_user_id
         /\ ~Recording(call) => Party(call) = call.user
<1>1. Recording(call) => Head(call.trades) \in Trade
  BY Shortened DEF CallOK, Call
<1> QED BY <1>1 DEF Party, Trade, Recording

\* The same call, in the container or out of it.
Same(call, after) ==
  /\ after.step = call.step /\ after.user = call.user /\ after.ticker = call.ticker
  /\ after.side = call.side /\ after.trades = call.trades

LEMMA SameParty ==
  ASSUME NEW call, NEW after, Same(call, after)
  PROVE  Party(after) = Party(call) /\ InVector(after) = InVector(call)
         /\ Recording(after) = Recording(call)
BY DEF Same, Party, InVector, Recording

LEMMA Moves ==
  ASSUME TypeOK, NEW thread \in Thread, NEW call, CallOK(call),
         Enter(thread, call) \/ Leave(thread, call)
  PROVE  \E after : /\ CallOK(after) /\ Same(call, after) /\ Goto(thread, after)
                    /\ undefined' \in BOOLEAN
<1>1. PICK inside \in BOOLEAN : Goto(thread, [call EXCEPT !.inside = inside])
  BY DEF Enter, Leave
<1>2. undefined' \in BOOLEAN
  BY DEF Enter, Leave, TypeOK
<1> DEFINE after == [call EXCEPT !.inside = inside]
<1>3. after \in Call /\ Same(call, after)
  BY DEF CallOK, Call, Same
<1> HIDE DEF after
<1>4. CallOK(after)
  BY <1>3 DEF CallOK, Same, Recording
<1> QED BY <1>1, <1>2, <1>3, <1>4 DEF after

LEMMA Went ==
  ASSUME TypeOK, NEW thread \in Thread, NEW call, Goto(thread, call)
  PROVE  /\ \A t \in Thread : task'[t] = IF t = thread THEN call ELSE task[t]
         /\ call \in Call => task' \in [Thread -> Call]
BY DEF TypeOK, Goto

\* Orders leave a book, and take nothing with them.
Fewer(map, smaller) ==
  /\ DOMAIN smaller = DOMAIN map
  /\ \A ticker \in DOMAIN map : /\ DOMAIN smaller[ticker] \subseteq DOMAIN map[ticker]
                                /\ \A id \in DOMAIN smaller[ticker] :
                                     smaller[ticker][id] = map[ticker][id]

LEMMA WithoutIsFewer ==
  ASSUME NEW ticker, NEW id
  PROVE  Fewer(order_node_map, order_node_map) /\ Fewer(order_node_map, Without(ticker, id))
BY DEF Fewer, Without, Restrict

\* Users have entries that had none, with nothing in them.
EntriesAdded ==
  /\ DOMAIN trades_by_user \subseteq DOMAIN trades_by_user' /\ DOMAIN trades_by_user' \subseteq User
  /\ \A user \in DOMAIN trades_by_user' :
       trades_by_user'[user] = IF user \in DOMAIN trades_by_user THEN trades_by_user[user] ELSE <<>>

\* A step that makes no trade, gives out no id and records nothing.
Calm(thread, after) ==
  /\ CallOK(after) /\ Goto(thread, after) /\ undefined' \in BOOLEAN
  /\ after.trades = task[thread].trades
  /\ after.step \in {"ask find", "ask push"} <=> task[thread].step \in {"ask find", "ask push"}
  /\ InVector(after) => Party(after) \in DOMAIN trades_by_user'
  /\ EntriesAdded
  /\ Fewer(order_node_map, order_node_map')
  /\ UNCHANGED <<filled_trades, id_counter>>

\* A step of another call than a registration.
NoRegistration(thread, after) ==
  /\ UNCHANGED <<users, granted, contested>>
  /\ \A user : Inserts(after, user) <=> Inserts(task[thread], user)

\* The steps of calls that trade, rest or record nothing now.
CalmStep(thread) ==
  \/ GoOn(thread)
  \/ \E user \in User, side \in Side, ticker \in Ticker \cup {NoTicker} :
       HandleOrder(thread, user, side, ticker)
  \/ \E ticker \in Ticker \cup {NoTicker}, step \in {"in book", "reading book"} :
       UseBook(thread, ticker, step)
  \/ \E id \in 1..MaxId : CancelOrder(thread, id)
  \/ LeaveBook(thread)
  \/ FindEntry(thread)
  \/ \E user \in User, step \in {"trades find", "user find"} : LookUp(thread, user, step)
  \/ GetTradesByUser(thread)

LEMMA NoEntries == TypeOK /\ UNCHANGED trades_by_user => EntriesAdded
BY DEF TypeOK, EntriesAdded

\* A call that begins or ends.
LEMMA CalmMoves ==
  ASSUME BooksInv, NEW thread \in Thread, NEW call, CallOK(call),
         Enter(thread, call) \/ Leave(thread, call),
         call.trades = task[thread].trades,
         call.step \in {"ask find", "ask push"} <=> task[thread].step \in {"ask find", "ask push"},
         InVector(call) => Party(call) \in DOMAIN trades_by_user',
         EntriesAdded, Fewer(order_node_map, order_node_map'),
         UNCHANGED <<filled_trades, id_counter>>
  PROVE  \E after : Calm(thread, after) /\ Same(call, after)
<1>1. PICK after : /\ CallOK(after) /\ Same(call, after) /\ Goto(thread, after)
                   /\ undefined' \in BOOLEAN
  BY Moves DEF BooksInv
<1>2. Calm(thread, after)
  BY <1>1, SameParty DEF Calm, Same
<1> QED BY <1>1, <1>2

LEMMA CalmSteps ==
  ASSUME BooksInv, NEW thread \in Thread, CalmStep(thread)
  PROVE  \E after : Calm(thread, after) /\ NoRegistration(thread, after)
<1> DEFINE before == task[thread]
<1>1. TypeOK /\ CallOK(before)
  BY DEF BooksInv, CallsOK
<1>2. Fewer(order_node_map, order_node_map)
  BY WithoutIsFewer
<1>3. ~undefined /\ before.step = "idle" => before.trades = <<>>
  BY <1>1 DEF CallOK, Recording
\* Steps that keep the entries, of calls that insert nobody.
<1>4. ASSUME NEW call, CallOK(call), Enter(thread, call) \/ Leave(thread, call),
             call.trades = before.trades,
             call.step \in {"ask find", "ask push"} <=> before.step \in {"ask find", "ask push"},
             InVector(call) => Party(call) \in DOMAIN trades_by_user,
             UNCHANGED trades_by_user, Fewer(order_node_map, order_node_map'),
             UNCHANGED <<filled_trades, id_counter, users, granted, contested>>,
             \A user : Inserts(call, user) <=> Inserts(before, user)
      PROVE  \E after : Calm(thread, after) /\ NoRegistration(thread, after)
  <2>1. PICK after : Calm(thread, after) /\ Same(call, after)
    BY <1>1, <1>4, NoEntries, CalmMoves
  <2>2. NoRegistration(thread, after)
    BY <1>4, <2>1 DEF NoRegistration, Same, Inserts
  <2> QED BY <2>1, <2>2
<1>5. CASE GoOn(thread)
  <2>1. Enter(thread, before) /\ UNCHANGED <<books, trades_by_user, users, granted, contested>>
    BY <1>5 DEF GoOn
  <2>2. InVector(before) => Party(before) \in DOMAIN trades_by_user
    BY <1>1 DEF TypeOK
  <2> HIDE DEF before
  <2> QED BY <1>1, <1>2, <1>4, <2>1, <2>2 DEF books
<1>6. CASE \E user \in User, side \in Side, ticker \in Ticker \cup {NoTicker} :
             HandleOrder(thread, user, side, ticker)
  <2>1. PICK user \in User, side \in Side, ticker \in Ticker \cup {NoTicker} :
               HandleOrder(thread, user, side, ticker)
    BY <1>6
  <2> DEFINE call == [NoTask EXCEPT !.step = "matching", !.user = user, !.ticker = ticker,
                                    !.side = side]
  <2>2. /\ ticker \in Ticker /\ ~undefined /\ before.step = "idle" /\ Enter(thread, call)
        /\ UNCHANGED <<books, trades_by_user, users, granted, contested>>
    BY <2>1 DEF HandleOrder, TickerFound, Idle
  <2>3. CallOK(call) /\ call.step = "matching" /\ call.trades = <<>>
    BY <2>2, NewCall DEF NoTask, CallOK, Call, Steps, Recording
  <2> HIDE DEF call, before
  <2> QED BY <1>2, <1>3, <1>4, <2>2, <2>3 DEF books, InVector, Inserts
<1>7. CASE \E ticker \in Ticker \cup {NoTicker}, step \in {"in book", "reading book"} :
             UseBook(thread, ticker, step)
  <2>1. PICK ticker \in Ticker \cup {NoTicker}, step \in {"in book", "reading book"} :
               UseBook(thread, ticker, step)
    BY <1>7
  <2> DEFINE call == [NoTask EXCEPT !.step = step, !.ticker = ticker]
  <2>2. /\ ticker \in Ticker /\ ~undefined /\ before.step = "idle" /\ Enter(thread, call)
        /\ UNCHANGED <<books, trades_by_user, users, granted, contested>>
    BY <2>1 DEF UseBook, TickerFound, Idle
  <2>3. CallOK(call) /\ call.step = step /\ call.trades = <<>>
    BY <2>2, NewCall DEF NoTask, CallOK, Call, Steps, Recording
  <2> HIDE DEF call, before
  <2> QED BY <1>2, <1>3, <1>4, <2>2, <2>3 DEF books, InVector, Inserts
<1>8. CASE \E user \in User, step \in {"trades find", "user find"} : LookUp(thread, user, step)
  <2>1. PICK user \in User, step \in {"trades find", "user find"} : LookUp(thread, user, step)
    BY <1>8
  <2> DEFINE call == [NoTask EXCEPT !.step = step, !.user = user]
  <2>2. /\ ~undefined /\ before.step = "idle" /\ Enter(thread, call)
        /\ UNCHANGED <<books, trades_by_user, users, granted, contested>>
    BY <2>1 DEF LookUp, Idle
  <2>3. CallOK(call) /\ call.step = step /\ call.trades = <<>>
    BY <2>2, NewCall DEF NoTask, CallOK, Call, Steps, Recording
  <2> HIDE DEF call, before
  <2> QED BY <1>2, <1>3, <1>4, <2>2, <2>3 DEF books, InVector, Inserts
\* The calls that end here, without a trade.
<1>9. ASSUME Leave(thread, NoTask),
             before.step \in {"in book", "reading book", "trades find", "trades copy"},
             UNCHANGED trades_by_user, Fewer(order_node_map, order_node_map'),
             UNCHANGED <<filled_trades, id_counter, users, granted, contested>>
      PROVE  \E after : Calm(thread, after) /\ NoRegistration(thread, after)
  <2>1. before.trades = <<>>
    BY <1>1, <1>9 DEF CallOK, Recording
  <2> HIDE DEF before
  <2> QED BY <1>4, <1>9, <2>1, NewCall DEF InVector, Inserts
<1>10. CASE \E id \in 1..MaxId : CancelOrder(thread, id)
  <2>1. PICK id \in 1..MaxId : CancelOrder(thread, id)
    BY <1>10
  <2> QED BY <1>9, <2>1, WithoutIsFewer DEF CancelOrder, Done
<1>11. CASE LeaveBook(thread)
  BY <1>2, <1>9, <1>11 DEF LeaveBook, Done, books
<1>12. CASE FindEntry(thread)
  <2> DEFINE call == [before EXCEPT !.step = IF @ = "bid find" THEN "bid push" ELSE "ask push"]
  <2>1. /\ before.step \in {"bid find", "ask find"} /\ Leave(thread, call)
        /\ UNCHANGED <<books, users, granted, contested>>
    BY <1>12 DEF FindEntry, Done
  <2>2. Party(before) \in User
    BY <1>1, <2>1, PartyProperties DEF Recording
  <2>3. EntriesAdded /\ Party(before) \in DOMAIN trades_by_user'
    <3>1. trades_by_user' =
           [user \in DOMAIN trades_by_user \cup {Party(before)} |->
              IF user \in DOMAIN trades_by_user THEN trades_by_user[user] ELSE <<>>]
      BY <1>12 DEF FindEntry
    <3> HIDE DEF before
    <3> QED BY <1>1, <2>2, <3>1 DEF EntriesAdded, TypeOK
  <2>4. /\ call.trades = before.trades /\ call \in Call
        /\ call.step = IF before.step = "bid find" THEN "bid push" ELSE "ask push"
    BY <1>1, <2>1 DEF CallOK, Call, Steps
  <2> HIDE DEF call
  <2>5. CallOK(call)
    BY <1>1, <2>1, <2>4 DEF CallOK, Recording
  <2>6. Party(call) = Party(before)
    BY <2>1, <2>4 DEF Party
  <2> HIDE DEF before
  <2>7. PICK after : Calm(thread, after) /\ Same(call, after)
    BY <1>2, <2>1, <2>3, <2>4, <2>5, <2>6, CalmMoves DEF books, before
  <2>8. NoRegistration(thread, after)
    BY <2>1, <2>4, <2>7 DEF NoRegistration, Same, Inserts, before
  <2> QED BY <2>7, <2>8
<1>13. CASE GetTradesByUser(thread)
  <2>1. CASE Leave(thread, NoTask)
    BY <1>2, <1>9, <1>13, <2>1 DEF GetTradesByUser, Done, books
  <2>2. CASE ~Leave(thread, NoTask)
    <3> DEFINE call == [before EXCEPT !.step = "trades copy"]
    <3>1. /\ before.step = "trades find" /\ before.user \in DOMAIN trades_by_user
          /\ Leave(thread, call)
          /\ UNCHANGED <<books, trades_by_user, users, granted, contested>>
      BY <1>13, <2>2 DEF GetTradesByUser, Done
    <3>2. /\ call.trades = before.trades /\ call \in Call /\ call.step = "trades copy"
          /\ call.user = before.user
      BY <1>1 DEF CallOK, Call, Steps
    <3> HIDE DEF call
    <3>3. CallOK(call)
      BY <1>1, <3>1, <3>2 DEF CallOK, Recording
    <3>4. Party(call) = before.user
      BY <3>2 DEF Party
    <3> HIDE DEF before
    <3> QED BY <1>2, <1>4, <3>1, <3>2, <3>3, <3>4 DEF books, Inserts
  <2> QED BY <2>1, <2>2
<1> QED BY <1>5, <1>6, <1>7, <1>8, <1>10, <1>11, <1>12, <1>13 DEF CalmStep

\* A registration that ends, or goes on, or inserts the user.
LEMMA RegistrationSteps ==
  ASSUME BooksInv, NEW thread \in Thread, RegisterUser(thread) \/ EmplaceUser(thread)
  PROVE  \E after :
           /\ Calm(thread, after)
           /\ users' \subseteq User /\ granted' \in [User -> Nat] /\ contested' \subseteq User
           /\ \/ NoRegistration(thread, after)
              \/ RegisterUser(thread) /\ after.step = "user emplace"
                   /\ after.user = task[thread].user
              \/ EmplaceUser(thread) /\ after.step = "idle"
<1> DEFINE before == task[thread]
<1>1. /\ TypeOK /\ CallOK(before) /\ before.user \in User
      /\ before.trades = <<>> /\ before.step \in {"user find", "user emplace"}
  BY DEF BooksInv, CallsOK, CallOK, RegisterUser, EmplaceUser, Done, Recording
<1>2. Fewer(order_node_map, order_node_map)
  BY WithoutIsFewer
<1>3. UNCHANGED <<order_node_map, filled_trades, id_counter, trades_by_user>>
  BY DEF RegisterUser, EmplaceUser, books
<1>4. users' \subseteq User /\ granted' \in [User -> Nat] /\ contested' \subseteq User
  <2>1. CASE RegisterUser(thread)
    BY <1>1, <2>1 DEF RegisterUser, TypeOK
  <2>2. CASE EmplaceUser(thread)
    <3>1. /\ users' = users \cup {before.user} /\ contested' = contested
          /\ granted' = [granted EXCEPT ![before.user] = @ + 1]
      BY <2>2 DEF EmplaceUser
    <3>2. users \subseteq User /\ contested \subseteq User /\ granted \in [User -> Nat]
      BY <1>1 DEF TypeOK
    <3>3. before.user \in User
      BY <1>1
    <3> HIDE DEF before
    <3>4. granted' \in [User -> Nat]
      BY <3>1, <3>2, <3>3
    <3> QED BY <3>1, <3>2, <3>3, <3>4
  <2> QED BY <2>1, <2>2
<1>5. ASSUME NEW call, CallOK(call), Leave(thread, call), call.trades = <<>>,
             call.step \in {"idle", "user emplace"}
      PROVE  \E after : Calm(thread, after) /\ Same(call, after)
  <2>1. ~InVector(call) /\ call.step \notin {"ask find", "ask push"}
    BY <1>5 DEF InVector
  <2> QED BY <1>1, <1>2, <1>3, <1>5, <2>1, NoEntries, CalmMoves
<1>6. CASE RegisterUser(thread) /\ Leave(thread, NoTask) /\ UNCHANGED contested
  <2>1. PICK after : Calm(thread, after) /\ Same(NoTask, after)
    BY <1>5, <1>6, NewCall
  <2>2. NoRegistration(thread, after)
    BY <1>6, <2>1, NewCall DEF RegisterUser, Done, NoRegistration, Same, Inserts
  <2> QED BY <1>4, <2>1, <2>2
<1>7. CASE RegisterUser(thread) /\ Leave(thread, [before EXCEPT !.step = "user emplace"])
  <2> DEFINE call == [before EXCEPT !.step = "user emplace"]
  <2>1. call \in Call /\ call.trades = <<>> /\ call.step = "user emplace" /\ call.user = before.user
    BY <1>1 DEF CallOK, Call, Steps
  <2> HIDE DEF call
  <2>2. CallOK(call)
    BY <1>1, <2>1 DEF CallOK, Recording
  <2>3. PICK after : Calm(thread, after) /\ Same(call, after)
    BY <1>5, <1>7, <2>1, <2>2 DEF call
  <2> QED BY <1>4, <1>7, <2>1, <2>3 DEF Same
<1>8. CASE EmplaceUser(thread)
  <2>1. Leave(thread, NoTask)
    BY <1>8 DEF EmplaceUser
  <2>2. PICK after : Calm(thread, after) /\ Same(NoTask, after)
    BY <1>5, <2>1, NewCall
  <2> QED BY <1>4, <1>8, <2>2, NewCall DEF Same
<1> QED BY <1>6, <1>7, <1>8 DEF RegisterUser

-----------------------------------------------------------------------------
(* The types and the ids.                                                  *)

LEMMA Types ==
  ASSUME BooksInv
  PROVE  /\ TypeOK /\ task \in [Thread -> Call]
         /\ \A t \in Thread :
              /\ CallOK(task[t]) /\ task[t] \in Call /\ task[t].trades \in Seq(Trade)
              /\ InVector(task[t]) => Party(task[t]) \in DOMAIN trades_by_user
         /\ filled_trades \in [Ticker -> Seq(Trade)]
         /\ granted \in [User -> Nat]
         /\ users \subseteq User /\ contested \subseteq User
BY DEF BooksInv, CallsOK, TypeOK, Call

LEMMA InitBooks == Init => BooksInv
<1> SUFFICES ASSUME Init PROVE BooksInv
  OBVIOUS
<1>1. TypeOK
  <2>1. filled_trades \in [Ticker -> Seq(Trade)]
    BY EmptySeq DEF Init
  <2>2. /\ task \in [Thread -> Call]
        /\ \A thread \in Thread : ~Recording(task[thread]) /\ ~InVector(task[thread])
    BY NewCall DEF Init, CallOK, Recording, InVector
  <2>3. /\ DOMAIN order_node_map = Ticker
        /\ \A ticker \in Ticker : DOMAIN order_node_map[ticker] = {}
    BY DEF Init
  <2>4. id_counter \in 0..MaxId /\ granted \in [User -> Nat] /\ users = {} /\ contested = {}
    BY ExchangeAssumption DEF Init
  <2>5. DOMAIN trades_by_user = {}
    BY DEF Init
  <2>6. undefined \in BOOLEAN
    BY DEF Init
  <2> QED BY <2>1, <2>2, <2>3, <2>4, <2>5, <2>6 DEF TypeOK
<1>2. CallsOK
  BY NewCall DEF Init, CallsOK
<1>3. \A ticker \in Ticker : DOMAIN order_node_map[ticker] = {} /\ DOMAIN filled_trades[ticker] = {}
  BY DEF Init
<1>4. IdsOK /\ UniqueIds
  BY <1>3 DEF IdsOK, UniqueIds, OrderId, TradeId
<1> QED BY <1>1, <1>2, <1>4 DEF BooksInv

\* Fewer orders have fewer ids.
LEMMA FewerOrders ==
  ASSUME BooksInv, Fewer(order_node_map, order_node_map')
  PROVE  /\ DOMAIN order_node_map' = Ticker
         /\ \A ticker \in Ticker : \A id \in DOMAIN order_node_map'[ticker] :
              /\ id \in DOMAIN order_node_map[ticker] /\ id \in 1..id_counter
              /\ id \in Nat /\ order_node_map'[ticker][id] \in Order
BY DEF Fewer, BooksInv, TypeOK, IdsOK

\* What a step of one call leaves of the calls and the entries.
LEMMA CallsStay ==
  ASSUME BooksInv, NEW thread \in Thread, NEW after, CallOK(after), Goto(thread, after),
         InVector(after) => Party(after) \in DOMAIN trades_by_user',
         DOMAIN trades_by_user \subseteq DOMAIN trades_by_user'
  PROVE  /\ CallsOK' /\ task' \in [Thread -> Call]
         /\ \A t \in Thread :
              /\ Recording(task'[t]) => task'[t].trades # <<>>
              /\ InVector(task'[t]) => Party(task'[t]) \in DOMAIN trades_by_user'
<1>1. /\ \A t \in Thread : task'[t] = IF t = thread THEN after ELSE task[t]
      /\ task' \in [Thread -> Call]
  BY Types, Went DEF CallOK
<1>2. \A t \in Thread : CallOK(task'[t])
  BY <1>1, Types
<1>3. \A t \in Thread : InVector(task'[t]) => Party(task'[t]) \in DOMAIN trades_by_user'
  BY <1>1, Types
<1> QED BY <1>1, <1>2, <1>3 DEF CallsOK, CallOK

LEMMA CalmKeepsBooks ==
  ASSUME BooksInv, NEW thread \in Thread, NEW after, Calm(thread, after),
         users' \subseteq User, granted' \in [User -> Nat], contested' \subseteq User
  PROVE  BooksInv'
<1>1. /\ CallsOK' /\ task' \in [Thread -> Call]
      /\ \A t \in Thread :
           /\ Recording(task'[t]) => task'[t].trades # <<>>
           /\ InVector(task'[t]) => Party(task'[t]) \in DOMAIN trades_by_user'
  BY CallsStay DEF Calm, EntriesAdded
<1>2. Fewer(order_node_map, order_node_map') /\ UNCHANGED <<filled_trades, id_counter>>
      /\ undefined' \in BOOLEAN
  BY DEF Calm
<1>3. /\ DOMAIN trades_by_user' \subseteq User
      /\ \A user \in DOMAIN trades_by_user' : trades_by_user'[user] \in Seq(Trade)
  BY EmptySeq, Types DEF Calm, EntriesAdded, TypeOK
<1>4. TypeOK'
  BY <1>1, <1>2, <1>3, FewerOrders DEF BooksInv, TypeOK
<1>5. IdsOK'
  BY <1>2, FewerOrders DEF BooksInv, IdsOK
<1>6. UniqueIds'
  BY <1>2, FewerOrders DEF BooksInv, UniqueIds, OrderId, TradeId
<1> QED BY <1>1, <1>4, <1>5, <1>6 DEF BooksInv

\* What a trade changes: the book has one more, with the next id, and so has the
\* call.
Traded(thread, trade, call) ==
  /\ trade \in Trade /\ CallOK(call)
  /\ id_counter' = id_counter + 1 /\ id_counter' \in 0..MaxId
  /\ trade.trade_id = id_counter + 1
  /\ trade.bid_user_id # trade.ask_user_id
  /\ task[thread].step = "matching" /\ task[thread].ticker \in Ticker
  /\ filled_trades' = [filled_trades EXCEPT ![task[thread].ticker] = Append(@, trade)]
  /\ Goto(thread, call) /\ undefined' \in BOOLEAN
  /\ call.trades = Append(task[thread].trades, trade)
  /\ call.step \in {"matching", "bid find"}
  /\ Fewer(order_node_map, order_node_map')
  /\ UNCHANGED <<trades_by_user, users, granted, contested>>

LEMMA BookTradesProperties ==
  ASSUME BooksInv, NEW thread \in Thread, NEW id \in 1..MaxId, BookTrades(thread, id)
  PROVE  \E trade, call : Traded(thread, trade, call)
<1> DEFINE call == task[thread]
           other == order_node_map[call.ticker][id]
           trade == [trade_id |-> id_counter + 1,
                     bid_user_id |-> IF call.side = "BID" THEN call.user ELSE other.user_id,
                     ask_user_id |-> IF call.side = "BID" THEN other.user_id ELSE call.user]
           trades == Append(call.trades, trade)
<1>1. /\ call.step = "matching"
      /\ id \in DOMAIN order_node_map[call.ticker]
      /\ other.user_id # call.user
      /\ filled_trades' = [filled_trades EXCEPT ![call.ticker] = Append(@, trade)]
      /\ UNCHANGED <<trades_by_user, users, granted, contested>>
  BY DEF BookTrades, Done
<1>2. /\ call \in Call /\ call.trades \in Seq(Trade) /\ call.user \in User
      /\ call.ticker \in Ticker /\ CallOK(call)
  BY <1>1, Types DEF CallOK
<1>3. other \in Order
  BY <1>1, <1>2 DEF BooksInv, TypeOK
<1>4. id_counter \in Nat /\ id_counter' = id_counter + 1 /\ id_counter' \in 0..MaxId
  BY ExchangeAssumption DEF BookTrades, GenerateId, BooksInv, TypeOK
<1>5. /\ trade \in Trade /\ trade.trade_id = id_counter + 1
      /\ trade.bid_user_id # trade.ask_user_id
  <2> HIDE DEF other, call
  <2> QED BY <1>1, <1>2, <1>3, <1>4 DEF Trade, Order
<1>6. trades \in Seq(Trade) /\ trades # <<>>
  <2> HIDE DEF trade, call
  <2> QED BY <1>2, <1>5, Appended
<1>7. \/ /\ order_node_map' = Without(call.ticker, id)
         /\ Goto(thread, [call EXCEPT !.trades = trades])
         /\ UNCHANGED undefined
      \/ /\ order_node_map' \in {order_node_map, Without(call.ticker, id)}
         /\ Leave(thread, Record(call, trades))
  BY DEF BookTrades
<1> HIDE DEF trade, trades
<1>8. Fewer(order_node_map, order_node_map')
  BY <1>7, WithoutIsFewer
<1>9. CASE Goto(thread, [call EXCEPT !.trades = trades]) /\ UNCHANGED undefined
  <2> DEFINE after == [call EXCEPT !.trades = trades]
  <2>1. /\ after \in Call /\ after.trades = trades /\ after.step = "matching"
        /\ after.user \in User /\ after.ticker \in Ticker
    BY <1>1, <1>2, <1>6 DEF Call
  <2>2. undefined' \in BOOLEAN
    BY <1>9, Types DEF TypeOK
  <2> HIDE DEF after
  <2>3. CallOK(after)
    BY <2>1 DEF CallOK, Recording
  <2>4. Traded(thread, trade, after)
    BY <1>1, <1>2, <1>4, <1>5, <1>8, <1>9, <2>1, <2>2, <2>3 DEF Traded, after, trades
  <2> QED BY <1>5, <2>4
<1>10. CASE Leave(thread, Record(call, trades))
  <2>1. /\ CallOK(Record(call, trades)) /\ Record(call, trades).trades = trades
        /\ Record(call, trades).step = "bid find"
    <3>1. CallOK(Record(call, trades)) /\ Record(call, trades).trades = trades
      BY <1>2, <1>6, RecordProperties
    <3>2. Record(call, trades).step = "bid find"
      BY <1>2, <1>6 DEF Record, Call
    <3> QED BY <3>1, <3>2
  <2>2. PICK after : /\ CallOK(after) /\ Same(Record(call, trades), after) /\ Goto(thread, after)
                     /\ undefined' \in BOOLEAN
    BY <1>10, <2>1, Moves, Types
  <2>3. Traded(thread, trade, after)
    BY <1>1, <1>2, <1>4, <1>5, <1>8, <2>1, <2>2 DEF Traded, Same, trades
  <2> QED BY <1>5, <2>3
<1> QED BY <1>7, <1>9, <1>10

\* A trade's place in its book is new; all others stay.
LEMMA TradedPlaces ==
  ASSUME BooksInv, NEW thread \in Thread, NEW trade, NEW call,
         Traded(thread, trade, call), NEW ticker \in Ticker
  PROVE  /\ filled_trades[ticker] \in Seq(Trade) /\ filled_trades'[ticker] \in Seq(Trade)
         /\ \A i \in DOMAIN filled_trades[ticker] :
              /\ i \in DOMAIN filled_trades'[ticker]
              /\ filled_trades'[ticker][i] = filled_trades[ticker][i]
         /\ ticker # task[thread].ticker => filled_trades'[ticker] = filled_trades[ticker]
         /\ ticker = task[thread].ticker =>
              /\ Len(filled_trades[ticker]) + 1 \in DOMAIN filled_trades'[ticker]
              /\ filled_trades'[ticker][Len(filled_trades[ticker]) + 1] = trade
              /\ \A i \in DOMAIN filled_trades'[ticker] :
                   i \in DOMAIN filled_trades[ticker] \/ i = Len(filled_trades[ticker]) + 1
<1>1. filled_trades[ticker] \in Seq(Trade) /\ trade \in Trade
  BY Types DEF Traded
<1>2. filled_trades'[ticker] = IF ticker = task[thread].ticker
                              THEN Append(filled_trades[ticker], trade) ELSE filled_trades[ticker]
  BY Types DEF Traded
<1>3. CASE ticker # task[thread].ticker
  BY <1>1, <1>2, <1>3
<1>4. CASE ticker = task[thread].ticker
  <2> DEFINE s == filled_trades[ticker]
  <2>1. /\ Append(s, trade) \in Seq(Trade) /\ Len(s) \in Nat /\ DOMAIN s = 1..Len(s)
        /\ DOMAIN Append(s, trade) = 1..(Len(s) + 1)
        /\ Append(s, trade)[Len(s) + 1] = trade
        /\ \A i \in 1..Len(s) : Append(s, trade)[i] = s[i]
    BY <1>1, Appended
  <2>2. filled_trades'[ticker] = Append(s, trade)
    BY <1>2, <1>4
  <2> HIDE DEF s
  <2>3. /\ s \in Seq(Trade) /\ filled_trades'[ticker] \in Seq(Trade)
        /\ \A i \in DOMAIN s :
             i \in DOMAIN filled_trades'[ticker] /\ filled_trades'[ticker][i] = s[i]
        /\ Len(s) + 1 \in DOMAIN filled_trades'[ticker]
        /\ filled_trades'[ticker][Len(s) + 1] = trade
        /\ \A i \in DOMAIN filled_trades'[ticker] : i \in DOMAIN s \/ i = Len(s) + 1
    BY <1>1, <2>1, <2>2 DEF s
  <2> QED BY <1>4, <2>3 DEF s
<1> QED BY <1>3, <1>4

LEMMA TradeKeepsBooks ==
  ASSUME BooksInv, NEW thread \in Thread, NEW id \in 1..MaxId, BookTrades(thread, id)
  PROVE  BooksInv'
<1>1. PICK trade, call : Traded(thread, trade, call)
  BY BookTradesProperties
<1> DEFINE book == task[thread].ticker
<1>2. ~InVector(call) /\ UNCHANGED trades_by_user
  BY <1>1 DEF Traded, InVector
<1>3. /\ CallsOK' /\ task' \in [Thread -> Call]
      /\ \A t \in Thread :
           /\ Recording(task'[t]) => task'[t].trades # <<>>
           /\ InVector(task'[t]) => Party(task'[t]) \in DOMAIN trades_by_user'
  BY <1>1, <1>2, CallsStay DEF Traded
<1>4. TypeOK'
  <2>1. filled_trades' \in [Ticker -> Seq(Trade)]
    <3>1. filled_trades' = [ticker \in Ticker |-> filled_trades'[ticker]]
      BY <1>1, Types DEF Traded
    <3>2. \A ticker \in Ticker : filled_trades'[ticker] \in Seq(Trade)
      BY <1>1, TradedPlaces
    <3> QED BY <3>1, <3>2
  <2>2. /\ id_counter' \in 0..MaxId /\ undefined' \in BOOLEAN
        /\ UNCHANGED <<trades_by_user, users, granted, contested>>
        /\ Fewer(order_node_map, order_node_map')
    BY <1>1 DEF Traded
  <2> QED BY <1>3, <2>1, <2>2, FewerOrders DEF BooksInv, TypeOK
<1>6. /\ Fewer(order_node_map, order_node_map') /\ id_counter \in Nat
      /\ id_counter' = id_counter + 1 /\ trade.trade_id = id_counter + 1 /\ book \in Ticker
  <2>1. id_counter \in Nat
    BY DEF BooksInv, TypeOK
  <2> QED BY <1>1, <2>1 DEF Traded
<1>7. \A ticker \in Ticker : \A i \in DOMAIN filled_trades'[ticker] :
        \/ /\ i \in DOMAIN filled_trades[ticker]
           /\ filled_trades'[ticker][i] = filled_trades[ticker][i]
           /\ filled_trades[ticker][i].trade_id \in 1..id_counter
        \/ /\ i = Len(filled_trades[book]) + 1 /\ ticker = book
           /\ filled_trades'[ticker][i] = trade
  <2> TAKE ticker \in Ticker
  <2> TAKE i \in DOMAIN filled_trades'[ticker]
  <2>1. i \in DOMAIN filled_trades[ticker]
        \/ (ticker = book /\ i = Len(filled_trades[ticker]) + 1)
    <3>1. CASE ticker = book
      BY <1>1, <3>1, TradedPlaces
    <3>2. CASE ticker # book
      BY <1>1, <3>2, TradedPlaces
    <3> QED BY <3>1, <3>2
  <2> QED BY <1>1, <2>1, TradedPlaces DEF BooksInv, IdsOK
<1>8. IdsOK'
  BY <1>6, <1>7, FewerOrders DEF IdsOK
<1>9. UniqueIds'
  <2> HIDE DEF book
  <2> SUFFICES ASSUME NEW t1 \in Ticker, NEW t2 \in Ticker, NEW n \in 1..(id_counter + 1)
               PROVE  /\ OrderId(t1, n)' /\ OrderId(t2, n)' => t1 = t2
                      /\ \A i \in DOMAIN filled_trades'[t1] : TradeId(t1, i, n)' =>
                           /\ ~OrderId(t2, n)'
                           /\ \A j \in DOMAIN filled_trades'[t2] : TradeId(t2, j, n)' =>
                                t1 = t2 /\ i = j
    BY <1>6 DEF UniqueIds
  <2>1. \A ticker \in Ticker : OrderId(ticker, n)' => OrderId(ticker, n) /\ n \in 1..id_counter
    BY <1>6, FewerOrders DEF OrderId
  <2>2. \A ticker \in Ticker : \A i \in DOMAIN filled_trades'[ticker] : TradeId(ticker, i, n)' =>
          \/ TradeId(ticker, i, n) /\ n \in 1..id_counter /\ i \in DOMAIN filled_trades[ticker]
          \/ n = id_counter + 1 /\ ticker = book /\ i = Len(filled_trades[book]) + 1
    BY <1>6, <1>7 DEF TradeId
  <2>3. id_counter + 1 \notin 1..id_counter
    BY <1>6
  <2> QED BY <2>1, <2>2, <2>3 DEF BooksInv, UniqueIds
<1> QED BY <1>3, <1>4, <1>8, <1>9 DEF BooksInv

\* The book that rests what is left of the order returns its trades.
LEMMA RestGoesOn ==
  ASSUME BooksInv, NEW thread \in Thread, BookRests(thread)
  PROVE  \E after : /\ CallOK(after) /\ after.step \in {"idle", "bid find"}
                    /\ after.trades = task[thread].trades
                    /\ Goto(thread, after) /\ undefined' \in BOOLEAN
<1> DEFINE call == Record(task[thread], task[thread].trades)
<1>1. Leave(thread, call)
  BY DEF BookRests
<1>2. /\ CallOK(call) /\ call.trades = task[thread].trades
      /\ call.step \in {"idle", "bid find"}
  BY Types, RecordProperties
<1> HIDE DEF call
<1>3. PICK after : /\ CallOK(after) /\ Same(call, after) /\ Goto(thread, after)
                   /\ undefined' \in BOOLEAN
  BY <1>1, <1>2, Moves, Types
<1> QED BY <1>2, <1>3 DEF Same

LEMMA RestKeepsBooks ==
  ASSUME BooksInv, NEW thread \in Thread, BookRests(thread)
  PROVE  BooksInv'
<1> DEFINE call == task[thread]
           order == [user_id |-> call.user, order_type |-> call.side]
           new == id_counter + 1
<1>1. /\ CallOK(call) /\ call \in Call /\ call.trades \in Seq(Trade)
      /\ call.user \in User /\ call.ticker \in Ticker
  BY Types DEF CallOK, BookRests, Done
<1>2. id_counter \in Nat /\ id_counter' = new /\ id_counter' \in 0..MaxId
  BY ExchangeAssumption DEF BookRests, GenerateId, BooksInv, TypeOK
<1>3. UNCHANGED <<filled_trades, trades_by_user, users, granted, contested>>
  BY DEF BookRests
<1>4. /\ CallsOK' /\ task' \in [Thread -> Call] /\ undefined' \in BOOLEAN
      /\ \A t \in Thread :
           /\ Recording(task'[t]) => task'[t].trades # <<>>
           /\ InVector(task'[t]) => Party(task'[t]) \in DOMAIN trades_by_user'
  <2>1. PICK after : /\ CallOK(after) /\ after.step \in {"idle", "bid find"}
                     /\ Goto(thread, after) /\ undefined' \in BOOLEAN
    BY RestGoesOn
  <2> QED BY <1>3, <2>1, CallsStay DEF InVector
<1>5. order \in Order
  BY <1>1 DEF Order, Call
<1> HIDE DEF order
<1>6. /\ DOMAIN order_node_map' = Ticker
      /\ \A ticker \in Ticker :
           /\ DOMAIN order_node_map'[ticker] =
                DOMAIN order_node_map[ticker] \cup IF ticker = call.ticker THEN {new} ELSE {}
           /\ \A id \in DOMAIN order_node_map'[ticker] :
                order_node_map'[ticker][id] \in {order, order_node_map[ticker][id]}
           /\ \A id \in DOMAIN order_node_map[ticker] :
                id \in 1..id_counter /\ order_node_map[ticker][id] \in Order
  <2>1. order_node_map' =
          [order_node_map EXCEPT ![call.ticker] =
             [id \in DOMAIN @ \cup {id_counter'} |-> IF id = id_counter' THEN order ELSE @[id]]]
    BY DEF BookRests, order
  <2>2. DOMAIN order_node_map = Ticker
        /\ \A ticker \in Ticker : \A id \in DOMAIN order_node_map[ticker] :
             id \in 1..id_counter /\ order_node_map[ticker][id] \in Order
    BY DEF BooksInv, TypeOK, IdsOK
  <2> HIDE DEF call
  <2> QED BY <1>2, <2>1, <2>2
<1>7. \A ticker \in Ticker : \A id \in DOMAIN order_node_map'[ticker] :
        /\ id \in 1..id_counter' /\ order_node_map'[ticker][id] \in Order
        /\ \/ id \in DOMAIN order_node_map[ticker] /\ id \in 1..id_counter
           \/ id = new /\ ticker = call.ticker
  <2> TAKE ticker \in Ticker
  <2> TAKE id \in DOMAIN order_node_map'[ticker]
  <2> HIDE DEF call
  <2>1. \/ id \in DOMAIN order_node_map[ticker] /\ id \in 1..id_counter
        \/ id = new /\ ticker = call.ticker
    BY <1>6
  <2>2. order_node_map'[ticker][id] \in Order
    <3>1. CASE id \in DOMAIN order_node_map[ticker]
      BY <1>5, <1>6, <3>1
    <3>2. CASE id \notin DOMAIN order_node_map[ticker]
      <4>1. id = new /\ ticker = call.ticker
        BY <2>1, <3>2
      <4>2. order_node_map' =
              [order_node_map EXCEPT ![call.ticker] =
                [k \in DOMAIN @ \cup {id_counter'} |-> IF k = id_counter' THEN order ELSE @[k]]]
        BY DEF BookRests, order, call
      <4>3. DOMAIN order_node_map = Ticker
        BY DEF BooksInv, TypeOK
      <4>4. order_node_map'[ticker][id] = order
        BY <1>2, <4>1, <4>2, <4>3
      <4> QED BY <1>5, <4>4
    <3> QED BY <3>1, <3>2
  <2> QED BY <1>2, <2>1, <2>2
<1>8. TypeOK'
  <2>1. \A ticker \in Ticker : \A id \in DOMAIN order_node_map'[ticker] :
          id \in Nat /\ order_node_map'[ticker][id] \in Order
    BY <1>2, <1>7
  <2> QED BY <1>2, <1>3, <1>4, <1>6, <2>1 DEF BooksInv, TypeOK
<1>9. IdsOK'
  BY <1>2, <1>3, <1>7 DEF BooksInv, IdsOK
<1>10. UniqueIds'
  <2> HIDE DEF call
  <2> SUFFICES ASSUME NEW t1 \in Ticker, NEW t2 \in Ticker, NEW n \in 1..new
               PROVE  /\ OrderId(t1, n)' /\ OrderId(t2, n)' => t1 = t2
                      /\ \A i \in DOMAIN filled_trades[t1] : TradeId(t1, i, n) =>
                           /\ ~OrderId(t2, n)'
                           /\ \A j \in DOMAIN filled_trades[t2] : TradeId(t2, j, n) =>
                                t1 = t2 /\ i = j
    BY <1>2, <1>3 DEF UniqueIds, TradeId
  <2>1. \A ticker \in Ticker : OrderId(ticker, n)' =>
          \/ OrderId(ticker, n) /\ n \in 1..id_counter
          \/ n = new /\ ticker = call.ticker
    BY <1>7 DEF OrderId
  <2>2. \A ticker \in Ticker : \A i \in DOMAIN filled_trades[ticker] :
          TradeId(ticker, i, n) => n \in 1..id_counter
    BY DEF BooksInv, IdsOK, TradeId
  <2>3. \A ticker \in Ticker : OrderId(ticker, n) => n \in 1..id_counter
    BY DEF BooksInv, IdsOK, OrderId
  <2>4. new \notin 1..id_counter
    BY <1>2
  <2> QED BY <2>1, <2>2, <2>3, <2>4 DEF BooksInv, UniqueIds
<1> QED BY <1>4, <1>8, <1>9, <1>10 DEF BooksInv

\* What PushTrade makes of the call.
Pushed(call) ==
  IF call.step = "bid push" THEN [call EXCEPT !.step = "ask find"]
  ELSE Record(call, Tail(call.trades))

LEMMA PushProperties ==
  ASSUME BooksInv, NEW thread \in Thread, PushTrade(thread)
  PROVE  LET call == task[thread]
         IN  /\ Recording(call) /\ call.step \in {"bid push", "ask push"}
             /\ Party(call) \in DOMAIN trades_by_user /\ Party(call) \in User
             /\ Head(call.trades) \in Trade
             /\ trades_by_user' =
                  [trades_by_user EXCEPT ![Party(call)] = Append(@, Head(call.trades))]
             /\ UNCHANGED <<books, users, granted, contested>>
             /\ CallOK(Pushed(call)) /\ Pushed(call).step \in {"ask find", "bid find", "idle"}
             /\ Pushed(call).trades = IF call.step = "bid push" THEN call.trades
                                      ELSE Tail(call.trades)
             /\ \E after : /\ CallOK(after) /\ Same(Pushed(call), after) /\ Goto(thread, after)
                           /\ undefined' \in BOOLEAN
<1> DEFINE call == task[thread]
<1>1. /\ call.step \in {"bid push", "ask push"} /\ Leave(thread, Pushed(call))
      /\ trades_by_user' = [trades_by_user EXCEPT ![Party(call)] = Append(@, Head(call.trades))]
      /\ UNCHANGED <<books, users, granted, contested>>
  BY DEF PushTrade, Done, Pushed
<1>2. Recording(call) /\ InVector(call) /\ CallOK(call)
  BY <1>1, Types DEF Recording, InVector
<1>3. /\ Party(call) \in DOMAIN trades_by_user /\ Party(call) \in User
      /\ Head(call.trades) \in Trade
  BY <1>2, PartyProperties, Types
<1>4. /\ CallOK(Pushed(call)) /\ Pushed(call).step \in {"ask find", "bid find", "idle"}
      /\ Pushed(call).trades = IF call.step = "bid push" THEN call.trades ELSE Tail(call.trades)
  <2>1. CASE call.step = "bid push"
    BY <1>2, <2>1 DEF CallOK, Call, Recording, Steps, Pushed
  <2>2. CASE call.step # "bid push"
    <3>1. Tail(call.trades) \in Seq(Trade)
      BY <1>2, Shortened DEF CallOK, Call
    <3> QED BY <1>2, <2>2, <3>1, RecordProperties DEF Pushed
  <2> QED BY <2>1, <2>2
<1>5. \E after : /\ CallOK(after) /\ Same(Pushed(call), after) /\ Goto(thread, after)
                /\ undefined' \in BOOLEAN
  BY <1>1, <1>4, Moves, Types
<1> QED BY <1>1, <1>2, <1>3, <1>4, <1>5

LEMMA PushKeepsBooks ==
  ASSUME BooksInv, NEW thread \in Thread, PushTrade(thread)
  PROVE  BooksInv'
<1> DEFINE call == task[thread]
           party == Party(call)
<1>1. /\ party \in DOMAIN trades_by_user /\ Head(call.trades) \in Trade
      /\ trades_by_user' = [trades_by_user EXCEPT ![party] = Append(@, Head(call.trades))]
      /\ UNCHANGED <<books, users, granted, contested>>
  BY PushProperties
<1>2. PICK after : /\ CallOK(after) /\ Same(Pushed(call), after) /\ Goto(thread, after)
                   /\ undefined' \in BOOLEAN
  BY PushProperties
<1>3. ~InVector(after)
  BY <1>2, PushProperties DEF Same, InVector
<1>4. /\ DOMAIN trades_by_user' = DOMAIN trades_by_user
      /\ \A user \in DOMAIN trades_by_user' : trades_by_user'[user] \in Seq(Trade)
  <2>1. \A user \in DOMAIN trades_by_user : trades_by_user[user] \in Seq(Trade)
    BY Types DEF TypeOK
  <2>2. Append(trades_by_user[party], Head(call.trades)) \in Seq(Trade)
    BY <1>1, <2>1, Appended
  <2> HIDE DEF party, call
  <2> QED BY <1>1, <2>1, <2>2
<1>5. /\ CallsOK' /\ task' \in [Thread -> Call]
      /\ \A t \in Thread :
           /\ Recording(task'[t]) => task'[t].trades # <<>>
           /\ InVector(task'[t]) => Party(task'[t]) \in DOMAIN trades_by_user'
  BY <1>2, <1>3, <1>4, CallsStay
<1>6. TypeOK'
  BY <1>1, <1>2, <1>4, <1>5 DEF BooksInv, TypeOK, books
<1>7. IdsOK' /\ UniqueIds'
  BY <1>1 DEF BooksInv, IdsOK, UniqueIds, OrderId, TradeId, books
<1> QED BY <1>5, <1>6, <1>7 DEF BooksInv

LEMMA BooksInductive == BooksInv /\ [Next]_vars => BooksInv'
<1> SUFFICES ASSUME BooksInv, [Next]_vars PROVE BooksInv'
  OBVIOUS
<1>1. CASE UNCHANGED vars
  BY <1>1 DEF vars, BooksInv, TypeOK, CallsOK, IdsOK, UniqueIds, OrderId, TradeId
<1>2. ASSUME NEW thread \in Thread, CalmStep(thread)
      PROVE  BooksInv'
  <2>1. PICK after : Calm(thread, after) /\ NoRegistration(thread, after)
    BY <1>2, CalmSteps
  <2>2. users' \subseteq User /\ granted' \in [User -> Nat] /\ contested' \subseteq User
    BY <2>1, Types DEF NoRegistration
  <2> QED BY <2>1, <2>2, CalmKeepsBooks
<1>3. ASSUME NEW thread \in Thread, RegisterUser(thread) \/ EmplaceUser(thread)
      PROVE  BooksInv'
  BY <1>3, RegistrationSteps, CalmKeepsBooks
<1>4. CASE NothingIsPromised
  BY <1>1, <1>4 DEF NothingIsPromised
<1> SUFFICES ASSUME NEW thread \in Thread, PushTrade(thread)
             PROVE  BooksInv'
  BY <1>1, <1>2, <1>3, <1>4, TradeKeepsBooks, RestKeepsBooks DEF Next, CalmStep
<1> QED BY PushKeepsBooks

LEMMA BooksInvariant == Spec => []BooksInv
BY InitBooks, BooksInductive, PTL DEF Spec

\* Types.
THEOREM TypeCorrect == Spec => []TypeOK
<1>1. BooksInv => TypeOK
  BY DEF BooksInv
<1> QED BY <1>1, BooksInvariant, PTL

\* The ids of all orders and trades of all books differ, however their matching
\* is interleaved: the counter is all the books share, and it is enough.
THEOREM IdsAreUnique == Spec => []IdsNeverRepeat
<1>1. BooksInv => IdsNeverRepeat
  BY DEF BooksInv, IdsNeverRepeat
<1> QED BY <1>1, BooksInvariant, PTL

-----------------------------------------------------------------------------
(* Registrations.                                                          *)

LEMMA OtherCallsKeepRegisters ==
  ASSUME BooksInv, RegistersOK, NEW thread \in Thread, NEW after,
         Goto(thread, after), NoRegistration(thread, after)
  PROVE  RegistersOK'
<1>1. \A t \in Thread, user \in User : Inserts(task'[t], user) <=> Inserts(task[t], user)
  BY Types, Went DEF NoRegistration
<1>2. UNCHANGED <<users, granted, contested>>
  BY DEF NoRegistration
<1> QED BY <1>1, <1>2 DEF RegistersOK

LEMMA RegistrationsKeepRegisters ==
  ASSUME BooksInv, RegistersOK, NEW thread \in Thread, RegisterUser(thread) \/ EmplaceUser(thread)
  PROVE  RegistersOK'
<1> DEFINE before == task[thread]
<1>1. PICK after : /\ Calm(thread, after)
                   /\ \/ NoRegistration(thread, after)
                      \/ RegisterUser(thread) /\ after.step = "user emplace"
                           /\ after.user = before.user
                      \/ EmplaceUser(thread) /\ after.step = "idle"
  BY RegistrationSteps
<1>2. Goto(thread, after) /\ \A t \in Thread : task'[t] = IF t = thread THEN after ELSE task[t]
  BY <1>1, Types, Went DEF Calm
<1>3. CASE NoRegistration(thread, after)
  BY <1>2, <1>3, OtherCallsKeepRegisters
<1>4. CASE /\ RegisterUser(thread) /\ after.step = "user emplace" /\ after.user = before.user
           /\ ~NoRegistration(thread, after)
  <2>1. \A t \in Thread, u \in User :
          Inserts(task'[t], u) <=> IF t = thread THEN u = before.user ELSE Inserts(task[t], u)
    BY <1>2, <1>4 DEF Inserts
  <2>2. UNCHANGED <<users, granted>> /\ before.step = "user find"
    BY <1>4 DEF RegisterUser, Done
  <2>3. before.user \notin users
    <3>1. CASE Leave(thread, NoTask) /\ UNCHANGED contested
      <4>1. after.step = "idle"
        <5>1. Goto(thread, [NoTask EXCEPT !.inside = FALSE])
          BY <3>1 DEF Leave
        <5>2. [NoTask EXCEPT !.inside = FALSE].step = "idle"
          BY DEF NoTask
        <5> HIDE DEF before
        <5>3. task'[thread].step = "idle"
          BY <5>1, <5>2, Types, Went
        <5> QED BY <1>2, <5>3
      <4> QED BY <1>4, <4>1
    <3>2. CASE ~(Leave(thread, NoTask) /\ UNCHANGED contested)
      BY <1>4, <3>2 DEF RegisterUser
    <3> QED BY <3>1, <3>2
  <2>4. /\ contested \subseteq contested'
        /\ before.user \notin contested' =>
             \A t \in Thread \ {thread} : ~Inserts(task[t], before.user)
    BY <1>4, <2>3 DEF RegisterUser
  <2> DEFINE user == before.user
  <2> SUFFICES ASSUME NEW u \in User, u \notin contested'
               PROVE  /\ \/ granted[u] = 0
                         \/ /\ granted[u] = 1 /\ u \in users
                            /\ \A t \in Thread : ~Inserts(task'[t], u)
                      /\ \A t, s \in Thread :
                           Inserts(task'[t], u) /\ Inserts(task'[s], u) => t = s
    BY <2>2 DEF RegistersOK
  <2>5. /\ \/ granted[u] = 0
           \/ granted[u] = 1 /\ u \in users /\ \A t \in Thread : ~Inserts(task[t], u)
        /\ \A t, s \in Thread : Inserts(task[t], u) /\ Inserts(task[s], u) => t = s
    BY <2>4 DEF RegistersOK
  <2>6. CASE u = user
    BY <2>1, <2>3, <2>4, <2>5, <2>6
  <2>7. CASE u # user
    <3> HIDE DEF before
    <3>1. \A t \in Thread : Inserts(task'[t], u) => Inserts(task[t], u)
      BY <2>1, <2>7
    <3> QED BY <2>5, <3>1
  <2> QED BY <2>6, <2>7
<1>5. CASE EmplaceUser(thread) /\ after.step = "idle"
  <2> DEFINE user == before.user
  <2>1. /\ before.step = "user emplace" /\ user \in User
        /\ users' = users \cup {user} /\ contested' = contested
        /\ granted' = [granted EXCEPT ![user] = @ + 1]
    BY <1>5, Types DEF EmplaceUser, Done, CallOK
  <2>2. Inserts(before, user)
    BY <2>1 DEF Inserts
  <2>3. \A t \in Thread, u \in User : Inserts(task'[t], u) <=> t # thread /\ Inserts(task[t], u)
    BY <1>2, <1>5 DEF Inserts
  <2>4. \A u \in User : granted'[u] = IF u = user THEN granted[u] + 1 ELSE granted[u]
    <3> HIDE DEF user, before
    <3> QED BY <2>1, Types
  <2> SUFFICES ASSUME NEW u \in User, u \notin contested
               PROVE  /\ \/ granted'[u] = 0
                         \/ /\ granted'[u] = 1 /\ u \in users'
                            /\ \A t \in Thread : ~Inserts(task'[t], u)
                      /\ \A t, s \in Thread :
                           Inserts(task'[t], u) /\ Inserts(task'[s], u) => t = s
    BY <2>1 DEF RegistersOK
  <2>5. /\ \/ granted[u] = 0
           \/ granted[u] = 1 /\ u \in users /\ \A t \in Thread : ~Inserts(task[t], u)
        /\ \A t, s \in Thread : Inserts(task[t], u) /\ Inserts(task[s], u) => t = s
    BY DEF RegistersOK
  <2> HIDE DEF user
  <2>6. CASE u = user
    <3>1. granted[u] = 0 /\ \A t \in Thread : Inserts(task[t], u) => t = thread
      BY <2>2, <2>5, <2>6
    <3>2. granted'[u] = 1
      BY <2>4, <2>6, <3>1
    <3>3. u \in users'
      BY <2>1, <2>6
    <3> QED BY <2>3, <2>5, <3>1, <3>2, <3>3
  <2>7. CASE u # user
    BY <2>1, <2>3, <2>4, <2>5, <2>7
  <2> QED BY <2>6, <2>7
<1> QED BY <1>1, <1>3, <1>4, <1>5

LEMMA RegistersInductive == BooksInv /\ RegistersOK /\ [Next]_vars => RegistersOK'
<1> SUFFICES ASSUME BooksInv, RegistersOK, [Next]_vars PROVE RegistersOK'
  OBVIOUS
<1>1. CASE UNCHANGED vars
  BY <1>1 DEF vars, RegistersOK
<1>2. ASSUME NEW thread \in Thread, CalmStep(thread)
      PROVE  RegistersOK'
  BY <1>2, CalmSteps, OtherCallsKeepRegisters DEF Calm
<1>3. ASSUME NEW thread \in Thread, NEW id \in 1..MaxId, BookTrades(thread, id)
      PROVE  RegistersOK'
  <2>1. PICK trade, call : Traded(thread, trade, call)
    BY <1>3, BookTradesProperties
  <2>2. NoRegistration(thread, call) /\ Goto(thread, call)
    BY <2>1 DEF Traded, NoRegistration, Inserts
  <2> QED BY <2>2, OtherCallsKeepRegisters
<1>4. ASSUME NEW thread \in Thread, BookRests(thread)
      PROVE  RegistersOK'
  <2>1. PICK after : /\ CallOK(after) /\ after.step \in {"idle", "bid find"}
                     /\ after.trades = task[thread].trades
                     /\ Goto(thread, after) /\ undefined' \in BOOLEAN
    BY <1>4, RestGoesOn
  <2>2. NoRegistration(thread, after)
    BY <1>4, <2>1 DEF BookRests, Done, NoRegistration, Inserts
  <2> QED BY <2>1, <2>2, OtherCallsKeepRegisters
<1>5. ASSUME NEW thread \in Thread, PushTrade(thread)
      PROVE  RegistersOK'
  <2>1. PICK after : Same(Pushed(task[thread]), after) /\ Goto(thread, after)
    BY <1>5, PushProperties
  <2>2. /\ Pushed(task[thread]).step \in {"ask find", "bid find", "idle"}
        /\ task[thread].step \in {"bid push", "ask push"}
        /\ UNCHANGED <<users, granted, contested>>
    BY <1>5, PushProperties
  <2>3. NoRegistration(thread, after)
    BY <2>1, <2>2 DEF NoRegistration, Inserts, Same
  <2> QED BY <2>1, <2>3, OtherCallsKeepRegisters
<1>6. CASE NothingIsPromised
  BY <1>1, <1>6 DEF NothingIsPromised
<1> QED BY <1>1, <1>2, <1>3, <1>4, <1>5, <1>6, RegistrationsKeepRegisters DEF Next, CalmStep

\* RegisterUser returns true once a user, unless two threads have looked for him
\* before either inserted him: as long as there has been no data race, which a
\* registration of any other user at the same time is too.
THEOREM UsersAreRegisteredOnce == Spec => []RegistrationRepeatsOnlyInRaces
<1>1. Init => RegistersOK
  <2> SUFFICES ASSUME Init PROVE RegistersOK
    OBVIOUS
  <2>1. \A t \in Thread, user \in User : ~Inserts(task[t], user)
    BY NewCall DEF Init, Inserts
  <2> QED BY <2>1 DEF Init, RegistersOK
<1>2. RegistersOK => RegistrationRepeatsOnlyInRaces
  BY DEF RegistersOK, RegistrationRepeatsOnlyInRaces
<1> QED BY <1>1, <1>2, BooksInvariant, RegistersInductive, PTL DEF Spec

-----------------------------------------------------------------------------
(* The users' trades.                                                      *)

\* What the users' vectors rest on.
TradesInv == NothingLost /\ CallTradesOK /\ RecordsOK

LEMMA Made ==
  ASSUME NEW trade
  PROVE  trade \in TradesMade <=>
           \E ticker \in Ticker : \E i \in DOMAIN filled_trades[ticker] :
             filled_trades[ticker][i] = trade
BY DEF TradesMade, ToSet

LEMMA Recorded ==
  ASSUME NEW user, NEW trade
  PROVE  trade \in RecordedTrades(user) <=>
           user \in DOMAIN trades_by_user
           /\ \E i \in DOMAIN trades_by_user[user] : trades_by_user[user][i] = trade
BY DEF RecordedTrades, ToSet

LEMMA InitTrades == Init => TradesInv
<1> SUFFICES ASSUME Init PROVE TradesInv
  OBVIOUS
<1>1. /\ \A ticker \in Ticker : DOMAIN filled_trades[ticker] = {}
      /\ DOMAIN trades_by_user = {}
      /\ \A t \in Thread : DOMAIN task[t].trades = {}
  BY NewCall DEF Init
<1>2. TradesMade = {}
  BY <1>1, Made
<1>3. NothingLost /\ CallTradesOK
  BY <1>1, <1>2 DEF NothingLost, TradesOf, CallTradesOK
<1>4. RecordsOK
  BY <1>1 DEF RecordsOK
<1> QED BY <1>3, <1>4 DEF TradesInv

LEMMA OldEntries ==
  ASSUME EntriesAdded
  PROVE  /\ \A user \in DOMAIN trades_by_user :
              user \in DOMAIN trades_by_user' /\ trades_by_user'[user] = trades_by_user[user]
         /\ \A user \in DOMAIN trades_by_user' \ DOMAIN trades_by_user :
              DOMAIN trades_by_user'[user] = {}
<1>1. \A user \in DOMAIN trades_by_user' \ DOMAIN trades_by_user : trades_by_user'[user] = <<>>
  BY DEF EntriesAdded
<1>2. DOMAIN <<>> = {}
  OBVIOUS
<1> QED BY <1>1, <1>2 DEF EntriesAdded

\* Steps that make no trade and record none.
LEMMA QuietStepsKeepTrades ==
  ASSUME TradesInv, UNCHANGED filled_trades, EntriesAdded,
         \A t \in Thread :
           /\ task'[t].trades = task[t].trades
           /\ task'[t].step \in {"ask find", "ask push"} <=>
                task[t].step \in {"ask find", "ask push"}
  PROVE  TradesInv'
<1>1. TradesMade' = TradesMade /\ \A user : TradesOf(user)' = TradesOf(user)
  BY DEF TradesMade, TradesOf
<1>2. \A t \in Thread : \A trade, user :
        StillToRecord(task'[t], trade, user) <=> StillToRecord(task[t], trade, user)
  BY DEF StillToRecord
<1>3. CallTradesOK'
  <2>1. \A t \in Thread : task'[t].trades = task[t].trades
    OBVIOUS
  <2>2. CallTradesOK /\ TradesMade' = TradesMade
    BY <1>1 DEF TradesInv
  <2>3. ASSUME NEW t \in Thread, NEW i \in DOMAIN task'[t].trades
        PROVE  /\ task'[t].trades[i] \in TradesMade
               /\ \A u \in Thread : \A j \in DOMAIN task'[u].trades :
                    task'[u].trades[j] = task'[t].trades[i] => t = u /\ i = j
    <3>1. i \in DOMAIN task[t].trades /\ task'[t].trades[i] = task[t].trades[i]
      BY <2>1
    <3>2. task'[t].trades[i] \in TradesMade
      BY <2>2, <3>1 DEF CallTradesOK
    <3>3. ASSUME NEW u \in Thread, NEW j \in DOMAIN task'[u].trades,
                 task'[u].trades[j] = task'[t].trades[i]
          PROVE  t = u /\ i = j
      <4>1. j \in DOMAIN task[u].trades /\ task[u].trades[j] = task[t].trades[i]
        BY <2>1, <3>1, <3>3
      <4>2. \A v \in Thread : \A k \in DOMAIN task[v].trades :
              task[v].trades[k] = task[t].trades[i] => t = v /\ i = k
        BY <2>2, <3>1 DEF CallTradesOK
      <4> QED BY <4>1, <4>2
    <3> QED BY <3>2, <3>3
  <2> QED BY <2>2, <2>3 DEF CallTradesOK
<1>4. \A user : \A trade : trade \in RecordedTrades(user)' <=> trade \in RecordedTrades(user)
  <2> SUFFICES ASSUME NEW user, NEW trade
               PROVE  trade \in RecordedTrades(user)' <=> trade \in RecordedTrades(user)
    OBVIOUS
  <2>1. trade \in RecordedTrades(user)' <=>
          user \in DOMAIN trades_by_user'
          /\ \E i \in DOMAIN trades_by_user'[user] : trades_by_user'[user][i] = trade
    BY DEF RecordedTrades, ToSet
  <2>2. CASE user \in DOMAIN trades_by_user
    <3>1. user \in DOMAIN trades_by_user' /\ trades_by_user'[user] = trades_by_user[user]
      BY <2>2, OldEntries
    <3>2. trade \in RecordedTrades(user) <=>
            \E i \in DOMAIN trades_by_user[user] : trades_by_user[user][i] = trade
      BY <2>2, Recorded
    <3>3. (\E i \in DOMAIN trades_by_user'[user] : trades_by_user'[user][i] = trade) <=>
            \E i \in DOMAIN trades_by_user[user] : trades_by_user[user][i] = trade
      BY <3>1
    <3> QED BY <2>1, <3>1, <3>2, <3>3
  <2>3. CASE user \notin DOMAIN trades_by_user
    <3>1. user \in DOMAIN trades_by_user' => DOMAIN trades_by_user'[user] = {}
      BY <2>3, OldEntries
    <3> QED BY <2>1, <2>3, <3>1, Recorded
  <2> QED BY <2>2, <2>3
<1>5. NothingLost'
  <2> SUFFICES ASSUME NEW user \in User, NEW trade \in TradesOf(user),
                      trade \notin RecordedTrades(user)
               PROVE  \E t \in Thread : StillToRecord(task'[t], trade, user)
    BY <1>1, <1>4 DEF NothingLost
  <2> QED BY <1>2 DEF TradesInv, NothingLost
<1>6. \A list, user : VectorOK(list, user) => VectorOK(list, user)'
  BY <1>1, <1>2 DEF VectorOK
<1>7. \A list, user : DOMAIN list = {} => VectorOK(list, user)'
  BY DEF VectorOK, IsInjective
<1>8. \A user \in DOMAIN trades_by_user' : \A list :
        list = trades_by_user'[user] => VectorOK(list, user)'
  <2> TAKE user \in DOMAIN trades_by_user'
  <2>1. CASE user \in DOMAIN trades_by_user
    BY <1>6, <2>1, OldEntries DEF TradesInv, RecordsOK
  <2>2. CASE user \notin DOMAIN trades_by_user
    <3>1. DOMAIN trades_by_user'[user] = {}
      BY <2>2, OldEntries
    <3> QED BY <1>7, <3>1
  <2> QED BY <2>1, <2>2
<1>9. RecordsOK'
  BY <1>8 DEF RecordsOK
<1> QED BY <1>3, <1>5, <1>9 DEF TradesInv

LEMMA OtherCallsKeepTrades ==
  ASSUME BooksInv, TradesInv, NEW thread \in Thread, NEW after, Goto(thread, after),
         after.trades = task[thread].trades,
         after.step \in {"ask find", "ask push"} <=> task[thread].step \in {"ask find", "ask push"},
         UNCHANGED filled_trades, EntriesAdded
  PROVE  TradesInv'
<1>1. \A t \in Thread : task'[t] = IF t = thread THEN after ELSE task[t]
  BY Types, Went
<1> QED BY <1>1, QuietStepsKeepTrades

LEMMA TradeKeepsTrades ==
  ASSUME BooksInv, TradesInv, NEW thread \in Thread, NEW id \in 1..MaxId, BookTrades(thread, id)
  PROVE  TradesInv'
<1>1. PICK trade, call : Traded(thread, trade, call)
  BY BookTradesProperties
<1> DEFINE trades == task[thread].trades
           n == Len(trades)
<1>2. /\ trades \in Seq(Trade) /\ task[thread].step = "matching"
      /\ call.step \in {"matching", "bid find"}
      /\ call.trades = Append(trades, trade)
      /\ UNCHANGED trades_by_user /\ trade \in Trade
      /\ trade.trade_id = id_counter + 1 /\ trade.bid_user_id # trade.ask_user_id
  BY <1>1, Types DEF Traded
<1>3. \A t \in Thread : task'[t] = IF t = thread THEN call ELSE task[t]
  BY <1>1, Types, Went DEF Traded
<1>4. /\ n \in Nat /\ DOMAIN trades = 1..n /\ DOMAIN call.trades = 1..(n + 1)
      /\ call.trades[n + 1] = trade
      /\ \A i \in 1..n : call.trades[i] = trades[i]
  <2>1. trades \in Seq(Trade) /\ trade \in Trade
    BY <1>2
  <2> HIDE DEF trades
  <2>2. /\ n \in Nat /\ DOMAIN trades = 1..n /\ DOMAIN Append(trades, trade) = 1..(n + 1)
        /\ Append(trades, trade)[n + 1] = trade
        /\ \A i \in 1..n : Append(trades, trade)[i] = trades[i]
    BY <2>1, Appended
  <2> QED BY <1>2, <2>2
<1>5. \A x : x \in TradesMade' <=> x \in TradesMade \/ x = trade
  <2>1. ASSUME NEW x, x \in TradesMade'
        PROVE  x \in TradesMade \/ x = trade
    <3>1. PICK ticker, i :
            ticker \in Ticker /\ i \in DOMAIN filled_trades'[ticker] /\ filled_trades'[ticker][i] = x
      BY <2>1 DEF TradesMade, ToSet
    <3>2. i \in DOMAIN filled_trades[ticker] => filled_trades[ticker][i] = x
      BY <1>1, <3>1, TradedPlaces
    <3>3. i \notin DOMAIN filled_trades[ticker] => x = trade
      BY <1>1, <3>1, TradedPlaces
    <3> QED BY <3>1, <3>2, <3>3, Made
  <2>2. ASSUME NEW x, x \in TradesMade
        PROVE  x \in TradesMade'
    <3>1. PICK ticker, i :
            ticker \in Ticker /\ i \in DOMAIN filled_trades[ticker] /\ filled_trades[ticker][i] = x
      BY <2>2, Made
    <3>2. i \in DOMAIN filled_trades'[ticker] /\ filled_trades'[ticker][i] = x
      BY <1>1, <3>1, TradedPlaces
    <3> QED BY <3>1, <3>2 DEF TradesMade, ToSet
  <2>3. trade \in TradesMade'
    <3> DEFINE book == task[thread].ticker
               i == Len(filled_trades[book]) + 1
    <3>1. book \in Ticker
      BY <1>1 DEF Traded
    <3>2. i \in DOMAIN filled_trades'[book] /\ filled_trades'[book][i] = trade
      BY <1>1, <3>1, TradedPlaces
    <3> QED BY <3>1, <3>2 DEF TradesMade, ToSet
  <2> QED BY <2>1, <2>2, <2>3
<1>6. trade \notin TradesMade
  <2> SUFFICES ASSUME NEW ticker \in Ticker, NEW i \in DOMAIN filled_trades[ticker],
                      filled_trades[ticker][i] = trade
               PROVE  FALSE
    BY Made
  <2>1. trade.trade_id \in 1..id_counter
    BY DEF BooksInv, IdsOK
  <2>2. id_counter \in Nat
    BY DEF BooksInv, TypeOK
  <2>3. trade.trade_id = id_counter + 1
    BY <1>2
  <2> HIDE DEF trades, n
  <2> QED BY <2>1, <2>2, <2>3
<1>7. \A x, user :
        StillToRecord(call, x, user) <=> x = trade \/ StillToRecord(task[thread], x, user)
  <2> TAKE x, user
  <2>1. StillToRecord(call, x, user) <=> \E i \in 1..(n + 1) : call.trades[i] = x
    BY <1>2, <1>4 DEF StillToRecord
  <2>2. StillToRecord(task[thread], x, user) <=> \E i \in 1..n : trades[i] = x
    BY <1>2, <1>4 DEF StillToRecord
  <2>3. (\E i \in 1..(n + 1) : call.trades[i] = x) <=> x = trade \/ \E i \in 1..n : trades[i] = x
    <3> HIDE DEF trades, n
    <3>1. n + 1 \in 1..(n + 1) /\ \A i \in 1..(n + 1) : i \in 1..n \/ i = n + 1
      BY <1>4
    <3>2. \A i \in 1..n : i \in 1..(n + 1)
      BY <1>4
    <3> QED BY <1>4, <3>1, <3>2
  <2> QED BY <2>1, <2>2, <2>3
<1>8. \A user : TradesOf(user)' \subseteq TradesOf(user) \cup {trade}
                /\ TradesOf(user) \subseteq TradesOf(user)'
  BY <1>5 DEF TradesOf
<1> HIDE DEF trades
<1>9. CallTradesOK'
  <2>1. \A x \in TradesMade' : x.bid_user_id # x.ask_user_id
    BY <1>2, <1>5 DEF TradesInv, CallTradesOK
  <2>2. \A t \in Thread : \A i \in DOMAIN task'[t].trades :
          \/ /\ i \in DOMAIN task[t].trades /\ task'[t].trades[i] = task[t].trades[i]
             /\ task[t].trades[i] \in TradesMade
          \/ t = thread /\ i = n + 1 /\ task'[t].trades[i] = trade
    <3> TAKE t \in Thread
    <3> TAKE i \in DOMAIN task'[t].trades
    <3>1. CASE t = thread
      <4>1. i \in 1..n \/ i = n + 1
        BY <1>3, <1>4, <3>1
      <4> QED BY <1>3, <1>4, <3>1, <4>1 DEF TradesInv, CallTradesOK, trades
    <3>2. CASE t # thread
      BY <1>3, <3>2 DEF TradesInv, CallTradesOK
    <3> QED BY <3>1, <3>2
  <2>3. \A t \in Thread : \A i \in DOMAIN task'[t].trades :
          \A u \in Thread : \A j \in DOMAIN task'[u].trades :
            task'[u].trades[j] = task'[t].trades[i] => t = u /\ i = j
    BY <1>6, <2>2 DEF TradesInv, CallTradesOK
  <2>4. \A t \in Thread : \A i \in DOMAIN task'[t].trades : task'[t].trades[i] \in TradesMade'
    BY <1>5, <2>2
  <2> QED BY <2>1, <2>3, <2>4 DEF CallTradesOK
<1>10. NothingLost'
  <2> SUFFICES ASSUME NEW user \in User,
                      NEW x \in TradesOf(user)', x \notin RecordedTrades(user)
               PROVE  \E t \in Thread : StillToRecord(task'[t], x, user)
    BY <1>2 DEF NothingLost, RecordedTrades
  <2>1. CASE x = trade
    BY <1>3, <1>7, <2>1
  <2>2. CASE x # trade
    <3>1. x \in TradesOf(user)
      BY <1>8, <2>2
    <3>2. PICK t \in Thread : StillToRecord(task[t], x, user)
      BY <3>1 DEF TradesInv, NothingLost
    <3>3. StillToRecord(task'[t], x, user)
      BY <1>3, <1>7, <3>2
    <3> QED BY <3>3
  <2> QED BY <2>1, <2>2
<1>11. \A list, user : VectorOK(list, user) => VectorOK(list, user)'
  <2> SUFFICES ASSUME NEW list, NEW user, VectorOK(list, user), NEW i \in DOMAIN list
               PROVE  /\ list[i] \in TradesOf(user)'
                      /\ \A t \in Thread : ~StillToRecord(task'[t], list[i], user)
    BY DEF VectorOK
  <2>1. list[i] \in TradesOf(user) /\ \A t \in Thread : ~StillToRecord(task[t], list[i], user)
    BY DEF VectorOK
  <2>2. list[i] # trade
    BY <1>6, <2>1 DEF TradesOf
  <2> QED BY <1>3, <1>7, <1>8, <2>1, <2>2
<1>12. RecordsOK'
  BY <1>2, <1>11 DEF TradesInv, RecordsOK
<1> QED BY <1>9, <1>10, <1>12 DEF TradesInv

\* What a push leaves a thread to record: all but this trade under this user.
LEMMA PushLeaves ==
  ASSUME BooksInv, TradesInv, NEW thread \in Thread, PushTrade(thread)
  PROVE  LET before == task[thread]
             party == Party(before)
             trade == Head(before.trades)
             call == Pushed(before)
         IN  /\ trade \in TradesOf(party)
             /\ \E shift \in {0, 1} : \A i \in DOMAIN call.trades :
                  i + shift \in DOMAIN before.trades /\ call.trades[i] = before.trades[i + shift]
                  /\ i \in Nat
             /\ StillToRecord(before, trade, party)
             /\ \A x, user : StillToRecord(call, x, user) =>
                  StillToRecord(before, x, user) /\ ~(x = trade /\ user = party)
             /\ \A x, user : StillToRecord(before, x, user) /\ x \in TradesOf(user) =>
                  StillToRecord(call, x, user) \/ (x = trade /\ user = party)
<1> DEFINE before == task[thread]
           party == Party(before)
           trade == Head(before.trades)
           n == Len(before.trades)
           call == Pushed(before)
<1>1. /\ before.step \in {"bid push", "ask push"} /\ CallOK(before) /\ Recording(before)
      /\ before.trades \in Seq(Trade) /\ before.trades # <<>>
      /\ call.step \in {"ask find", "bid find", "idle"}
      /\ call.trades = IF before.step = "bid push" THEN before.trades ELSE Tail(before.trades)
  BY PushProperties, Types DEF CallOK
<1>2. /\ n \in Nat \ {0} /\ DOMAIN before.trades = 1..n
      /\ trade = before.trades[1] /\ trade \in Trade
      /\ DOMAIN Tail(before.trades) = 1..(n - 1)
      /\ \A i \in 1..(n - 1) : Tail(before.trades)[i] = before.trades[i + 1]
  <2> HIDE DEF before
  <2> QED BY <1>1, Shortened
<1>3. /\ party \in User
      /\ party = IF before.step = "bid push" THEN trade.bid_user_id ELSE trade.ask_user_id
  BY <1>1, PartyProperties
<1>4. trade \in TradesMade /\ trade.bid_user_id # trade.ask_user_id
  BY <1>2 DEF TradesInv, CallTradesOK
<1>5. \A i \in 1..n : before.trades[i] = trade => i = 1
  <2>1. 1 \in 1..n
    BY <1>2
  <2> QED BY <1>2, <2>1 DEF TradesInv, CallTradesOK
<1>6. call.step = "ask find" <=> before.step = "bid push"
  BY <1>1, NewCall DEF Pushed, Record, CallOK, Call
<1> HIDE DEF before, party, trade, call
<1>7. CASE before.step = "bid push"
  <2>1. call.step = "ask find" /\ call.trades = before.trades
    BY <1>1, <1>6, <1>7
  <2>2. \A x, user :
          StillToRecord(call, x, user) <=>
            \E i \in 1..n : before.trades[i] = x /\ (i = 1 => user = trade.ask_user_id)
    BY <1>2, <2>1 DEF StillToRecord
  <2>3. \A x, user : StillToRecord(before, x, user) <=> \E i \in 1..n : before.trades[i] = x
    BY <1>2, <1>7 DEF StillToRecord
  <2>4. \A x, user : StillToRecord(call, x, user) =>
          StillToRecord(before, x, user) /\ ~(x = trade /\ user = party)
    BY <1>3, <1>4, <1>5, <1>7, <2>2, <2>3
  <2>5. \A x, user : StillToRecord(before, x, user) /\ x \in TradesOf(user) =>
          StillToRecord(call, x, user) \/ (x = trade /\ user = party)
    <3> TAKE x, user
    <3> HAVE StillToRecord(before, x, user) /\ x \in TradesOf(user)
    <3>1. PICK i \in 1..n : before.trades[i] = x
      BY <2>3
    <3>2. user \in {x.bid_user_id, x.ask_user_id}
      BY DEF TradesOf
    <3>3. i = 1 => x = trade
      BY <1>2, <3>1
    <3>4. party = trade.bid_user_id
      BY <1>3, <1>7
    <3>5. CASE i = 1 /\ user # trade.ask_user_id
      BY <3>2, <3>3, <3>4, <3>5
    <3>6. CASE i # 1 \/ user = trade.ask_user_id
      BY <2>2, <3>1, <3>6
    <3> QED BY <3>5, <3>6
  <2>6. StillToRecord(before, trade, party)
    BY <1>2, <2>3
  <2>7. \A i \in DOMAIN call.trades :
          i + 0 \in DOMAIN before.trades /\ call.trades[i] = before.trades[i + 0] /\ i \in Nat
    <3>1. call.trades = before.trades /\ DOMAIN before.trades = 1..n
      BY <1>2, <2>1
    <3>2. \A i \in 1..n : i + 0 = i /\ i \in Nat
      BY <1>2
    <3> QED BY <3>1, <3>2
  <2>8. trade \in TradesOf(party)
    BY <1>3, <1>4 DEF TradesOf
  <2> QED BY <2>4, <2>5, <2>6, <2>7, <2>8 DEF before, party, trade, call
<1>8. CASE before.step = "ask push"
  <2>2. call.step \in {"idle", "bid find"} /\ call.trades = Tail(before.trades)
    BY <1>1, <1>6, <1>8
  <2>3. \A x, user : StillToRecord(call, x, user) <=> \E i \in 1..(n - 1) : before.trades[i + 1] = x
    BY <1>2, <2>2 DEF StillToRecord
  <2>4. \A x, user :
          StillToRecord(before, x, user) <=>
            \E i \in 1..n : before.trades[i] = x /\ (i = 1 => user = trade.ask_user_id)
    <3>1. \A x : before.trades[1] = x <=> trade = x
      BY <1>2
    <3> QED BY <1>2, <1>8, <3>1 DEF StillToRecord
  <2>5. \A x, user : StillToRecord(call, x, user) =>
          StillToRecord(before, x, user) /\ ~(x = trade /\ user = party)
    <3> TAKE x, user
    <3> HAVE StillToRecord(call, x, user)
    <3>1. PICK i \in 1..(n - 1) : before.trades[i + 1] = x
      BY <2>3
    <3>2. i + 1 \in 1..n /\ i + 1 # 1
      BY <1>2
    <3> QED BY <1>5, <2>4, <3>1, <3>2
  <2>6. \A x, user : StillToRecord(before, x, user) /\ x \in TradesOf(user) =>
          StillToRecord(call, x, user) \/ (x = trade /\ user = party)
    <3> TAKE x, user
    <3> HAVE StillToRecord(before, x, user) /\ x \in TradesOf(user)
    <3>1. PICK i \in 1..n : before.trades[i] = x /\ (i = 1 => user = trade.ask_user_id)
      BY <2>4
    <3>2. CASE i = 1
      BY <1>2, <1>3, <1>8, <3>1, <3>2
    <3>3. CASE i # 1
      <4>1. i - 1 \in 1..(n - 1) /\ (i - 1) + 1 = i
        BY <1>2, <3>3
      <4> QED BY <2>3, <3>1, <4>1
    <3> QED BY <3>2, <3>3
  <2>7. StillToRecord(before, trade, party)
    <3>0. party = trade.ask_user_id
      BY <1>3, <1>8
    <3>1. 1 \in 1..n
      BY <1>2
    <3> QED BY <1>2, <2>4, <3>0, <3>1
  <2>8. \A i \in DOMAIN call.trades :
          i + 1 \in DOMAIN before.trades /\ call.trades[i] = before.trades[i + 1] /\ i \in Nat
    <3>1. \A i \in 1..(n - 1) : i + 1 \in 1..n /\ i \in Nat
      BY <1>2
    <3>2. \A i \in 1..(n - 1) : call.trades[i] = before.trades[i + 1]
      BY <1>2, <2>2
    <3>3. DOMAIN call.trades = 1..(n - 1) /\ DOMAIN before.trades = 1..n
      BY <1>2, <2>2
    <3> QED BY <3>1, <3>2, <3>3
  <2>9. trade \in TradesOf(party)
    BY <1>3, <1>4, <1>8 DEF TradesOf
  <2> QED BY <2>5, <2>6, <2>7, <2>8, <2>9 DEF before, party, trade, call
<1> QED BY <1>1, <1>7, <1>8

LEMMA PushKeepsTrades ==
  ASSUME BooksInv, TradesInv, NEW thread \in Thread, PushTrade(thread)
  PROVE  TradesInv'
<1> DEFINE before == task[thread]
<1>0. PICK party, trade, call :
        /\ Goto(thread, call)
        /\ party \in User /\ party \in DOMAIN trades_by_user /\ trade \in TradesOf(party)
        /\ trade \in Trade
        /\ trades_by_user' = [trades_by_user EXCEPT ![party] = Append(@, trade)]
        /\ UNCHANGED filled_trades
        /\ \E shift \in {0, 1} : \A i \in DOMAIN call.trades :
             i + shift \in DOMAIN before.trades /\ call.trades[i] = before.trades[i + shift]
             /\ i \in Nat
        /\ StillToRecord(before, trade, party)
        /\ \A x, user : StillToRecord(call, x, user) =>
             StillToRecord(before, x, user) /\ ~(x = trade /\ user = party)
        /\ \A x, user : StillToRecord(before, x, user) /\ x \in TradesOf(user) =>
             StillToRecord(call, x, user) \/ (x = trade /\ user = party)
  <2>1. PICK after : /\ CallOK(after) /\ Same(Pushed(before), after) /\ Goto(thread, after)
                     /\ undefined' \in BOOLEAN
    BY PushProperties
  <2>2. /\ after.trades = Pushed(before).trades
        /\ \A x, user : StillToRecord(after, x, user) <=> StillToRecord(Pushed(before), x, user)
    BY <2>1 DEF Same, StillToRecord
  <2> DEFINE party == Party(before)
             trade == Head(before.trades)
             call == Pushed(before)
  <2>3. /\ party \in User /\ party \in DOMAIN trades_by_user /\ trade \in Trade
        /\ trades_by_user' = [trades_by_user EXCEPT ![party] = Append(@, trade)]
        /\ UNCHANGED filled_trades
    BY PushProperties DEF books
  <2>4. /\ trade \in TradesOf(party)
        /\ \E shift \in {0, 1} : \A i \in DOMAIN call.trades :
             i + shift \in DOMAIN before.trades /\ call.trades[i] = before.trades[i + shift]
             /\ i \in Nat
        /\ StillToRecord(before, trade, party)
        /\ \A x, user : StillToRecord(call, x, user) =>
             StillToRecord(before, x, user) /\ ~(x = trade /\ user = party)
        /\ \A x, user : StillToRecord(before, x, user) /\ x \in TradesOf(user) =>
             StillToRecord(call, x, user) \/ (x = trade /\ user = party)
    BY PushLeaves
  <2> HIDE DEF party, trade, before
  <2> QED BY <2>1, <2>2, <2>3, <2>4
<1> DEFINE old == trades_by_user[party]
           list == Append(old, trade)
           m == Len(old)
<1>1. \A t \in Thread : task'[t] = IF t = thread THEN call ELSE task[t]
  BY <1>0, Types, Went
<1>2. /\ DOMAIN trades_by_user' = DOMAIN trades_by_user
      /\ \A user \in DOMAIN trades_by_user :
           trades_by_user'[user] = IF user = party THEN list ELSE trades_by_user[user]
  <2> HIDE DEF list
  <2> QED BY <1>0 DEF list
<1>3. /\ m \in Nat /\ DOMAIN old = 1..m /\ DOMAIN list = 1..(m + 1)
      /\ list[m + 1] = trade
      /\ \A i \in 1..m : list[i] = old[i]
  <2>1. old \in Seq(Trade) /\ trade \in Trade
    BY <1>0, Types DEF TypeOK
  <2> HIDE DEF old, before
  <2> QED BY <2>1, Appended
<1>4. TradesMade' = TradesMade /\ \A user : TradesOf(user)' = TradesOf(user)
  BY <1>0 DEF TradesMade, TradesOf
<1> HIDE DEF old, list, m
<1>5. \A t \in Thread : \A x, user :
        StillToRecord(task'[t], x, user) =>
          StillToRecord(task[t], x, user) /\ ~(x = trade /\ user = party)
  <2> TAKE t \in Thread
  <2> TAKE x, user
  <2> HAVE StillToRecord(task'[t], x, user)
  <2>1. CASE t = thread
    BY <1>0, <1>1, <2>1
  <2>2. CASE t # thread
    <3>1. StillToRecord(task[t], x, user)
      BY <1>1, <2>2
    <3>2. x # trade
      <4>1. PICK i \in DOMAIN task[t].trades : task[t].trades[i] = x
        BY <3>1 DEF StillToRecord
      <4>2. PICK j \in DOMAIN before.trades : before.trades[j] = trade
        BY <1>0 DEF StillToRecord
      <4> QED BY <2>2, <4>1, <4>2 DEF TradesInv, CallTradesOK
    <3> QED BY <3>1, <3>2
  <2> QED BY <2>1, <2>2
<1>6. \A lst, user : VectorOK(lst, user) => VectorOK(lst, user)'
  BY <1>4, <1>5 DEF VectorOK
<1>7. VectorOK(old, party)
  BY <1>0 DEF TradesInv, RecordsOK, old
<1>8. CallTradesOK'
  <2>1. \A t \in Thread : \E shift \in {0, 1} : \A i \in DOMAIN task'[t].trades :
          /\ i + shift \in DOMAIN task[t].trades /\ task'[t].trades[i] = task[t].trades[i + shift]
          /\ i \in Nat
    <3> TAKE t \in Thread
    <3>1. CASE t = thread
      BY <1>0, <1>1, <3>1
    <3>2. CASE t # thread
      <4>1. task'[t].trades = task[t].trades /\ task[t].trades \in Seq(Trade)
        BY <1>1, <3>2, Types
      <4>2. DOMAIN task[t].trades \subseteq Nat
        BY <4>1, LenProperties
      <4>3. \A i \in DOMAIN task'[t].trades :
              /\ i + 0 \in DOMAIN task[t].trades
              /\ task'[t].trades[i] = task[t].trades[i + 0] /\ i \in Nat
        BY <4>1, <4>2
      <4> QED BY <4>3
    <3> QED BY <3>1, <3>2
  <2>2. ASSUME NEW t \in Thread, NEW i \in DOMAIN task'[t].trades
        PROVE  /\ task'[t].trades[i] \in TradesMade
               /\ \A u \in Thread : \A j \in DOMAIN task'[u].trades :
                    task'[u].trades[j] = task'[t].trades[i] => t = u /\ i = j
    <3>1. PICK st \in {0, 1} : \A k \in DOMAIN task'[t].trades :
            /\ k + st \in DOMAIN task[t].trades /\ task'[t].trades[k] = task[t].trades[k + st]
            /\ k \in Nat
      BY <2>1
    <3>2. task'[t].trades[i] \in TradesMade
      BY <3>1 DEF TradesInv, CallTradesOK
    <3>3. ASSUME NEW u \in Thread, NEW j \in DOMAIN task'[u].trades,
                 task'[u].trades[j] = task'[t].trades[i]
          PROVE  t = u /\ i = j
      <4>1. PICK su \in {0, 1} : \A k \in DOMAIN task'[u].trades :
              /\ k + su \in DOMAIN task[u].trades /\ task'[u].trades[k] = task[u].trades[k + su]
              /\ k \in Nat
        BY <2>1
      <4>2. t = u
        BY <3>1, <3>3, <4>1 DEF TradesInv, CallTradesOK
      <4>3. i + st = j + st
        BY <3>1, <3>3, <4>2 DEF TradesInv, CallTradesOK
      <4>4. i \in Nat /\ j \in Nat
        BY <3>1, <3>3, <4>2
      <4> QED BY <4>2, <4>3, <4>4
    <3> QED BY <3>2, <3>3
  <2> QED BY <1>4, <2>2 DEF TradesInv, CallTradesOK
<1>9. NothingLost'
  <2> SUFFICES ASSUME NEW user \in User, NEW x \in TradesOf(user), x \notin RecordedTrades(user)'
               PROVE  \E t \in Thread : StillToRecord(task'[t], x, user)
    BY <1>4 DEF NothingLost
  <2>1. \A i : user \in DOMAIN trades_by_user /\ i \in DOMAIN trades_by_user'[user] =>
          trades_by_user'[user][i] # x
    BY <1>2 DEF RecordedTrades, ToSet
  <2>2. /\ x \notin RecordedTrades(user)
        /\ ~(x = trade /\ user = party)
    <3>1. CASE user # party
      <4>1. user \in DOMAIN trades_by_user => trades_by_user'[user] = trades_by_user[user]
        BY <1>2, <3>1
      <4> QED BY <2>1, <3>1, <4>1, Recorded
    <3>2. CASE user = party
      <4>1. trades_by_user'[user] = list /\ user \in DOMAIN trades_by_user
        BY <1>0, <1>2, <3>2
      <4>2. m + 1 \in DOMAIN list /\ \A i \in 1..m : i \in DOMAIN list
        BY <1>3
      <4>3. x # trade /\ \A i \in 1..m : old[i] # x
        BY <1>3, <2>1, <4>1, <4>2
      <4>4. \A i \in DOMAIN trades_by_user[user] : trades_by_user[user][i] # x
        BY <1>3, <3>2, <4>3 DEF old
      <4> QED BY <4>3, <4>4, Recorded
    <3> QED BY <3>1, <3>2
  <2>3. PICK t \in Thread : StillToRecord(task[t], x, user)
    BY <2>2 DEF TradesInv, NothingLost
  <2>4. StillToRecord(task'[t], x, user)
    BY <1>0, <1>1, <2>2, <2>3
  <2> QED BY <2>4
<1>10. \A lst : lst = list => VectorOK(lst, party)'
  <2>1. \A i \in 1..m : /\ old[i] \in TradesOf(party)
                        /\ \A t \in Thread : ~StillToRecord(task[t], old[i], party)
    BY <1>3, <1>7 DEF VectorOK
  <2>2. \A i \in 1..m : old[i] # trade
    BY <1>0, <2>1
  <2>3. \A i \in 1..(m + 1) : i \in 1..m \/ i = m + 1
    BY <1>3
  <2>4. \A i \in 1..(m + 1) : /\ list[i] \in TradesOf(party)
                              /\ \A t \in Thread : ~StillToRecord(task'[t], list[i], party)
    BY <1>0, <1>3, <1>5, <2>1, <2>3
  <2>5. \A i, j \in 1..(m + 1) : list[i] = list[j] => i = j
    <3>1. \A i, j \in 1..m : old[i] = old[j] => i = j
      BY <1>3, <1>7 DEF VectorOK, IsInjective
    <3> QED BY <1>3, <2>2, <2>3, <3>1
  <2>6. \A lst : /\ DOMAIN lst = 1..(m + 1)
                 /\ \A i \in 1..(m + 1) :
                      /\ lst[i] \in TradesOf(party)
                      /\ \A t \in Thread : ~StillToRecord(task'[t], lst[i], party)
                 /\ \A i, j \in 1..(m + 1) : lst[i] = lst[j] => i = j
                 => VectorOK(lst, party)'
    BY <1>4 DEF VectorOK, IsInjective
  <2>7. DOMAIN list = 1..(m + 1)
    BY <1>3
  <2> QED BY <2>4, <2>5, <2>6, <2>7
<1>11. RecordsOK'
  <2>1. \A user \in DOMAIN trades_by_user : VectorOK(trades_by_user[user], user)
    BY DEF TradesInv, RecordsOK
  <2>2. \A user \in DOMAIN trades_by_user : \A lst :
          lst = trades_by_user'[user] => VectorOK(lst, user)'
    BY <1>2, <1>6, <1>10, <2>1
  <2> QED BY <1>2, <2>2 DEF RecordsOK
<1> QED BY <1>8, <1>9, <1>11 DEF TradesInv

LEMMA TradesInductive == BooksInv /\ TradesInv /\ [Next]_vars => TradesInv'
<1> SUFFICES ASSUME BooksInv, TradesInv, [Next]_vars PROVE TradesInv'
  OBVIOUS
<1>1. CASE UNCHANGED vars
  <2>1. UNCHANGED <<filled_trades, trades_by_user, task>> /\ EntriesAdded
    BY <1>1, NoEntries, Types DEF vars
  <2> QED BY <2>1, QuietStepsKeepTrades
<1>2. ASSUME NEW thread \in Thread, CalmStep(thread)
      PROVE  TradesInv'
  BY <1>2, CalmSteps, OtherCallsKeepTrades DEF Calm
<1>3. ASSUME NEW thread \in Thread, RegisterUser(thread) \/ EmplaceUser(thread)
      PROVE  TradesInv'
  <2>1. PICK after : Calm(thread, after)
    BY <1>3, RegistrationSteps
  <2> QED BY <2>1, OtherCallsKeepTrades DEF Calm
<1>4. ASSUME NEW thread \in Thread, BookRests(thread)
      PROVE  TradesInv'
  <2>1. PICK after : /\ CallOK(after) /\ after.step \in {"idle", "bid find"}
                     /\ after.trades = task[thread].trades
                     /\ Goto(thread, after) /\ undefined' \in BOOLEAN
    BY <1>4, RestGoesOn
  <2>2. UNCHANGED <<filled_trades, trades_by_user>> /\ task[thread].step = "matching"
    BY <1>4 DEF BookRests, Done
  <2>3. EntriesAdded
    BY <2>2, NoEntries, Types
  <2> QED BY <2>1, <2>2, <2>3, OtherCallsKeepTrades
<1>5. CASE NothingIsPromised
  BY <1>1, <1>5 DEF NothingIsPromised
<1> QED BY <1>1, <1>2, <1>3, <1>4, <1>5, TradeKeepsTrades, PushKeepsTrades DEF Next, CalmStep

LEMMA TradesInvariant == Spec => []TradesInv
BY InitTrades, TradesInductive, BooksInvariant, PTL DEF Spec

\* A trade is missing under one of its users only until the thread that made it
\* comes to it: as long as there has been no data race, no way in which threads
\* record their trades one after the other, and query them, loses one.
THEOREM TradesAreRecorded == Spec => []TradesAreLostOnlyInRaces
<1>1. TradesInv => TradesAreLostOnlyInRaces
  BY DEF TradesInv, NothingLost, TradesAreLostOnlyInRaces
<1> QED BY <1>1, TradesInvariant, PTL

\* As long as there has been no data race, what is in a user's vector is a trade of
\* his that a book has made, and is there once.
THEOREM RecordsAreTrue == Spec => []RecordedTradesWereMade
<1>1. TradesInv => RecordedTradesWereMade
  BY DEF TradesInv, RecordsOK, VectorOK, RecordedTradesWereMade, RecordedTrades, ToSet
<1> QED BY <1>1, TradesInvariant, PTL
=============================================================================
