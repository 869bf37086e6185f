# A verification project for the trading ecosystem

The repository is a small trading venue in C++: a TCP server whose worker threads put orders
into an exchange, the exchange's limit order books, a portfolio that a trader may keep, and
bots in Python that trade on it.
This directory has TLA+ models of those parts, TLC runs that check them on small instances,
and theorems about them, proved with TLAPS, that hold for every instance.

## 1. Inventory

Paths are relative to the repository's root.

### Price level queue - `src/Exchange/price_level_queue.cpp`
- State: the orders of one side of a book at one price, a doubly linked list through the
  `prev`/`next` pointers of the book's own `OrderNode`s, between two sentinels; a flag
  `has_orders_` beside it.
- Operations: `AddOrder` (at the end), `RemoveOrder` (anywhere), `Pop`, `Peek`, `HasOrders`.
- Used by the book, which also owns the nodes: the list follows pointers it does not own.
- Hard: unlinking at the head, at the tail, alone, twice; the flag must never disagree with
  the list, since `HandleOrder` trusts the flag and then calls `Peek`, which throws.
- Correct when: both directions spell the orders in the order they joined, an order out of
  line has no pointer into the list, the flag is exact, every call answers as a FIFO would.

### Limit order book - `src/Exchange/limit_order_book.cpp`
- State: `order_node_map_` (id to order), a map of levels and a heap of levels per side, a
  map of volumes per side (keyed by `int`, indexed with `double` prices), the trades, and
  `GenerateId`'s counter, which is static and so shared by every book of the process.
- Operations: `HandleOrder` (a matching loop, then the remainder rests), `CancelOrder`,
  `GetTopOfBook` (which pops heaps), `GetVolume`, `GetPreviousTrades`.
- Hard: five structures that every step must keep in agreement; levels that become empty in three
  ways (fill, wash trade, cancellation) and leave the heap in three others; prices with fractions;
  volumes summed in an `int`; the loop's `continue`s; an order out of line but still in the map
  after a wash trade.
- Correct when: no level points at an erased order, no share is lost or counted twice, trades
  honour price and time priority, the book the heaps see never crosses, `HandleOrder` returns,
  and its result adds up to what was sent.

### Exchange - `src/Exchange/exchange.cpp`
- State: a book per ticker, `trades_by_user_`, the registered users. None of it is locked.
- Operations: `HandleOrder` (book, then record each trade under buyer and seller),
  `RegisterUser`, `CancelOrder`, `GetTopOfBook`, `GetTradesByUser`, `GetTickers`, ...
- Called by all workers of the server at the same time.
- Hard: one map and one set for all users, and a vector each, that any thread changes at any
  time; find-then-insert in `RegisterUser`; books that match at the same time and draw ids from
  one counter; trades recorded later than they are made, and in another order.
- Correct when no two calls are in a data race (nothing is promised after one, and nothing in the
  code prevents it): ids are unique over all books, what is recorded under a user was traded by
  him and is there once, a trade is missing only until its thread has recorded it, and a user is
  registered once unless two threads looked for him before either inserted him.

### Server - `src/server/server.cpp`
- State: the queue of accepted sockets and its mutex; each worker's `client_socket`.
- Operations: `start` (listen, start workers, accept, queue), `worker_thread` (poll the queue, take
  a socket), `handle_client` (receive, handle, answer, until the client hangs up).
- Hard: a file descriptor is reused as soon as it is closed; clients hang up between any two
  steps; a request whose handling throws, or that comes in pieces, must be answered too; a
  worker stays with one client, so others wait in the queue, for a descriptor or in the backlog;
  idle workers poll the queue under its mutex without a pause; an answer to a client that has
  hung up may end the process (`SIGPIPE`, which nobody handles); on two cores no worker starts.
- Correct when: every open socket has exactly one owner, an answer reaches the client that
  asked, a served client is answered, a queued client is served if fewer clients stay than there
  are workers, and only polling can keep the acceptor from the mutex, until the process ends.
- `main.cpp` makes a server with six tickers and runs `start`; its thread is the acceptor.

### Portfolio - `src/portfolio/portfolio.cpp`
- State: cash, realized profit, and per ticker the net shares and their average cost.
- Operations: `Trade` (open, add, reduce, flip), unrealized profit of one or all tickers,
  `ComputeTotalValue`.
- Hard: the signs of short positions, averages that are not whole, closing and reopening in
  one fill.
- Correct when: money is conserved, an average lies between the prices it averages, and a fill
  makes no profit at its own price.

### Trading bots - `trading_bots/tests/stress_trading.py`
- State: per bot, the prices it has read and the ids it was told in this round.
- Operations: the rounds of market makers (quote both sides, cancel both), adversarial traders
  (place, cancel) and high-frequency traders (hit both sides of a large spread), and a printer.
  Each request is a connection of its own.
- Hard: between any two requests of a round other bots trade; an order is filled, partly or
  whole, or washed out of line by its owner's next order, before it is cancelled; a request fails
  before the server has handled it, or after; an exception ends a round in the middle.
- Correct when: a bot only ever cancels its own orders, and the orders of a round go with it if
  no request of the round fails (they do not all: section 6).

### Not modelled
- `risk` is a build file without code.
- The other scripts of `trading_bots/` send single requests as the modelled one does; what a
  person types is not a program's behaviour; `stoikov_mm.py` is empty.
- Tests and build files. The tests were read as statements of what the code should do.

## 2. Modules

| Module | Models | Builds on |
| --- | --- | --- |
| `FifoQueue` | what a price level promises | |
| `PriceLevelQueue` | the linked list and its flag | implements `FifoQueue` |
| `MatchingEngine` | what a book promises | |
| `LimitOrderBook` | one book | levels as `FifoQueue` has them; implements `MatchingEngine` |
| `StressBots` | the bots of `stress_trading.py` on one book | extends `LimitOrderBook` |
| `Exchange` | all books and users, several threads | what it sees of a book |
| `Server` | sockets, queue, mutex, threads | clients and kernel as environment |
| `Portfolio` | one trader's accounts | |
| `CommonLemmas` | facts about sequences, sums over finite sets, division | library theorems |
| `PriceLevelQueueProofs` | theorems about the list | `PriceLevelQueue`, `CommonLemmas` |
| `LimitOrderBookProofs` | the book's inductive invariant and its accounts | `LimitOrderBook`, `CommonLemmas` |
| `MatchingProofs` | prices and turns, the engine, the loop's end | `LimitOrderBookProofs` |
| `StressBotsProofs` | what bots do to the book and to its orders | `StressBots`, `MatchingProofs` |
| `ServerProofs` | owners of sockets, answers | `Server`, `CommonLemmas` |
| `ExchangeProofs` | ids, records, registrations | `Exchange`, `CommonLemmas` |
| `PortfolioProofs` | the money of a portfolio | `Portfolio`, `CommonLemmas` |
| `MC*` | values of the constants for TLC | the modules they name |

The parts are composed by layers: the book is written against the queue the list is shown
(and proved) to implement, the bots against the whole book, the exchange against the ids and
trades of its books, the server leaves what a request does to the exchange. An operator whose name
starts with `Broken` is a definition with a slip in it, such as a dropped test; no specification
uses one. Each property has one that makes it fail, which shows that the property can tell.

### How state and actions correspond to the code

`PriceLevelQueue`. `next`, `prev` and `has_orders` are the fields. A call is one action per
outcome, with every pointer assignment; `result` is what it returned or threw. `line` is
auxiliary: no action reads it, and it records who joined and left, for the invariants. The
book builds a node for each `AddOrder`, so a node comes with null pointers. `Peek` of a level
whose flag is false is never called by the book but is modelled: the class allows it.

`LimitOrderBook`. The variables are the fields, without trailing underscores. `HandleOrder` is an
action for the checks and the clean-up of both heaps, one per turn of the loop (`SkipEmptyLevel`,
`CancelWashTrade`, `Fill`), and one for its end (`ReturnFilled`, `RestRemainder`); `call` is its
locals and, afterwards, its `OrderResult`. The other calls are one action each and wait while one
is matching: a book that one thread uses at a time. A heap is a set of levels, since only its top
is ever looked at; `PopUntil` is what repeated popping leaves. Prices are whole numbers of ticks,
`TicksPerUnit` to a unit, so that the conversions to `int` (keys of the volume maps, the price in a
`Trade`) drop a fraction as they do in the code: a trade at 1.50 is recorded at 1. Volumes are
added up in an `int` that ends at `IntMax` and wraps around, which is what the builds do (the
standard leaves it undefined). `CancelOrder` takes the volume, unlinks the order if it is still in
line, and erases it. Queries that change nothing are operators. `committed` is auxiliary: what each
user has sent and not cancelled. `OtherBookGeneratesId` is another book using the static counter,
at any time.

`StressBots`. A bot's `at` is the line of its round it is about to execute, `first` and `second`
the `order_id`s it was told. The server is taken to have one worker, so that the book handles a
request at a time; requests of different bots come in any order. Any request may fail
(`send_request` returns an error), before it is handled or after: `Abandon` is the `KeyError`
this ends in, wherever the answer's `order_id` or `success` is asked for, and a top of the book
that could not be read is taken for `BASE_PRICE`. `abandoned` is auxiliary: the orders of rounds
cut short in this way, also those the bot was never told of. The other exceptions - a cancellation
of an order that is gone, a test of an order that got no answer - are the branches of `CancelFirst`
that return to `Start`. A randomly drawn price or volume is any of a set, a constant for each kind
of bot.

`Exchange`. A thread's `task` is the call it is in: `step` is the container it uses and what
for, and it is `inside` from `Enter` to `Leave`, when it has done what it does there (in a book,
one step per trade). Two threads inside one container at the same time, one of them to change it,
are a `DataRace`: two calls in one book; a call that inserts into `trades_by_user` and any other
that is in it; two pushes, or a push and a copy, of one user's vector; an insertion into `users`
and any other call there. The containers are node-based, so an insertion moves no entry, and the
vectors of two users are apart. A data race makes `undefined` true and ends the behaviour: the
standard promises nothing from there on, and neither does the model, so that every property of
the exchange is of the runs up to that point. In them calls interleave container by container,
and `RegisterUser`'s look and insertion are two visits. The counter of the books is atomic and may
be used by two threads at once. Of a book the model has what the exchange and its callers can
tell: the orders with their owners and sides, the ids, the trades. `granted` and `contested` (the
users that two threads looked for before either inserted them) are auxiliary.

`Server`. `pc` is where each thread is: `Listen`, `StartWorker`, `AllStarted`, `Accept`,
`LockToPush`, `Push` of the acceptor; `LockToTake`, `FoundEmpty`, `LookAtFront`, `Pop`,
`Receive`, `Reply`, `Close` of a worker. The kernel's side is `peer` (descriptor to client),
`pending` (the backlog), `sent`, `answer`; a descriptor is the lowest one free, and `accept`
waits while there is none. A `recv` returns a request, or a first piece and later the rest,
which the server takes for two malformed requests; `whole` is auxiliary and says whose requests
came whole. A client connects and hangs up; those in `Asking` send a request when they wait for
none, read the answer, and hang up between requests; those in `Abrupt` also while they wait for an
answer. An answer to a client that has hung up is lost (`Reply`), or the signal it raises ends
the process with its threads, queue and connections (`Killed`); from then on nobody is served.

`Portfolio`. `Trade` is one action per branch. Amounts are exact fractions in lowest terms, so
that equal amounts are equal values; the denominator is the least one that suits, which needs no
recursion. Every ticker has a position from the start; without shares it is as good as none.
`paid` is auxiliary: the prices a position was built up at.

## 3. Runs

| Run | Question | Distinct states |
| --- | --- | --- |
| `price_level_queue` | do the pointers spell the line, is the flag exact, is it a FIFO | 449 |
| `order_book` | are the book's structures consistent, priority honoured, shares conserved, does the loop run out | 618 thousand |
| `portfolio` | do cash, positions and realized profit balance | 28 thousand |
| `exchange` | unique ids, faithful records, nothing lost or repeated without a race | 548 thousand |
| `server` | one owner per socket, answers to the right client; who is answered, and who waits for a worker, a descriptor or the mutex, and how long | 145 thousand |
| `stress_bots` | do bots cancel only what is theirs, does that order end with the round, is the book an engine, do calls return | 415 thousand |
| six more | what the repository says and the code does not do, section 6 | |

Bounds, and why they are enough:
- `price_level_queue`: four orders of the level's price and one of another. A removal can be
  at the head, at the tail, in the middle, next to another removal, or of the last order.
  Orders come back after they have left. No bound on the number of calls.
- `order_book`: two users (wash trades need one, trades two), volumes 1 and 2 (partial and full
  fills) and 0 (refused), prices 1.50, 2.00 and 2.50 and 0 (refused): two of them share a whole
  unit, one has a fraction of its own. `MaxId` is 4: up to four orders and trades, enough to fill a
  level, refill it, and match over two levels. An order starts only if the ids it may need are
  left, and another book leaves them to it, so that the bound never cuts a call short. Users are
  interchangeable and the run uses that symmetry. An `int` ends at 2, so that two orders at one
  unit overflow it.
- `portfolio`: two tickers, five fills of one or three shares either way at prices 1 and 4;
  every branch is reached and averages are not whole. It stops after its last fill,
  so deadlock is not checked there.
- `exchange`: two threads, two tickers and two users, four ids, two to an order: both threads
  match in different books at the same time, or have trades of one book to record for the same two
  users, or one has two trades in a result. A data race is reached in a book, in the map of users, in
  a vector and in the set. (That two trades of different books are recorded at the same time needs
  more ids than a run of a few minutes has; the theorems of section 4 have any number.)
- `server`: three clients over two workers, two descriptors and a backlog of two, no symmetry and
  no bound on steps: a connection has to wait in the backlog, in the acceptor's hands and in the queue,
  and descriptors are reused. One client sends requests, one that is answered and one that throws,
  either of which may be split, and may hang up before the answer; the others connect, stay as long as
  they like, and hang up. An answer that went astray would reach one of them, or a later connection
  of the first. (The theorems of section 4 have any number that ask.)
- `stress_bots`: a bot of each kind, five ids, and no symmetry. Two ticks to a unit; adversaries
  draw 1.50 or 3.00 and two shares, high-frequency traders one share or two, market makers send
  one: an order is filled in part and in whole by either. The spread is now and then more than 1,
  so that all three kinds trade; quotes go down to nothing, which is refused before it is sent.
  `BasePrice` is 2.00. Every request may fail. A round starts only if the ids
  that it and the rounds in progress may need are left, so that the bound cuts no round short.

### Fairness

- `LimitOrderBook`: weak fairness of `HandleOrderStep`: the thread inside a call keeps running
  (nothing in the call blocks). Nobody owes the book an order.
- `StressBots`: weak fairness of the book's steps: the worker that handles an order keeps running.
  Bots owe nothing.
- `Server`: weak fairness of the acceptor's steps and of each worker's: a thread that can always
  go on does. `std::mutex` is not fair, idle workers take it again without a pause, and nothing is
  assumed against it: a thread may find the mutex taken for ever. Clients owe nothing: they
  may stop for ever, hang up, or never read.
- What can be said of waiting clients is conditional, as the code is, and the condition is in each
  property, the process not ending among them. A worker stays with a client as long as the client
  stays: with fewer staying clients than workers (`FewClientsStay`) a queued connection is served,
  whichever thread the mutex favours, for the threads that take it find the queue filled
  (`QueuedClientsAreServed`). A connection in the backlog is accepted if moreover the acceptor is
  not kept from the mutex for ever (`PendingClientsAreAccepted`). And if it is, then by workers
  that poll the empty queue for ever (`OnlyPollingKeepsTheAcceptorOut`), which the code does not
  exclude.

## 4. What is proved

All theorems are for any values of the constants that satisfy the modules' named assumptions
(`OrderAssumption`: orders, sentinels, null and the non-answer are different things;
`BookAssumption`: prices are natural numbers of ticks, volumes are integers, at least one tick to a
unit, nobody is not a user; `ServerAssumption`: acceptor, workers and the absent thread are
different, pieces are no requests, as many workers as cores less two; `ExchangeAssumption`: the
absent user and ticker are none; `PortfolioAssumption`: finitely many tickers, volumes are
integers, prices natural numbers, the cash at the start an integer; `BotsAssumption`: a bot is of
one kind, what it sends or draws is among the prices and volumes of the book, the middle between
two prices is a number of ticks, and `BasePrice` is a natural number). Any number of orders, users,
prices, volumes, ids, threads, tickers, clients, cores and descriptors.

`PriceLevelQueueProofs`: `TypeCorrect`, `ListIsTheLine`, `FlagAgreesWithList`,
`ListImplementsFifo`. The invariant is the type, `PointersSpellLine`, `NobodyTwice` and
`HasOrdersTruthful`. `NobodyTwice` is the strengthening: without it a removal could leave a
second occurrence behind and the pointers would not determine who is next. Each action is
shown to turn the walk from sentinel to sentinel into the walk along the new line. With the
invariant each call is a step of `FifoQueue`, or leaves it alone, which is the refinement.

`LimitOrderBookProofs`: `BookTypeCorrect`, `LinesHoldLiveOrders`, `CancelFindsTheLevel`. The
inductive invariant `IInv` is `TypeOK`, `LevelsHoldLiveOrders`, `EveryOrderHasItsLevel` and
`CallInProgress`. The last says that an order in the loop passed the checks and that the ids
it may draw are within the bound: without it the type of a resting order and of the counter
cannot be kept. `LevelsHoldLiveOrders` needs ids to increase along a line: so a fill or a
cancellation that erases an order from the map takes its only occurrence out of line.

The accounts, in the same module: `VolumesAddUp`, `HeapsHideNoOrder`, `NoShareIsLost`, `ResultAddsUp`.
They are about sums over sets of orders and trades, for sets of any size. No induction rule is
used: if something fails for a finite set, it fails for a smallest subset (`MinimalSubset`, from
the library's well-founded orderings), and that is led to a contradiction. So `CommonLemmas` shows
that a sum is the sum without one member and that member. Every call changes the volume of one order
at most (`OrderChanges`: it appears, shrinks or goes), and each sum moves by as much.
- `VolumesAddUp`: the book wraps the kept volume at each change, the property the sum at the end; they
  agree since remainders of sums are remainders of sums of remainders.
- `HeapsHideNoOrder`: a level with orders has a sum above zero, so that `GetTopOfBook` pops it only
  if an `int` could not hold the sum. The condition on `int`s is the property's own.
- `NoShareIsLost`: a fill takes from the resting order and from the one in the loop what it adds to the
  trades of both users.
- `ResultAddsUp`: `ResultInv` adds what holds in the loop, that no id is handed out yet and that the
  trades so far and the volume left are what was asked (`ResultInProgress`).

`MatchingProofs`, on that invariant: `TradesHonourPriority` (a trade takes from the order
with price and time priority among those the heap can see: by the heap's order between levels,
by the increasing ids within one), `TradesHonourThePrice` (only a fill takes from an order, from
the head of its level, which matches; the units of its price are at most the buyer's limit, and one
more is above the seller's), `WashedOrdersNeverReturn` (lines only ever lose ids, but for
a new one), `VisibleBookNeverCrosses` (an order comes to rest only when the best visible level
of the other side does not match it; heaps and lines otherwise only lose orders).

`BookImplementsEngine`, there too. The engine's resting orders are the orders of
the map that stand in a line; its incoming order is the one in the loop. On `IInv`, an order
taken out of its line was in no other (ids increase along a line, and a line has only orders
of its side and price), so a wash trade is `StepAside`, a fill `TradeWith` of the order at the
head (which crosses, since `PricesMatch` was tested on the level it stands in), coming to rest
`Rest`, a cancellation `Withdraw`, or nothing if a wash trade had taken the order out before.
What happens to heaps and volumes, the engine does not see.

`TheLoopRunsOut` and `TheLoopNeverHangs` are what `EveryOrderReturns` rests on. The volume still to be
matched, the orders in line and the levels of the other heap are together a natural number
(`HeapsFinite`: a level comes on a heap one at a time), and each turn lowers it: a fill the volume, a
wash trade the orders in line, an empty level the heap. And as long as the loop is on, a turn or its end is
possible: a heap with levels has a top, which is empty, or matches, or stops the loop.

`StressBotsProofs`: `BotsTypeCorrect`, `BotsTradeOnAnEngine`, `BotsOnlyCancelTheirOwn`,
`FirstOrdersEndWithTheRound`, under the hypothesis `PositivePrices`: the book takes every price above
0, since a quote lies wherever the top of the book puts it (the run has a bounded set of prices
and checks that quotes stay in it). Prices and volumes are drawn from any sets, and any request may
fail. Each step of a bot is a step of the book or leaves it alone, so
the book's invariant holds under the bots and with it the refinement. `BotsIInv` adds what a
bot remembers at each line of its round (`BotsRemember`: no id above the counter, so that a new
order never gets an id somebody else holds), that the order a round cancels first is the one its
owner remembers (`OrdersRemembered`), and whose order is in the book's loop (`BotWaits`). A round
that ends early, on an exception, ends only after that order is known to be gone, or a request of the
round has failed and the order is among those abandoned.

`ServerProofs`: `TypeCorrect`, `SocketsHaveOneOwner`, `AnswersAreTheClientsOwn`. The inductive
invariant `QInv` adds to the type and `EverySocketHasOneOwner` what the proof turns on: which
places a thread of each kind can be at (`PcOK`), that a thread at one of the steps under the lock
holds the mutex (`MutexOK`), and what `socket` says at each place (`SocketOK`: at `pop` it is the
queue's front). Without `MutexOK` another worker could take the front between the look and the
pop. `AInv` adds that two open descriptors have different clients and that a client is in the
backlog, or behind a descriptor, or away (`ConnOK`), and where the one request of a client that
sent it whole is: on its way, in its worker's hands, or answered (`AnswerOK`).

`ExchangeProofs`: `TypeCorrect`, `IdsAreUnique`, `UsersAreRegisteredOnce`, `TradesAreRecorded`,
`RecordsAreTrue`, each of the runs that no data race has ended. `BooksInv` adds to the type and
`UniqueIds` that no id is above the counter (`IdsOK`) and what a call is at each of its steps
(`CallsOK`). `RegistersOK` says that, unless a user is contested, one thread at most is to insert
him, and if he was granted it was once, he is in `users`, and nobody is to insert him again.
`TradesInv` ties the users' vectors to the calls: each trade is under both its users or still to be
recorded there (`NothingLost`), the trades of a call were made by a book and no other call has them
(`CallTradesOK`), and a vector holds trades that were made, each once, and none still to be
recorded (`RecordsOK`). Most steps change neither trades nor entries but one call's, and are
treated together (`CalmStep`); the work is in a trade, an entry and a push.

`PortfolioProofs`: `PortfolioTypes`, `CashIsAccountedFor`, `FillsAreFair`, `AveragesAreHonest`. An
amount in lowest terms hides the arithmetic, so an amount is compared through what it is `Worth`: a
whole number of parts of 1 / d. Any three amounts have a common d, sums and products are sums and
products of the numbers, and an amount is determined by its worth (`WorthUnique`): equal fractions are
suited by the same denominators, hence by the same least one. Each branch of `Trade` is then `Balanced`: the
cost of the position and the profit realized change, in the same parts, by what the fill cost; with a
sum over tickers of which one changes, that is `CashIsAccountedFor`, and with the position
marked at the fill's price, `FillsAreFair`. For `AveragesAreHonest` the new average is, in the
same parts, between the old one and the fill's price: long and short, since the shares that are
weighed have the sign of the fill, or it is one of the two.

## 5. What is only model-checked, and why

- Liveness (`EveryOrderReturns`, `ServedClientsAreAnswered`, `QueuedClientsAreServed`,
  `PendingClientsAreAccepted`, `OnlyPollingKeepsTheAcceptorOut`): the prover has no rules for
  fairness and ENABLED. Of `EveryOrderReturns` what is left to the runs is the step from "every
  turn lowers a number, and one is always possible" to "the loop ends", which is where the fairness
  comes in.
- All other properties of the passing runs have a theorem.

## 6. Where the code and what is said of it disagree

Each has a run that shows it.
- `book_hides_orders`: a level popped when it empties stays in the map of levels, and only a
  new level is pushed. Orders that rest at that price later are in line, but `GetTopOfBook`
  does not report them and `HandleOrder` does not match them.
- `book_phantom_volume`: `GetVolume` counts an order that a wash trade took out of line, until
  it is cancelled by its id.
- `book_drops_fractions`: the price of a `Trade` is an `int`, so that two orders that meet at 0.50
  trade at 0 by the record, and an ask at 1.50 is recorded as sold at 1. What does hold,
  `TradesAreAtTheRestingPrice`: less than a unit is lost, and never the buyer's.
- `portfolio_value`: `ComputeTotalValue` adds realized profit, which is in the cash already,
  and leaves out what the positions cost. Its tests repeat the formula of the header.
- `exchange_registers_twice`: two threads may register one user and both be told it is new, also
  when nothing they do overlaps.
- `bots_leave_orders`: a market maker whose first quote was not sent, or is gone before its
  cancellation (so that the answer has no `success`), raises, and the exception skips the second
  cancellation; no request has to fail for it.

Beside these, without a run: the bots send 1 as the `order_type` of what they call a buy, and 1 is
`ASK` in `order_type.hpp`, so that a market maker's quotes cross each other and the first is washed
out unless it trades; an empty book is answered with prices of 0, so that `BASE_PRICE`, "Default
starting price", is a market maker's middle only after a request that failed; nothing keeps the
workers from data races in the exchange, of which the repository says nothing either way.

## 7. What the models leave out

- Book: an order for another ticker (refused before anything changes), timestamps, the test with
  1e-6 in `PricesMatch` (a tick is more than that), overflow of the id counter, values of
  `order_type` other than ASK and BID (no client of the repository sends one), and two threads in
  one book, which is a data race on every structure (`Exchange` has it). `MatchingEngine` does not
  promise that an order finds all it crosses.
- Exchange: whatever happens after a data race. Two accesses that do not overlap are taken to see
  each other, though nothing synchronizes them. An order that a wash trade took out of line may
  still trade here. The queries change nothing in the exchange; what they do to a book is in
  `LimitOrderBook`.
- Server: a set-up of the listening socket that fails (the process ends), two requests that
  arrive together (its clients send one at a time), requests in more than two pieces, and the parsing
  and the text of requests and answers. A process that has ended is not started again.
- Bots: answers that are neither whole nor an error, the delays, and a server of several workers,
  under which two calls may meet in one book.
- Portfolio: the rounding of doubles.

## 8. Plan

Done: the components above with their runs, and proofs of all their invariants, action properties
and refinements.

Next, in this order:
1. The safety half of `ServedClientsAreAnswered`: a worker that holds a request can always take a step,
   and each one brings the answer nearer.
2. A third value of `order_type`, should a client send one.
