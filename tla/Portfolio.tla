------------------------------ MODULE Portfolio ------------------------------
(***************************************************************************)
(* src/src/portfolio/portfolio.cpp: one trader's cash, positions and        *)
(* realized profit.  Trade is one action per branch: the position is        *)
(* opened, added to, reduced, or closed and opened on the other side.       *)
(*                                                                          *)
(* An average cost is a quotient, so amounts of money are fractions in      *)
(* lowest terms, <<numerator, denominator>>; the rounding of doubles is     *)
(* left out.                                                                *)
(***************************************************************************)
EXTENDS Integers, FiniteSetsExt

CONSTANTS
  Ticker,
  Volume,       \* volumes of fills: positive to buy, negative to sell
  Price,        \* prices of fills
  InitialCash,
  MaxTrades     \* bound: fills of one behaviour

ASSUME PortfolioAssumption ==
  /\ IsFiniteSet(Ticker)
  /\ Volume \subseteq Int
  /\ Price \subseteq Nat
  /\ InitialCash \in Int
  /\ MaxTrades \in Nat

VARIABLES
  cash_balance,
  realized_pnl,
  positions,     \* ticker -> net_shares and avg_cost
  paid,          \* auxiliary: ticker -> prices its position was built up at
  trades         \* auxiliary: the fills so far

vars == <<cash_balance, realized_pnl, positions, paid, trades>>

-----------------------------------------------------------------------------
(* Amounts of money.                                                       *)

Abs(n) == IF n < 0 THEN -n ELSE n

Fraction == Int \X (Nat \ {0})

\* num / den can be written with the denominator d.
Suits(num, den, d) == (num * d) % den = 0

LeastDenominator(num, den) ==
  CHOOSE d \in 1..den : Suits(num, den, d) /\ \A e \in 1..(d - 1) : ~Suits(num, den, e)

\* A fraction in lowest terms.
Amount[fraction \in Fraction] ==
  LET least == LeastDenominator(fraction[1], fraction[2])
  IN  <<(fraction[1] * least) \div fraction[2], least>>

Whole(n) == <<n, 1>>
Plus(a, b) == Amount[<<a[1] * b[2] + b[1] * a[2], a[2] * b[2]>>]
Minus(a, b) == Plus(a, <<-b[1], b[2]>>)
Times(a, n) == Amount[<<a[1] * n, a[2]>>]
Over(a, n) == Amount[<<a[1], a[2] * n>>]
AtMost(a, b) == a[1] * b[2] <= b[1] * a[2]

\* The sum of the amounts a function gives to tickers.
SumOf(amounts) == FoldFunction(Plus, Whole(0), amounts)

Min2(m, n) == IF m <= n THEN m ELSE n
SameDirection(m, n) == (m > 0 /\ n > 0) \/ (m < 0 /\ n < 0)

-----------------------------------------------------------------------------
(* Trade.  An operator named Broken... is a definition with a slip in it:   *)
(* the properties below are tried on it, and it is part of no               *)
(* specification.                                                           *)

\* positions[ticker] makes the position of a ticker it does not find.
Init ==
  /\ cash_balance = InitialCash
  /\ realized_pnl = Whole(0)
  /\ positions = [ticker \in Ticker |-> [net_shares |-> 0, avg_cost |-> Whole(0)]]
  /\ paid = [ticker \in Ticker |-> {}]
  /\ trades = 0

BrokenPay(volume, price) ==  \* a sale costs as a purchase does
  /\ trades < MaxTrades
  /\ trades' = trades + 1
  /\ cash_balance' = cash_balance - price * Abs(volume)

Pay(volume, price) ==
  /\ trades < MaxTrades
  /\ trades' = trades + 1
  /\ cash_balance' = cash_balance - price * volume

Hold(ticker, net_shares, avg_cost) ==
  positions' = [positions EXCEPT ![ticker] =
                  [net_shares |-> net_shares, avg_cost |-> avg_cost]]

OpenPosition(ticker, volume, price) ==
  /\ positions[ticker].net_shares = 0
  /\ Pay(volume, price)
  /\ Hold(ticker, volume, Whole(price))
  /\ paid' = [paid EXCEPT ![ticker] = {price}]
  /\ UNCHANGED realized_pnl

BrokenUpdatedAverage(old, volume, price) ==  \* a short position's cost is negative
  Over(Plus(Times(old.avg_cost, old.net_shares), Whole(price * volume)),
       Abs(old.net_shares + volume))

UpdatedAverage(old, volume, price) ==
  Over(Plus(Times(old.avg_cost, Abs(old.net_shares)), Whole(price * Abs(volume))),
       Abs(old.net_shares + volume))

AddToPosition(ticker, volume, price) ==
  LET old == positions[ticker]
  IN  /\ SameDirection(old.net_shares, volume)
      /\ Pay(volume, price)
      /\ Hold(ticker, old.net_shares + volume, UpdatedAverage(old, volume, price))
      /\ paid' = [paid EXCEPT ![ticker] = @ \cup {price}]
      /\ UNCHANGED realized_pnl

Sign(net_shares) == IF net_shares > 0 THEN 1 ELSE -1

BrokenPnlForClosed(old, volume, price) ==  \* of all the shares traded
  Times(Minus(Whole(price), old.avg_cost), Sign(old.net_shares) * Abs(volume))

PnlForClosed(old, volume, price) ==
  Times(Minus(Whole(price), old.avg_cost),
        Sign(old.net_shares) * Min2(Abs(old.net_shares), Abs(volume)))

\* A volume of zero reduces a position by nothing.
ReducePosition(ticker, volume, price) ==
  LET old == positions[ticker]
      new_shares == old.net_shares + volume
  IN  /\ old.net_shares # 0
      /\ ~SameDirection(old.net_shares, volume)
      /\ Abs(volume) <= Abs(old.net_shares)
      /\ Pay(volume, price)
      /\ realized_pnl' = Plus(realized_pnl, PnlForClosed(old, volume, price))
      /\ Hold(ticker, new_shares, IF new_shares = 0 THEN Whole(0) ELSE old.avg_cost)
      /\ UNCHANGED paid

BrokenFlipPosition(ticker, volume, price) ==  \* the new position keeps the old average
  LET old == positions[ticker]
  IN  /\ ~SameDirection(old.net_shares, volume)
      /\ old.net_shares # 0 /\ Abs(volume) > Abs(old.net_shares)
      /\ Pay(volume, price)
      /\ realized_pnl' = Plus(realized_pnl, PnlForClosed(old, volume, price))
      /\ Hold(ticker, old.net_shares + volume, old.avg_cost)
      /\ paid' = [paid EXCEPT ![ticker] = {price}]

FlipPosition(ticker, volume, price) ==
  LET old == positions[ticker]
  IN  /\ ~SameDirection(old.net_shares, volume)
      /\ old.net_shares # 0 /\ Abs(volume) > Abs(old.net_shares)
      /\ Pay(volume, price)
      /\ realized_pnl' = Plus(realized_pnl, PnlForClosed(old, volume, price))
      /\ Hold(ticker, old.net_shares + volume, Whole(price))
      /\ paid' = [paid EXCEPT ![ticker] = {price}]

Trade(ticker, volume, price) ==
  \/ OpenPosition(ticker, volume, price)
  \/ AddToPosition(ticker, volume, price)
  \/ ReducePosition(ticker, volume, price)
  \/ FlipPosition(ticker, volume, price)

Next == \E ticker \in Ticker, volume \in Volume, price \in Price : Trade(ticker, volume, price)

Spec == Init /\ [][Next]_vars

-----------------------------------------------------------------------------
(* What the portfolio is worth.                                            *)

ComputeUnrealizedPnL(ticker, current_price) ==
  LET pos == positions[ticker]
  IN  Times(Minus(Whole(current_price), pos.avg_cost), pos.net_shares)

\* currentPrices gives prices to some of the tickers; the others are skipped.
ComputeTotalUnrealizedPnL(currentPrices) ==
  SumOf([ticker \in Ticker \cap DOMAIN currentPrices |->
           ComputeUnrealizedPnL(ticker, currentPrices[ticker])])

ComputeTotalValue(currentPrices) ==
  Plus(Plus(Whole(cash_balance), realized_pnl), ComputeTotalUnrealizedPnL(currentPrices))

-----------------------------------------------------------------------------
(* What must hold.                                                         *)

IsAmount(a) == a \in Fraction /\ a = Amount[a]

\* Shares are whole numbers and averages are amounts that are never negative.
TypeOK ==
  /\ cash_balance \in Int
  /\ IsAmount(realized_pnl)
  /\ positions \in [Ticker -> [net_shares : Int, avg_cost : Fraction]]
  /\ \A ticker \in Ticker :
       /\ IsAmount(positions[ticker].avg_cost)
       /\ AtMost(Whole(0), positions[ticker].avg_cost)
  /\ paid \in [Ticker -> SUBSET Price]
  /\ trades \in 0..MaxTrades

Cost(ticker) == Times(positions[ticker].avg_cost, positions[ticker].net_shares)

\* The books balance after any mix of openings, additions, partial closings and
\* flips over several tickers: the cash that is gone is in the cost of the
\* positions, but for the profit realized.
CashIsInPositionsOrRealized ==
  Plus(Whole(cash_balance), SumOf([ticker \in Ticker |-> Cost(ticker)]))
    = Plus(Whole(InitialCash), realized_pnl)

\* The average cost of a position lies between the prices it was built up at
\* since it was last opened or flipped; reducing it does not move it there.
AverageWithinPricesPaid ==
  \A ticker \in Ticker :
    positions[ticker].net_shares # 0 =>
      /\ \E price \in paid[ticker] : AtMost(Whole(price), positions[ticker].avg_cost)
      /\ \E price \in paid[ticker] : AtMost(positions[ticker].avg_cost, Whole(price))

\* A fill makes no profit at its own price: what the position gains in realized
\* profit it loses in unrealized profit marked at the price of the fill, in
\* every branch of Trade.
FillsMakeNoProfitAtTheirPrice ==
  [][\A ticker \in Ticker, volume \in Volume, price \in Price :
       Trade(ticker, volume, price) =>
         Plus(realized_pnl, ComputeUnrealizedPnL(ticker, price))
           = Plus(realized_pnl, ComputeUnrealizedPnL(ticker, price))']_vars

-----------------------------------------------------------------------------
(* What the repository says of the portfolio and the code does not do.     *)

\* portfolio.hpp:58, the value is the "mark-to-market" one: cash and the
\* positions at current prices.  The code adds to the cash the realized profit,
\* which is in the cash already, and leaves out the cost of the positions.
TotalValueIsMarkToMarket ==
  \A currentPrices \in [Ticker -> Price] :
    ComputeTotalValue(currentPrices) =
      Plus(Whole(cash_balance),
           SumOf([ticker \in Ticker |->
                    Whole(positions[ticker].net_shares * currentPrices[ticker])]))
=============================================================================
