SPECIFICATION Spec
CONSTANTS
  Ticker = {AAPL, TSLA}
  Volume <- MCVolume
  Price <- MCPrice
  InitialCash <- MCInitialCash
  MaxTrades <- MCMaxTrades
INVARIANTS
  TypeOK
  CashIsInPositionsOrRealized
  AverageWithinPricesPaid
PROPERTY FillsMakeNoProfitAtTheirPrice
CHECK_DEADLOCK FALSE
