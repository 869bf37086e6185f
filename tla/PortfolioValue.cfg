SPECIFICATION Spec
CONSTANTS
  Ticker = {AAPL}
  Volume <- MCVolume
  Price <- MCPrice
  InitialCash <- MCInitialCash
  MaxTrades <- MCMaxTrades
INVARIANT TotalValueIsMarkToMarket
CHECK_DEADLOCK FALSE
