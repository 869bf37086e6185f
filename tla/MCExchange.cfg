SPECIFICATION Spec
CONSTANTS
  alice = alice
  bob = bob
  w1 = w1
  w2 = w2
  AAPL = AAPL
  GOOG = GOOG
  NoUser = NoUser
  NoTicker = NoTicker
  User <- MCUser
  Thread <- MCThread
  Ticker <- MCTicker
  OrderIds <- MCOrderIds
  MaxId <- MCMaxId
INVARIANTS
  TypeOK
  IdsNeverRepeat
  RecordedTradesWereMade
  TradesAreLostOnlyInRaces
  RegistrationRepeatsOnlyInRaces
SYMMETRY MCSymmetry
