SPECIFICATION Spec
CONSTANTS
  alice = alice
  bob = bob
  NoUser = NoUser
  User <- MCUser
  Price <- MCPrice
  TicksPerUnit <- MCTicksPerUnit
  Volume <- MCVolume
  IntMax <- MCIntMax
  MaxId <- MCMaxId
INVARIANTS
  TypeOK
  LevelsHoldLiveOrders
  EveryOrderHasItsLevel
  VolumeAccounting
  VisibleBookUncrossed
  SharesConserved
  OrderResultAccountsForTheOrder
PROPERTIES
  OnlyEmptyLevelsLeaveTheHeap
  PriceTimePriority
  TradesAreAtTheRestingPrice
  WashedOrdersStayOut
  TurnsRunOut
SYMMETRY MCSymmetry
