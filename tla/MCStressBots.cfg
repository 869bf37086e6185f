SPECIFICATION BotsSpec
CONSTANTS
  maker = maker
  adversary = adversary
  hft = hft
  NoUser = NoUser
  User <- MCUser
  Maker <- MCMaker
  Adversary <- MCAdversary
  Hft <- MCHft
  Price <- MCPrice
  TicksPerUnit <- MCTicksPerUnit
  Volume <- MCVolume
  IntMax <- MCIntMax
  MaxId <- MCMaxId
  Spread <- MCSpread
  OrderSize <- MCOrderSize
  AdversaryPrice <- MCAdversaryPrice
  AdversaryVolume <- MCAdversaryVolume
  BasePrice <- MCBasePrice
  HftVolume <- MCHftVolume
INVARIANTS
  BotsTypeOK
  BotsCancelTheirOwnOrders
  FirstOrderEndsWithTheRound
PROPERTIES
  ImplementsMatchingEngine
  EveryOrderReturns
