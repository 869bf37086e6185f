SPECIFICATION Spec
CONSTANTS
  alice = alice
  bob = bob
  NoUser = NoUser
  User <- MCUser
  Price <- MCFewPrices
  TicksPerUnit <- MCWholeUnits
  Volume <- MCVolume
  IntMax <- MCRoomyInt
  MaxId <- MCMaxId
INVARIANT TopOfBookShowsTheBestOrder
