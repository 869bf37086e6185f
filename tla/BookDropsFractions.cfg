SPECIFICATION Spec
CONSTANTS
  alice = alice
  bob = bob
  NoUser = NoUser
  User <- MCUser
  Price <- MCHalfUnit
  TicksPerUnit <- MCTicksPerUnit
  Volume <- MCVolume
  IntMax <- MCRoomyInt
  MaxId <- MCMaxId
PROPERTY TradesShowTheirPrice
