SPECIFICATION Spec
CONSTANTS
  o1 = o1
  o2 = o2
  o3 = o3
  o4 = o4
  other = other
  front = front
  back = back
  null = null
  NoOrder = NoOrder
  Order <- MCOrder
  PriceOf <- MCPriceOf
  price <- MCPrice
INVARIANTS
  TypeOK
  PointersSpellLine
  HasOrdersTruthful
PROPERTY ImplementsFifoQueue
