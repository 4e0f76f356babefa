CONSTANTS
  p1 = p1
  Products <- MCProducts
  Orders = {o1}
  MaxInt = 2
  Baskets <- MCBaskets
  NoLegacy = NoLegacy
  Crons = {c1, c2}
  Nobody = Nobody
SPECIFICATION CreationFairSpec
PROPERTIES
  IntentsAreSettled
  FailedCreationReturnsStock
