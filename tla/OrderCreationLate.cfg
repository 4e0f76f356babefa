CONSTANTS
  p1 = p1
  Products <- MCProducts
  Orders = {o1}
  MaxInt = 2
  Baskets <- MCBaskets
  NoLegacy = NoLegacy
  Crons = {c1}
  Nobody = Nobody
SPECIFICATION CreationSpec
INVARIANTS
  LiveOrderHoldsStock
