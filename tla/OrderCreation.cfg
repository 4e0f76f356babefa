CONSTANTS
  p1 = p1
  Products <- MCProducts
  Orders = {o1, o2}
  MaxInt = 2
  Baskets <- MCBaskets
  NoLegacy = NoLegacy
  Crons = {c1, c2}
  Nobody = Nobody
SYMMETRY MCSymmetry
SPECIFICATION CreationSpec
INVARIANTS
  CreationTypeOK
  NoHoldWithoutRecord
  FencedOrderHoldsStock
PROPERTIES
  ImplementsPlacement
