CONSTANTS
  Products = {p1}
  MaxStock = 2
  Stocks = {1, 2}
  Requests = {r1, r2}
  Orders = {o1, o2}
  None = None
SPECIFICATION FairSpec
INVARIANTS
  CartTypeOK
  QuantitiesWereOnTheShelf
  OrderedItemsLeave
PROPERTIES
  ChangesAreSerial
  RequestsEnd
