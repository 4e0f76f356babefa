CONSTANTS
  p1 = p1
  p2 = p2
  Products <- MCProducts
  Orders = {o1, o2}
  MaxInt = 1
  Baskets <- MCBaskets
  NoLegacy = NoLegacy
  Rank <- MCRank
  Txs = {t1, t2}
  NoTx = NoTx
SPECIFICATION FairSpec
INVARIANTS
  TxTypeOK
  NoCircularWait
PROPERTIES
  TransactionsAreAtomic
  CallsEnd
