CONSTANTS
  p1 = p1
  Products <- MCProducts
  Orders = {o1, o2}
  MaxInt = 2
  Baskets <- MCBaskets
  NoLegacy = NoLegacy
  Readers = {r1}
  All = All
  None = None
  MaxDue = 2
SPECIFICATION Spec
INVARIANTS
  LedgerTypeOK
  UnitsConserved
  StaleOnlyByRace
PROPERTIES
  ReleasedIsFinal
