------------------------- MODULE StockLedger_proofs -------------------------
(***************************************************************************)
(* What StockLedger guarantees for every catalogue, every set of orders    *)
(* and every width of the stock column: the column's range, in particular  *)
(* that nothing is oversold, the finality of releases, and that no unit is *)
(* lost or counted twice.                                                  *)
(***************************************************************************)
EXTENDS StockLedger, FiniteSetTheorems, WellFoundedInduction, TLAPS

\* An item list always names a quantity in the column's range.
LEMMA NoItemsIsList == NoItems \in ItemLists
  BY LedgerAssumption DEF NoItems, ItemLists

\* An empty ledger with some stock on the shelves has the right types.
LEMMA LedgerInitType == LedgerInit => LedgerTypeOK
<1> SUFFICES ASSUME LedgerInit PROVE LedgerTypeOK
  OBVIOUS
<1>1. AbsentRow \in Rows
  BY NoItemsIsList DEF AbsentRow, Row, Rows
<1> QED
  BY <1>1, LedgerAssumption DEF LedgerInit, LedgerTypeOK

\* A reserve that is applied leaves every product with stock in range: the
\* conditional UPDATE saw the units it takes.
LEMMA ReserveKeepsType ==
  ASSUME LedgerTypeOK, NEW o \in Orders, NEW items \in ItemLists,
         Reserve(o, items)
  PROVE  LedgerTypeOK'
<1>1. CASE MayReserve(o, items)
  <2>1. \A p \in Products : items[p] \in 0..MaxInt /\ stock[p] \in 0..MaxInt
    BY DEF ItemLists, LedgerTypeOK
  <2>2. \A p \in Products : stock[p] - items[p] \in 0..MaxInt
    BY <1>1, <2>1, LedgerAssumption DEF MayReserve, Available, Listed
  <2>3. Row("reserved", items) \in Rows
    BY DEF Row, Rows
  <2>4. ledger' = [ledger EXCEPT ![o] = Row("reserved", items)]
        /\ stock' = [p \in Products |-> stock[p] - items[p]]
        /\ UNCHANGED <<catalogue, removed, supplied>>
    BY <1>1 DEF Reserve, MayReserve, AlreadyReserved, Row
  <2> QED
    BY <2>2, <2>3, <2>4 DEF LedgerTypeOK
<1>2. CASE AlreadyReserved(o, items) /\ UNCHANGED ledgerVars
  BY <1>2 DEF LedgerTypeOK, ledgerVars
<1> QED
  BY <1>1, <1>2 DEF Reserve

\* The row a release works on is a row of the table.
LEMMA RowToReleaseType ==
  ASSUME LedgerTypeOK, NEW o \in Orders,
         NEW legacy \in ItemLists \cup {NoLegacy}
  PROVE  RowToRelease(o, legacy) \in Rows
  BY NoItemsIsList DEF RowToRelease, Row, Rows, LedgerTypeOK

\* A release gives back no more than the column holds.
LEMMA ReleaseKeepsType ==
  ASSUME LedgerTypeOK, NEW o \in Orders,
         NEW legacy \in ItemLists \cup {NoLegacy}, Release(o, legacy)
  PROVE  LedgerTypeOK'
<1> DEFINE row == RowToRelease(o, legacy)
           back == UnitsBack(row)
<1>1. row \in Rows
  BY RowToReleaseType
<1>2. back \in ItemLists
  BY <1>1, NoItemsIsList DEF UnitsBack, Rows
<1>3. \A p \in Products : back[p] \in 0..MaxInt /\ stock[p] \in 0..MaxInt
  BY <1>2 DEF ItemLists, LedgerTypeOK
<1>4. \A p \in Products :
        (IF p \in catalogue THEN stock[p] + back[p] ELSE stock[p]) \in 0..MaxInt
  BY <1>3, LedgerAssumption DEF Release
<1>5. RowAfterRelease(o, row) \in Rows
  BY <1>1 DEF RowAfterRelease, Row, Rows
<1>6. \A p \in Products :
        (IF p \in catalogue /\ ledger[o].status = "absent"
         THEN supplied[p] + back[p] ELSE supplied[p]) \in Int
  BY <1>3 DEF LedgerTypeOK
<1> QED
  BY <1>4, <1>5, <1>6 DEF Release, LedgerTypeOK

\* Administrators write numbers of the column's range.
LEMMA AdminKeepsType ==
  ASSUME LedgerTypeOK, NEW p \in Products,
         \/ \E n \in 0..MaxInt : CreateProduct(p, n) \/ SetStock(p, n)
         \/ RemoveProduct(p)
  PROVE  LedgerTypeOK'
<1>1. ASSUME NEW n \in 0..MaxInt, CreateProduct(p, n)
      PROVE  LedgerTypeOK'
  BY <1>1, LedgerAssumption DEF CreateProduct, LedgerTypeOK
<1>2. ASSUME NEW n \in 0..MaxInt, SetStock(p, n)
      PROVE  LedgerTypeOK'
  BY <1>2, LedgerAssumption DEF SetStock, LedgerTypeOK
<1>3. CASE RemoveProduct(p)
  BY <1>3, LedgerAssumption DEF RemoveProduct, LedgerTypeOK
<1> QED
  BY <1>1, <1>2, <1>3

\* Columns keep their types and stock stays in range: no product is oversold,
\* whatever calls Products receives, in whatever order.
THEOREM LedgerTypeCorrect == LedgerSpec => []LedgerTypeOK
<1>1. LedgerTypeOK /\ [LedgerNext]_ledgerVars => LedgerTypeOK'
  <2> SUFFICES ASSUME LedgerTypeOK, [LedgerNext]_ledgerVars
               PROVE  LedgerTypeOK'
    OBVIOUS
  <2>1. KnownBaskets \subseteq ItemLists
    BY LedgerAssumption DEF KnownBaskets
  <2>2. ASSUME NEW o \in Orders, NEW items \in KnownBaskets, Reserve(o, items)
        PROVE  LedgerTypeOK'
    BY <2>1, <2>2, ReserveKeepsType
  <2>3. ASSUME NEW o \in Orders, NEW legacy \in KnownBaskets \cup {NoLegacy},
               Release(o, legacy)
        PROVE  LedgerTypeOK'
    BY <2>1, <2>3, ReleaseKeepsType
  <2>4. ASSUME NEW p \in Products,
               \/ \E n \in 0..MaxInt : CreateProduct(p, n) \/ SetStock(p, n)
               \/ RemoveProduct(p)
        PROVE  LedgerTypeOK'
    BY <2>4, AdminKeepsType
  <2>5. CASE UNCHANGED ledgerVars
    BY <2>5 DEF ledgerVars, LedgerTypeOK
  <2> QED
    BY <2>2, <2>3, <2>4, <2>5 DEF LedgerNext
<1> QED
  BY <1>1, LedgerInitType, PTL DEF LedgerSpec

\* No call revives a released reservation or changes its items: what makes a
\* tombstone stop a reserve that arrives after its release.
THEOREM ReleasesAreFinal == LedgerSpec => ReleasedIsFinal
<1>1. LedgerTypeOK /\ [LedgerNext]_ledgerVars =>
        \A o \in Orders : ledger[o].status = "released" => ledger'[o] = ledger[o]
  <2> SUFFICES ASSUME LedgerTypeOK, [LedgerNext]_ledgerVars,
                      NEW o \in Orders, ledger[o].status = "released"
               PROVE  ledger'[o] = ledger[o]
    OBVIOUS
  <2>1. ASSUME NEW x \in Orders, NEW items \in KnownBaskets, Reserve(x, items)
        PROVE  ledger'[o] = ledger[o]
    <3>1. CASE MayReserve(x, items)
      <4>1. x # o
        BY <3>1 DEF MayReserve
      <4>2. ledger' = [ledger EXCEPT ![x] = Row("reserved", items)]
            \/ UNCHANGED ledger
        BY <2>1 DEF Reserve, ledgerVars
      <4> QED
        BY <4>1, <4>2 DEF LedgerTypeOK
    <3>2. CASE UNCHANGED ledgerVars
      BY <3>2 DEF ledgerVars
    <3> QED
      BY <2>1, <3>1, <3>2 DEF Reserve
  <2>2. ASSUME NEW x \in Orders, NEW legacy \in KnownBaskets \cup {NoLegacy},
               Release(x, legacy)
        PROVE  ledger'[o] = ledger[o]
    <3>1. CASE x = o
      <4>1. RowToRelease(o, legacy) = ledger[o]
        BY DEF RowToRelease
      <4>2. ledger[o] = [status |-> "released", items |-> ledger[o].items]
        BY DEF LedgerTypeOK, Rows
      <4> QED
        BY <2>2, <3>1, <4>1, <4>2
           DEF Release, RowAfterRelease, Row, LedgerTypeOK
    <3>2. CASE x # o
      BY <2>2, <3>2 DEF Release, LedgerTypeOK
    <3> QED
      BY <3>1, <3>2
  <2>3. CASE UNCHANGED ledger
    BY <2>3
  <2> QED
    BY <2>1, <2>2, <2>3
       DEF LedgerNext, CreateProduct, SetStock, RemoveProduct, ledgerVars
<1> QED
  BY <1>1, LedgerTypeCorrect, PTL DEF LedgerSpec, ReleasedIsFinal

----------------------------------------------------------------------------
(* Sums over finite sets, by the least number that could be a counterexample *)

Less == {x \in Nat \X Nat : x[1] < x[2]}

\* The order of the natural numbers is well-founded, so that a set of them has
\* a least element.
LEMMA LessIsWellFounded == IsWellFoundedOn(Less, Nat)
  BY NatLessThanWellFounded DEF OpToRel, Less

LEMMA LeastNumber ==
  ASSUME NEW S \in SUBSET Nat, S # {}
  PROVE  \E m \in S : \A n \in S : m <= n
<1>1. PICK m \in S : \A n \in S : ~ (<<n, m>> \in Less)
  BY LessIsWellFounded, WFMin
<1>2. \A n \in S : n < m => <<n, m>> \in Less
  BY DEF Less
<1>3. \A n \in S : ~ (n < m)
  BY <1>1, <1>2
<1> QED
  BY <1>3

\* The sums of w over the sets of a family, one element after the other.
Pick(s) == CHOOSE x \in s : TRUE
SumOver(w, h, family) ==
  [s \in family |-> IF s = {} THEN 0 ELSE w[Pick(s)] + h[s \ {Pick(s)}]]
IsSum(h, w, family) == h = SumOver(w, h, family)
Small(S, n) == {s \in SUBSET S : Cardinality(s) <= n}

\* A sum is one summand and the sum of a smaller set.
LEMMA Smaller ==
  ASSUME NEW S, IsFiniteSet(S), NEW s \in SUBSET S, s # {}
  PROVE  /\ Pick(s) \in s
         /\ s \ {Pick(s)} \in SUBSET S
         /\ Cardinality(s) \in Nat /\ Cardinality(s) > 0
         /\ Cardinality(s \ {Pick(s)}) = Cardinality(s) - 1
<1>1. Pick(s) \in s
  BY DEF Pick
<1>2. IsFiniteSet(s)
  BY FS_Subset
<1>3. Cardinality(s) \in Nat /\ Cardinality(s) # 0
  BY <1>2, FS_CardinalityType, FS_EmptySet
<1>4. Cardinality(s \ {Pick(s)}) = Cardinality(s) - 1
  BY <1>1, <1>2, FS_RemoveElement
<1> QED
  BY <1>1, <1>3, <1>4

\* There is a function that has the sums of w over all subsets of S.
LEMMA SumsExist ==
  ASSUME NEW S, IsFiniteSet(S), NEW w
  PROVE  \E h : IsSum(h, w, SUBSET S)
<1> DEFINE Bad == {n \in Nat : ~ \E h : IsSum(h, w, Small(S, n))}
<1>1. Bad = {}
  <2> SUFFICES ASSUME Bad # {} PROVE FALSE
    OBVIOUS
  <2>1. PICK m \in Bad : \A n \in Bad : m <= n
    BY LeastNumber
  <2>2. CASE m = 0
    <3>1. \A s \in Small(S, 0) : s = {}
      <4> SUFFICES ASSUME NEW s \in SUBSET S, s # {}, Cardinality(s) <= 0
                   PROVE  FALSE
        BY DEF Small
      <4>1. Cardinality(s) \in Nat /\ Cardinality(s) > 0
        BY Smaller
      <4> QED
        BY <4>1
    <3> DEFINE h == [s \in Small(S, 0) |-> 0]
    <3>2. SumOver(w, h, Small(S, 0)) = h
      BY <3>1 DEF SumOver
    <3> QED
      BY <2>1, <2>2, <3>2 DEF IsSum
  <2>3. CASE m # 0
    <3>1. m - 1 \in Nat /\ m - 1 \notin Bad
      BY <2>1, <2>3
    <3>2. PICK h : IsSum(h, w, Small(S, m - 1))
      BY <3>1
    <3> DEFINE k == SumOver(w, h, Small(S, m))
    <3>3. ASSUME NEW s \in Small(S, m), s # {}
          PROVE  k[s \ {Pick(s)}] = h[s \ {Pick(s)}]
      <4> DEFINE r == s \ {Pick(s)}
      <4>1. r \in Small(S, m - 1) /\ r \in Small(S, m)
        BY <2>1, <3>3, Smaller DEF Small
      <4> HIDE DEF r
      <4>2. k[r] = IF r = {} THEN 0 ELSE w[Pick(r)] + h[r \ {Pick(r)}]
        BY <4>1 DEF SumOver
      <4>3. h[r] = IF r = {} THEN 0 ELSE w[Pick(r)] + h[r \ {Pick(r)}]
        BY <3>2, <4>1 DEF IsSum, SumOver
      <4>4. k[r] = h[r]
        BY <4>2, <4>3
      <4> QED
        BY <4>4 DEF r
    <3>4. k = SumOver(w, k, Small(S, m))
      <4> HIDE DEF k
      <4>1. k = [s \in Small(S, m) |->
                   IF s = {} THEN 0 ELSE w[Pick(s)] + h[s \ {Pick(s)}]]
        BY DEF k, SumOver
      <4>2. \A s \in Small(S, m) :
              (IF s = {} THEN 0 ELSE w[Pick(s)] + h[s \ {Pick(s)}])
              = (IF s = {} THEN 0 ELSE w[Pick(s)] + k[s \ {Pick(s)}])
        BY <3>3
      <4> QED
        BY <4>1, <4>2 DEF SumOver
    <3> QED
      BY <2>1, <3>4 DEF IsSum
  <2> QED
    BY <2>2, <2>3
<1>2. Cardinality(S) \in Nat /\ \A s \in SUBSET S : Cardinality(s) <= Cardinality(S)
  BY FS_CardinalityType, FS_Subset
<1>3. Small(S, Cardinality(S)) = SUBSET S
  BY <1>2 DEF Small
<1> QED
  BY <1>1, <1>2, <1>3

\* Changing one summand changes the sum by as much.
LEMMA SumsChange ==
  ASSUME NEW S, IsFiniteSet(S), NEW w \in [S -> Int], NEW v \in [S -> Int],
         NEW x, \A y \in S \ {x} : v[y] = w[y],
         NEW h, IsSum(h, w, SUBSET S), NEW k, IsSum(k, v, SUBSET S)
  PROVE  /\ h[S] \in Int /\ k[S] \in Int
         /\ k[S] = h[S] + IF x \in S THEN v[x] - w[x] ELSE 0
<1> DEFINE Fits(s) == /\ h[s] \in Int /\ k[s] \in Int
                      /\ k[s] = h[s] + IF x \in s THEN v[x] - w[x] ELSE 0
           Bad == {n \in Nat : \E s \in SUBSET S : Cardinality(s) = n /\ ~ Fits(s)}
<1>1. Bad = {}
  <2> SUFFICES ASSUME Bad # {} PROVE FALSE
    OBVIOUS
  <2>1. PICK m \in Bad : \A n \in Bad : m <= n
    BY LeastNumber
  <2>2. PICK s \in SUBSET S : Cardinality(s) = m /\ ~ Fits(s)
    BY <2>1
  <2>3. h[s] = (IF s = {} THEN 0 ELSE w[Pick(s)] + h[s \ {Pick(s)}])
        /\ k[s] = (IF s = {} THEN 0 ELSE v[Pick(s)] + k[s \ {Pick(s)}])
    BY DEF IsSum, SumOver
  <2>4. s # {}
    BY <2>2, <2>3
  <2> DEFINE r == s \ {Pick(s)}
  <2>5. Pick(s) \in s /\ r \in SUBSET S /\ Cardinality(r) \in Nat
        /\ Cardinality(r) < m
    BY <2>1, <2>2, <2>4, Smaller
  <2>6. Fits(r)
    <3>1. Cardinality(r) \notin Bad
      <4>1. m \in Nat /\ Cardinality(r) \in Nat /\ Cardinality(r) < m
        BY <2>1, <2>5
      <4> HIDE DEF Bad, r
      <4> QED
        BY <2>1, <4>1
    <3> QED
      BY <2>5, <3>1
  <2>7. Pick(s) \in S /\ w[Pick(s)] \in Int /\ v[Pick(s)] \in Int
    BY <2>5
  <2>8. x \in r <=> x \in s /\ x # Pick(s)
    OBVIOUS
  <2> HIDE DEF r
  <2>9. h[s] = w[Pick(s)] + h[r] /\ k[s] = v[Pick(s)] + k[r]
    BY <2>3, <2>4 DEF r
  <2>10. h[s] \in Int /\ k[s] \in Int
    BY <2>6, <2>7, <2>9
  <2>11. CASE x = Pick(s)
    BY <2>2, <2>5, <2>6, <2>7, <2>8, <2>9, <2>10, <2>11
  <2>12. CASE x # Pick(s)
    <3>1. v[Pick(s)] = w[Pick(s)]
      BY <2>7, <2>12
    <3>2. x \in S => v[x] \in Int /\ w[x] \in Int
      OBVIOUS
    <3>3. x \in s => x \in S
      OBVIOUS
    <3> QED
      BY <2>2, <2>6, <2>7, <2>8, <2>9, <2>10, <2>12, <3>1, <3>2, <3>3
  <2> QED
    BY <2>11, <2>12
<1>2. Cardinality(S) \in Nat
  BY FS_CardinalityType
<1>3. Fits(S)
  BY <1>1, <1>2
<1> QED
  BY <1>3

\* A sum of zeros is zero.
LEMMA SumOfZeros ==
  ASSUME NEW S, IsFiniteSet(S), NEW w, \A y \in S : w[y] = 0,
         NEW h, IsSum(h, w, SUBSET S)
  PROVE  h[S] = 0
<1> DEFINE Bad == {n \in Nat : \E s \in SUBSET S : Cardinality(s) = n /\ h[s] # 0}
<1>1. Bad = {}
  <2> SUFFICES ASSUME Bad # {} PROVE FALSE
    OBVIOUS
  <2>1. PICK m \in Bad : \A n \in Bad : m <= n
    BY LeastNumber
  <2>2. PICK s \in SUBSET S : Cardinality(s) = m /\ h[s] # 0
    BY <2>1
  <2>3. h[s] = IF s = {} THEN 0 ELSE w[Pick(s)] + h[s \ {Pick(s)}]
    BY DEF IsSum, SumOver
  <2>4. s # {}
    BY <2>2, <2>3
  <2> DEFINE r == s \ {Pick(s)}
  <2>5. Pick(s) \in s /\ r \in SUBSET S /\ Cardinality(r) \in Nat
        /\ Cardinality(r) < m
    BY <2>1, <2>2, <2>4, Smaller
  <2>6. Cardinality(r) \notin Bad
    <3>1. m \in Nat /\ Cardinality(r) \in Nat /\ Cardinality(r) < m
      BY <2>1, <2>5
    <3> HIDE DEF Bad, r
    <3> QED
      BY <2>1, <3>1
  <2>7. h[r] = 0 /\ w[Pick(s)] = 0
    BY <2>5, <2>6
  <2> QED
    BY <2>2, <2>3, <2>4, <2>7
<1>2. Cardinality(S) \in Nat
  BY FS_CardinalityType
<1> QED
  BY <1>1, <1>2

----------------------------------------------------------------------------
(* Conservation of units *)

UnitsOf(row, p) == IF row.status = "reserved" THEN row.items[p] ELSE 0
Summands(table, p) == [o \in Orders |-> UnitsOf(table[o], p)]

\* The fold over the orders is a sum.
LEMMA HeldIsSum ==
  ASSUME NEW table, NEW p
  PROVE  \E h : /\ IsSum(h, Summands(table, p), SUBSET Orders)
                /\ HeldIn(table, p) = h[Orders]
<1> DEFINE body(g) ==
             [s \in SUBSET Orders |->
                IF s = {} THEN 0
                ELSE (IF table[Pick(s)].status = "reserved"
                      THEN table[Pick(s)].items[p] ELSE 0) + g[s \ {Pick(s)}]]
           fold == CHOOSE g : g = body(g)
<1>1. HeldIn(table, p) = fold[Orders]
  BY DEF HeldIn, MapThenSumSet, MapThenFoldSet, Pick
<1>2. ASSUME NEW g PROVE body(g) = SumOver(Summands(table, p), g, SUBSET Orders)
  <2>1. \A s \in SUBSET Orders : s # {} =>
          Summands(table, p)[Pick(s)] = (IF table[Pick(s)].status = "reserved"
                                         THEN table[Pick(s)].items[p] ELSE 0)
    BY DEF Summands, UnitsOf, Pick
  <2> QED
    BY <2>1 DEF SumOver
<1>3. \E g : IsSum(g, Summands(table, p), SUBSET Orders)
  BY SumsExist, LedgerAssumption
<1>4. \E g : g = body(g)
  BY <1>2, <1>3 DEF IsSum
<1> HIDE DEF body
<1>5. fold = body(fold)
  BY <1>4
<1>6. IsSum(fold, Summands(table, p), SUBSET Orders)
  BY <1>2, <1>5 DEF IsSum
<1> QED
  BY <1>1, <1>6

\* What one reservation holds is part of the sum, and nothing else changes it.
LEMMA HeldChanges ==
  ASSUME NEW p \in Products, NEW o,
         NEW table \in [Orders -> Rows], NEW later \in [Orders -> Rows],
         \A x \in Orders \ {o} : later[x] = table[x]
  PROVE  /\ HeldIn(table, p) \in Int
         /\ HeldIn(later, p) = HeldIn(table, p)
              + IF o \in Orders
                THEN UnitsOf(later[o], p) - UnitsOf(table[o], p) ELSE 0
<1> DEFINE w == Summands(table, p)  v == Summands(later, p)
<1>1. PICK h : IsSum(h, w, SUBSET Orders) /\ HeldIn(table, p) = h[Orders]
  BY HeldIsSum
<1>2. PICK k : IsSum(k, v, SUBSET Orders) /\ HeldIn(later, p) = k[Orders]
  BY HeldIsSum
<1>3. \A row \in Rows : UnitsOf(row, p) \in Int
  BY LedgerAssumption DEF Rows, ItemLists, UnitsOf
<1>4. w \in [Orders -> Int] /\ v \in [Orders -> Int]
  BY <1>3 DEF Summands
<1>5. \A x \in Orders \ {o} : v[x] = w[x]
  BY DEF Summands
<1>6. o \in Orders => v[o] = UnitsOf(later[o], p) /\ w[o] = UnitsOf(table[o], p)
  BY DEF Summands
<1> HIDE DEF w, v
<1>7. /\ h[Orders] \in Int
      /\ k[Orders] = h[Orders] + IF o \in Orders THEN v[o] - w[o] ELSE 0
  <2>1. IsFiniteSet(Orders)
    BY LedgerAssumption
  <2>2. IsSum(h, w, SUBSET Orders) /\ IsSum(k, v, SUBSET Orders)
    BY <1>1, <1>2
  <2> QED
    BY SMTT(30), <1>4, <1>5, <2>1, <2>2, SumsChange
<1> QED
  BY <1>1, <1>2, <1>6, <1>7

\* Nobody holds a product that no reservation names.
LEMMA NothingHeld ==
  ASSUME NEW p, NEW table, \A o \in Orders : UnitsOf(table[o], p) = 0
  PROVE  HeldIn(table, p) = 0
<1>1. PICK h : IsSum(h, Summands(table, p), SUBSET Orders)
               /\ HeldIn(table, p) = h[Orders]
  BY HeldIsSum
<1>2. \A o \in Orders : Summands(table, p)[o] = 0
  BY DEF Summands
<1> QED
  BY <1>1, <1>2, SumOfZeros, LedgerAssumption

\* Reservations name products that have a row or had one, so a new product
\* starts with nothing held.
LedgerIsKnown ==
  \A o \in Orders : Listed(ledger[o].items) \subseteq catalogue \cup removed

ConservationInv == LedgerTypeOK /\ LedgerIsKnown /\ UnitsConserved

\* At the start nothing is held.
LEMMA InitConserves == LedgerInit => ConservationInv
<1> SUFFICES ASSUME LedgerInit PROVE ConservationInv
  OBVIOUS
<1>1. LedgerTypeOK
  BY LedgerInitType
<1>2. \A o \in Orders : ledger[o] = AbsentRow
  BY DEF LedgerInit
<1>3. LedgerIsKnown
  BY <1>2 DEF LedgerIsKnown, AbsentRow, Row, NoItems, Listed
<1>4. \A p \in Products : HeldIn(ledger, p) = 0
  BY <1>2, NothingHeld DEF AbsentRow, Row, UnitsOf
<1>5. UnitsConserved
  BY <1>1, <1>4, LedgerAssumption
     DEF UnitsConserved, Held, LedgerInit, LedgerTypeOK
<1> QED
  BY <1>1, <1>3, <1>5 DEF ConservationInv

\* A reserve moves units from the shelf to its reservation.
LEMMA ReserveConserves ==
  ASSUME ConservationInv, NEW o \in Orders, NEW items \in KnownBaskets,
         Reserve(o, items)
  PROVE  ConservationInv'
<1>1. items \in ItemLists
  BY LedgerAssumption DEF KnownBaskets
<1>2. LedgerTypeOK'
  BY <1>1, ReserveKeepsType DEF ConservationInv
<1>3. CASE MayReserve(o, items)
  <2>1. /\ ledger[o].status = "absent"
        /\ stock' = [p \in Products |-> stock[p] - items[p]]
        /\ ledger' = [ledger EXCEPT ![o] = Row("reserved", items)]
        /\ UNCHANGED <<catalogue, removed, supplied>>
    BY <1>3 DEF Reserve, MayReserve, AlreadyReserved, Row
  <2>2. ledger \in [Orders -> Rows] /\ ledger' \in [Orders -> Rows]
        /\ catalogue \subseteq Products /\ stock \in [Products -> 0..MaxInt]
        /\ supplied \in [Products -> Int]
    BY <1>2 DEF ConservationInv, LedgerTypeOK, Rows, ItemLists
  <2>3. ledger'[o] = Row("reserved", items)
        /\ \A x \in Orders \ {o} : ledger'[x] = ledger[x]
    BY <2>1, <2>2
  <2>4. LedgerIsKnown'
    BY <2>1, <2>3 DEF ConservationInv, LedgerIsKnown, KnownBaskets, Row, Listed
  <2>5. ASSUME NEW p \in catalogue
        PROVE  stock'[p] + HeldIn(ledger', p) = supplied[p]
    <3>1. UnitsOf(ledger[o], p) = 0 /\ UnitsOf(ledger'[o], p) = items[p]
      BY <2>1, <2>3 DEF UnitsOf, Row
    <3>2. HeldIn(ledger, p) \in Int
          /\ HeldIn(ledger', p) = HeldIn(ledger, p) + items[p] - 0
      BY <2>2, <2>3, <3>1, HeldChanges
    <3>3. stock[p] + HeldIn(ledger, p) = supplied[p]
      BY DEF ConservationInv, UnitsConserved, Held
    <3>4. stock[p] \in Int /\ items[p] \in Int /\ stock'[p] = stock[p] - items[p]
      BY <1>1, <2>1, <2>2, LedgerAssumption DEF ItemLists
    <3> QED
      BY <3>2, <3>3, <3>4
  <2>6. UnitsConserved'
    BY <2>1, <2>5 DEF UnitsConserved, Held
  <2> QED
    BY <1>2, <2>4, <2>6 DEF ConservationInv
<1>4. CASE UNCHANGED ledgerVars
  BY <1>2, <1>4 DEF ledgerVars, ConservationInv, LedgerIsKnown, UnitsConserved, Held
<1> QED
  BY <1>3, <1>4 DEF Reserve

\* A release moves them back, once; a legacy order brings its units along.
LEMMA ReleaseConserves ==
  ASSUME ConservationInv, NEW o \in Orders,
         NEW legacy \in KnownBaskets \cup {NoLegacy}, Release(o, legacy)
  PROVE  ConservationInv'
<1> DEFINE row == RowToRelease(o, legacy)
           back == UnitsBack(row)
<1>1. legacy \in ItemLists \cup {NoLegacy}
  BY LedgerAssumption DEF KnownBaskets
<1>2. LedgerTypeOK' /\ row \in Rows
  BY <1>1, ReleaseKeepsType, RowToReleaseType DEF ConservationInv
<1>3. /\ stock' = [p \in Products |->
                     IF p \in catalogue THEN stock[p] + back[p] ELSE stock[p]]
      /\ ledger' = [ledger EXCEPT ![o] = Row("released", row.items)]
      /\ supplied' = [p \in Products |->
                        IF p \in catalogue /\ ledger[o].status = "absent"
                        THEN supplied[p] + back[p] ELSE supplied[p]]
      /\ UNCHANGED <<catalogue, removed>>
  BY DEF Release, RowAfterRelease
<1>4. ledger \in [Orders -> Rows] /\ ledger' \in [Orders -> Rows]
      /\ catalogue \subseteq Products /\ stock \in [Products -> 0..MaxInt]
      /\ supplied \in [Products -> Int]
  BY <1>2 DEF ConservationInv, LedgerTypeOK, Rows, ItemLists
<1>5. ledger'[o] = Row("released", row.items)
      /\ \A x \in Orders \ {o} : ledger'[x] = ledger[x]
  BY <1>3, <1>4
<1>6. Listed(row.items) \subseteq catalogue \cup removed
  BY DEF RowToRelease, ConservationInv, LedgerIsKnown, KnownBaskets, Row,
         NoItems, Listed
<1>7. LedgerIsKnown'
  BY <1>3, <1>5, <1>6 DEF ConservationInv, LedgerIsKnown, Row, Listed
<1>8. ASSUME NEW p \in catalogue
      PROVE  stock'[p] + HeldIn(ledger', p) = supplied'[p]
  <2>1. back[p] = UnitsOf(row, p) /\ back[p] \in Int
    BY <1>2, <1>4, LedgerAssumption
       DEF UnitsBack, UnitsOf, NoItems, Rows, ItemLists
  <2>2. UnitsOf(ledger'[o], p) = 0
    BY <1>5 DEF UnitsOf, Row
  <2>3. ledger[o].status = "absent" => UnitsOf(ledger[o], p) = 0
    BY DEF UnitsOf
  <2>4. ledger[o].status # "absent" => UnitsOf(ledger[o], p) = back[p]
    BY <2>1 DEF RowToRelease
  <2>5. HeldIn(ledger, p) \in Int
        /\ HeldIn(ledger', p) = HeldIn(ledger, p) + 0 - UnitsOf(ledger[o], p)
    <3>1. p \in Products
      BY <1>4
    <3>2. UnitsOf(ledger[o], p) \in Int
      BY <2>1, <2>3, <2>4
    <3>3. HeldIn(ledger, p) \in Int
          /\ HeldIn(ledger', p)
               = HeldIn(ledger, p) + (UnitsOf(ledger'[o], p) - UnitsOf(ledger[o], p))
      BY <1>4, <1>5, <3>1, HeldChanges
    <3> QED
      BY <2>2, <3>2, <3>3
  <2>6. stock[p] + HeldIn(ledger, p) = supplied[p]
    BY DEF ConservationInv, UnitsConserved, Held
  <2>7. stock[p] \in Int /\ supplied[p] \in Int /\ stock'[p] = stock[p] + back[p]
        /\ supplied'[p] = IF ledger[o].status = "absent"
                          THEN supplied[p] + back[p] ELSE supplied[p]
    BY <1>3, <1>4, LedgerAssumption
  <2> HIDE DEF back
  <2> QED
    BY <2>1, <2>3, <2>4, <2>5, <2>6, <2>7
<1>9. UnitsConserved'
  BY <1>3, <1>8 DEF UnitsConserved, Held
<1> QED
  BY <1>2, <1>7, <1>9 DEF ConservationInv

\* Administrators change the shelf and the supply by the same number.
LEMMA AdminConserves ==
  ASSUME ConservationInv, NEW p \in Products,
         \/ \E n \in 0..MaxInt : CreateProduct(p, n) \/ SetStock(p, n)
         \/ RemoveProduct(p)
  PROVE  ConservationInv'
<1>1. LedgerTypeOK'
  BY AdminKeepsType DEF ConservationInv
<1>2. ledger' = ledger /\ catalogue \cup removed \subseteq catalogue' \cup removed'
  BY DEF CreateProduct, SetStock, RemoveProduct
<1>3. LedgerIsKnown'
  BY <1>2 DEF ConservationInv, LedgerIsKnown, Listed
<1>4. \A q \in catalogue : stock[q] + HeldIn(ledger, q) = supplied[q]
  BY DEF ConservationInv, UnitsConserved, Held
<1>5. /\ stock \in [Products -> 0..MaxInt] /\ supplied \in [Products -> Int]
      /\ catalogue \subseteq Products /\ ledger \in [Orders -> Rows]
  BY DEF ConservationInv, LedgerTypeOK
<1>6. \A q \in Products : HeldIn(ledger, q) \in Int
  BY <1>5, HeldChanges
<1>7. ASSUME NEW n \in 0..MaxInt, CreateProduct(p, n), NEW q \in catalogue'
      PROVE  stock'[q] + HeldIn(ledger, q) = supplied'[q]
  <2>1. p \notin catalogue \cup removed
    BY <1>7 DEF CreateProduct
  <2>2. HeldIn(ledger, p) = 0
    <3>1. \A o \in Orders : UnitsOf(ledger[o], p) = 0
      <4>1. \A o \in Orders : ledger[o].items[p] \in 0..MaxInt
        BY <1>5 DEF Rows, ItemLists
      <4> QED
        BY <2>1, <4>1, LedgerAssumption
           DEF ConservationInv, LedgerIsKnown, Listed, UnitsOf
    <3> QED
      BY <3>1, NothingHeld
  <2> QED
    BY <1>4, <1>5, <1>7, <2>1, <2>2, LedgerAssumption DEF CreateProduct
<1>8. ASSUME NEW n \in 0..MaxInt, SetStock(p, n), NEW q \in catalogue'
      PROVE  stock'[q] + HeldIn(ledger, q) = supplied'[q]
  BY <1>4, <1>5, <1>6, <1>8, LedgerAssumption DEF SetStock
<1>9. ASSUME RemoveProduct(p), NEW q \in catalogue'
      PROVE  stock'[q] + HeldIn(ledger, q) = supplied'[q]
  BY <1>4, <1>5, <1>9 DEF RemoveProduct
<1>10. UnitsConserved'
  BY <1>2, <1>7, <1>8, <1>9 DEF UnitsConserved, Held
<1> QED
  BY <1>1, <1>3, <1>10 DEF ConservationInv

\* Whatever calls Products receives, repeated, late or for legacy orders, every
\* unit of a product that is still sold is on the shelf or held exactly once.
THEOREM UnitsAreConserved == LedgerSpec => []UnitsConserved
<1>1. ConservationInv /\ [LedgerNext]_ledgerVars => ConservationInv'
  <2> SUFFICES ASSUME ConservationInv, [LedgerNext]_ledgerVars
               PROVE  ConservationInv'
    OBVIOUS
  <2>1. CASE UNCHANGED ledgerVars
    BY <2>1 DEF ledgerVars, ConservationInv, LedgerTypeOK, LedgerIsKnown,
                UnitsConserved, Held, Rows, ItemLists, Listed
  <2> QED
    BY <2>1, ReserveConserves, ReleaseConserves, AdminConserves DEF LedgerNext
<1>2. ConservationInv => UnitsConserved
  BY DEF ConservationInv
<1> QED
  BY <1>1, <1>2, InitConserves, PTL DEF LedgerSpec
=============================================================================
