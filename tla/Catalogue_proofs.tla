-------------------------- MODULE Catalogue_proofs --------------------------
(***************************************************************************)
(* Every write of the Products service evicts every key it makes stale:    *)
(* StaleOnlyByRace for any catalogue, any number of readers and a Redis    *)
(* that may fail at every call. And the caches take nothing away from the  *)
(* ledger: Catalogue implements StockLedger.                               *)
(***************************************************************************)
EXTENDS Catalogue, StockLedger_proofs

Values == 0..MaxInt \cup [Products -> 0..MaxInt \cup {None}]

CacheTypeOK ==
  /\ copy \in [Keys -> Values \cup {None}]
  /\ due \in [Keys -> Nat]
  /\ excused \subseteq Keys
  /\ reading \in [Readers -> [key : Keys \cup {None}, seen : Values \cup {None},
                              overtaken : BOOLEAN]]

\* A wrap call that is under way holds what the table has now, or a write has
\* overtaken it since its query.
ReadsAreMarked ==
  \A r \in Readers : reading[r] # NoRead =>
    /\ reading[r].key \in Keys
    /\ reading[r].seen = Current(reading[r].key) \/ reading[r].overtaken

\* Nobody has looked for a product before it was created.
NewIdsAreUnknown ==
  \A p \in Products \ (catalogue \cup removed) :
    copy[p] = None /\ \A r \in Readers : reading[r].key # p

CatalogueInv ==
  /\ LedgerTypeOK /\ CacheTypeOK /\ ReadsAreMarked /\ NewIdsAreUnknown
  /\ StaleOnlyByRace

----------------------------------------------------------------------------
LEMMA NoReadType ==
  NoRead \in [key : Keys \cup {None}, seen : Values \cup {None},
              overtaken : BOOLEAN]
  BY DEF NoRead

LEMMA CurrentType ==
  ASSUME LedgerTypeOK, NEW k \in Keys
  PROVE  Current(k) \in Values \cup {None}
  BY DEF Current, RowOf, Values, Keys, LedgerTypeOK

LEMMA InitCatalogue == Init => CatalogueInv
<1> SUFFICES ASSUME Init PROVE CatalogueInv
  OBVIOUS
<1>1. LedgerTypeOK
  BY LedgerInitType DEF Init
<1>2. CacheTypeOK
  BY NoReadType DEF Init, CacheTypeOK
<1>3. \A p \in Products : p \in Keys /\ p # None
  BY CatalogueAssumption DEF Keys
<1> QED
  BY <1>1, <1>2, <1>3
     DEF Init, CatalogueInv, ReadsAreMarked, NewIdsAreUnknown, StaleOnlyByRace,
         NoRead

\* Rows that a write leaves alone are read as before, and so is the list if
\* it leaves all rows alone.
LEMMA OnlyWrittenKeysChange ==
  ASSUME NEW written \in SUBSET Products,
         \A p \in Products \ written :
           stock'[p] = stock[p] /\ (p \in catalogue' <=> p \in catalogue)
  PROVE  \A k \in Keys \ KeysOfAll(written) : Current(k)' = Current(k)
<1>1. \A p \in Products \ written : RowOf(p)' = RowOf(p)
  BY DEF RowOf
<1>2. ASSUME NEW k \in Keys \ KeysOfAll(written), k = All
      PROVE  Current(k)' = Current(k)
  <2>1. written = {}
    BY <1>2 DEF KeysOfAll, KeysOf
  <2>2. [p \in Products |-> RowOf(p)'] = [p \in Products |-> RowOf(p)]
    BY <1>1, <2>1
  <2> QED
    BY <1>2, <2>2 DEF Current
<1>3. ASSUME NEW k \in Keys \ KeysOfAll(written), k # All
      PROVE  Current(k)' = Current(k)
  <2>1. k \in Products \ written
    BY <1>3 DEF Keys, KeysOfAll, KeysOf
  <2> QED
    BY <1>1, <1>3, <2>1 DEF Current
<1> QED
  BY <1>2, <1>3

\* A write that evicts every key whose value it changes, but those of
\* products that are new, keeps the invariant.
LEMMA WritePreserves ==
  ASSUME CatalogueInv, LedgerTypeOK', NEW keys \in SUBSET Keys, Invalidate(keys),
         \A k \in Keys \ keys : \/ Current(k)' = Current(k)
                                \/ k \in Products \ (catalogue \cup removed),
         catalogue \cup removed \subseteq (catalogue \cup removed)'
  PROVE  CatalogueInv'
<1>1. /\ due' = [k \in Keys |-> IF k \in keys THEN due[k] + 1 ELSE due[k]]
      /\ reading' = [r \in Readers |->
                       [reading[r] EXCEPT !.overtaken = @ \/ reading[r].key \in keys]]
      /\ UNCHANGED <<copy, excused>>
  BY DEF Invalidate
<1>2. CacheTypeOK'
  <2>1. due' \in [Keys -> Nat]
    BY <1>1 DEF CatalogueInv, CacheTypeOK
  <2>2. \A r \in Readers :
          [reading[r] EXCEPT !.overtaken = @ \/ reading[r].key \in keys]
            \in [key : Keys \cup {None}, seen : Values \cup {None},
                overtaken : BOOLEAN]
    BY DEF CatalogueInv, CacheTypeOK
  <2> QED
    BY <1>1, <2>1, <2>2 DEF CatalogueInv, CacheTypeOK
<1>3. \A r \in Readers :
        /\ reading'[r].key = reading[r].key /\ reading'[r].seen = reading[r].seen
        /\ reading'[r].overtaken = (reading[r].overtaken \/ reading[r].key \in keys)
  BY <1>1 DEF CatalogueInv, CacheTypeOK
<1>4. None \notin Keys
  BY CatalogueAssumption DEF Keys
<1>5. ReadsAreMarked'
  <2> SUFFICES ASSUME NEW r \in Readers, reading'[r] # NoRead
               PROVE  (/\ reading[r].key \in Keys
                       /\ \/ reading[r].seen = Current(reading[r].key)
                          \/ reading[r].overtaken)'
    BY DEF ReadsAreMarked
  <2>1. reading[r] # NoRead
    <3>1. SUFFICES ASSUME reading[r] = NoRead PROVE FALSE
      OBVIOUS
    <3>2. reading'[r] = [NoRead EXCEPT !.overtaken = @ \/ NoRead.key \in keys]
      BY <1>1, <3>1
    <3>3. NoRead.key \notin keys /\ NoRead.overtaken = FALSE
      BY <1>4 DEF NoRead
    <3> QED
      BY <3>2, <3>3 DEF NoRead
  <2>2. PICK k \in Keys : k = reading[r].key
    BY <2>1 DEF CatalogueInv, ReadsAreMarked
  <2>3. reading[r].seen = Current(k) \/ reading[r].overtaken
    BY <2>1, <2>2 DEF CatalogueInv, ReadsAreMarked
  <2>4. k \notin Products \ (catalogue \cup removed)
    BY <2>2 DEF CatalogueInv, NewIdsAreUnknown
  <2>5. k \in keys \/ Current(k)' = Current(k)
    BY <2>2, <2>4
  <2>6. Current(reading[r].key)' = Current(k)'
    BY <1>3, <2>2 DEF Current, RowOf
  <2> QED
    BY <1>3, <2>2, <2>3, <2>5, <2>6
<1>6. NewIdsAreUnknown'
  BY <1>1, <1>3 DEF CatalogueInv, NewIdsAreUnknown
<1>7. ASSUME NEW k \in Keys, copy'[k] # None, copy'[k] # Current(k)'
      PROVE  due'[k] > 0 \/ k \in excused'
  <2>1. copy[k] # None /\ excused' = excused /\ due[k] \in Nat
    BY <1>1, <1>7 DEF CatalogueInv, CacheTypeOK
  <2>2. CASE k \in keys
    BY <1>1, <2>1, <2>2
  <2>3. CASE k \notin keys
    <3>1. Current(k)' = Current(k)
      BY <2>1, <2>3 DEF CatalogueInv, NewIdsAreUnknown
    <3>2. due'[k] = due[k]
      BY <1>1, <2>3
    <3> QED
      BY <1>1, <1>7, <2>1, <3>1, <3>2 DEF CatalogueInv, StaleOnlyByRace
  <2> QED
    BY <2>2, <2>3
<1> QED
  BY <1>2, <1>5, <1>6, <1>7 DEF CatalogueInv, StaleOnlyByRace

----------------------------------------------------------------------------
LEMMA KeysOfAllType ==
  ASSUME NEW set \in SUBSET Products
  PROVE  KeysOfAll(set) \in SUBSET Keys
  BY DEF KeysOfAll, KeysOf, Keys

\* A call that reserves leaves the products alone that it does not list.
LEMMA ReserveStockPreserves ==
  ASSUME CatalogueInv, NEW o \in Orders, NEW items \in KnownBaskets,
         ReserveStock(o, items)
  PROVE  CatalogueInv'
<1>1. items \in ItemLists
  BY LedgerAssumption DEF KnownBaskets
<1>2. LedgerTypeOK'
  BY <1>1, ReserveKeepsType DEF ReserveStock, CatalogueInv
<1>3. /\ UNCHANGED <<catalogue, removed>>
      /\ \A p \in Products \ Listed(items) : stock'[p] = stock[p]
  <2>1. \A p \in Products \ Listed(items) : items[p] = 0 /\ stock[p] \in Nat
    BY <1>1, LedgerAssumption DEF Listed, ItemLists, CatalogueInv, LedgerTypeOK
  <2> QED
    BY <2>1 DEF ReserveStock, Reserve, ledgerVars
<1>4. Listed(items) \in SUBSET Products
  BY DEF Listed
<1>5. \A k \in Keys \ KeysOfAll(Listed(items)) : Current(k)' = Current(k)
  BY <1>3, <1>4, OnlyWrittenKeysChange
<1>6. Invalidate(KeysOfAll(Listed(items)))
  BY DEF ReserveStock
<1> QED
  BY <1>2, <1>3, <1>4, <1>5, <1>6, KeysOfAllType, WritePreserves

\* A release returns units of the items of its row, whatever the row was.
LEMMA ReleaseStockPreserves ==
  ASSUME CatalogueInv, NEW o \in Orders, NEW legacy \in KnownBaskets \cup {NoLegacy},
         ReleaseStock(o, legacy)
  PROVE  CatalogueInv'
<1> DEFINE items == RowToRelease(o, legacy).items
<1>1. legacy \in ItemLists \cup {NoLegacy}
  BY LedgerAssumption DEF KnownBaskets
<1>2. LedgerTypeOK'
  BY <1>1, ReleaseKeepsType DEF ReleaseStock, CatalogueInv
<1>3. items \in ItemLists
  BY <1>1, RowToReleaseType DEF CatalogueInv, Rows
<1>4. /\ UNCHANGED <<catalogue, removed>>
      /\ \A p \in Products \ Listed(items) : stock'[p] = stock[p]
  <2>1. \A p \in Products \ Listed(items) :
          UnitsBack(RowToRelease(o, legacy))[p] = 0 /\ stock[p] \in Nat
    BY <1>3, LedgerAssumption
       DEF Listed, ItemLists, UnitsBack, NoItems, CatalogueInv, LedgerTypeOK
  <2> QED
    BY <2>1 DEF ReleaseStock, Release
<1>5. Listed(items) \in SUBSET Products
  BY DEF Listed
<1>6. \A k \in Keys \ KeysOfAll(Listed(items)) : Current(k)' = Current(k)
  BY <1>4, <1>5, OnlyWrittenKeysChange
<1>7. Invalidate(KeysOfAll(Listed(items)))
  BY DEF ReleaseStock
<1> QED
  BY <1>2, <1>4, <1>5, <1>6, <1>7, KeysOfAllType, WritePreserves

\* create evicts the list only: nobody asked for the new id before.
LEMMA CreatePreserves ==
  ASSUME CatalogueInv, NEW p \in Products, NEW n \in 0..MaxInt, Create(p, n)
  PROVE  CatalogueInv'
<1>1. LedgerTypeOK'
  BY AdminKeepsType DEF Create, CatalogueInv
<1>2. /\ p \notin catalogue \cup removed
      /\ catalogue' = catalogue \cup {p} /\ removed' = removed
      /\ \A q \in Products \ {p} : stock'[q] = stock[q]
      /\ Invalidate({All})
  BY DEF Create, CreateProduct, CatalogueInv, LedgerTypeOK
<1>3. \A k \in Keys \ KeysOfAll({p}) : Current(k)' = Current(k)
  BY <1>2, OnlyWrittenKeysChange
<1>4. \A k \in Keys \ {All} : \/ Current(k)' = Current(k)
                              \/ k \in Products \ (catalogue \cup removed)
  BY <1>2, <1>3 DEF KeysOfAll, KeysOf, Keys
<1>5. {All} \in SUBSET Keys
  BY DEF Keys
<1> QED
  BY <1>1, <1>2, <1>4, <1>5, WritePreserves

LEMMA UpdateOrRemovePreserves ==
  ASSUME CatalogueInv, NEW p \in Products,
         Remove(p) \/ \E n \in 0..MaxInt : Update(p, n)
  PROVE  CatalogueInv'
<1>1. LedgerTypeOK'
  BY AdminKeepsType DEF Update, Remove, CatalogueInv
<1>2. /\ catalogue \cup removed \subseteq (catalogue \cup removed)'
      /\ \A q \in Products \ {p} :
           stock'[q] = stock[q] /\ (q \in catalogue' <=> q \in catalogue)
      /\ Invalidate(KeysOf(p))
  BY DEF Update, SetStock, Remove, RemoveProduct, CatalogueInv, LedgerTypeOK
<1>3. KeysOf(p) = KeysOfAll({p})
  BY DEF KeysOfAll
<1>4. \A k \in Keys \ KeysOf(p) : Current(k)' = Current(k)
  BY <1>2, <1>3, OnlyWrittenKeysChange
<1>5. KeysOf(p) \in SUBSET Keys
  BY DEF KeysOf, Keys
<1> QED
  BY <1>1, <1>2, <1>4, <1>5, WritePreserves

----------------------------------------------------------------------------
LEMMA TableUnchanged ==
  ASSUME UNCHANGED ledgerVars
  PROVE  /\ LedgerTypeOK => LedgerTypeOK'
         /\ \A k \in Keys : Current(k)' = Current(k)
  BY DEF ledgerVars, LedgerTypeOK, Current, RowOf

\* Evictions, failed ones, and entries that expire.
LEMMA CopyPreserves ==
  ASSUME CatalogueInv, NEW k \in Keys, Evict(k) \/ EvictionFails(k) \/ Expire(k)
  PROVE  CatalogueInv'
<1>1. UNCHANGED ledgerVars /\ reading' = reading
  BY DEF Evict, EvictionFails, Expire
<1>2. LedgerTypeOK' /\ \A x \in Keys : Current(x)' = Current(x)
  BY <1>1, TableUnchanged DEF CatalogueInv
<1>3. /\ due' = [due EXCEPT ![k] = @ - 1] /\ due[k] > 0
      \/ due' = due
  BY DEF Evict, EvictionFails, Expire
<1>4. due' \in [Keys -> Nat] /\ \A x \in Keys \ {k} : due'[x] = due[x]
  BY <1>3 DEF CatalogueInv, CacheTypeOK
<1>5. /\ copy' = [copy EXCEPT ![k] = None] \/ copy' = copy
      /\ \A x \in Keys : copy'[x] = copy[x] \/ copy'[x] = None
  BY DEF Evict, EvictionFails, Expire, CatalogueInv, CacheTypeOK
<1>6. /\ excused' \subseteq Keys
      /\ \A x \in Keys \ {k} : x \in excused' <=> x \in excused
      /\ copy'[k] = None \/ k \in excused'
  BY DEF Evict, EvictionFails, Expire, CatalogueInv, CacheTypeOK
<1>7. CacheTypeOK'
  BY <1>1, <1>4, <1>5, <1>6 DEF CatalogueInv, CacheTypeOK
<1>8. ReadsAreMarked'
  BY <1>1, <1>2 DEF CatalogueInv, ReadsAreMarked
<1>9. NewIdsAreUnknown'
  BY <1>1, <1>5 DEF CatalogueInv, NewIdsAreUnknown, ledgerVars, Keys
<1>10. StaleOnlyByRace'
  BY <1>2, <1>4, <1>5, <1>6 DEF CatalogueInv, StaleOnlyByRace
<1> QED
  BY <1>2, <1>7, <1>8, <1>9, <1>10 DEF CatalogueInv

\* A wrap call queries, and stores what it read or fails to.
LEMMA ReadPreserves ==
  ASSUME CatalogueInv, NEW r \in Readers,
         Store(r) \/ StoreFails(r) \/ \E k \in Keys : Query(r, k)
  PROVE  CatalogueInv'
<1>1. UNCHANGED ledgerVars /\ due' = due
  BY DEF Store, StoreFails, Query
<1>2. LedgerTypeOK' /\ \A x \in Keys : Current(x)' = Current(x)
  BY <1>1, TableUnchanged DEF CatalogueInv
<1>3. CASE \E k \in Keys : Query(r, k)
  <2>1. PICK k \in Keys : Query(r, k)
    BY <1>3
  <2> DEFINE new == [key |-> k, seen |-> Current(k), overtaken |-> FALSE]
  <2>2. /\ Current(k) # None /\ reading' = [reading EXCEPT ![r] = new]
        /\ UNCHANGED <<copy, excused>>
    BY <2>1 DEF Query
  <2>3. new \in [key : Keys \cup {None}, seen : Values \cup {None},
                 overtaken : BOOLEAN]
    BY CurrentType DEF CatalogueInv
  <2>4. CacheTypeOK'
    BY <1>1, <2>2, <2>3 DEF CatalogueInv, CacheTypeOK
  <2>5. reading'[r] = new /\ \A q \in Readers \ {r} : reading'[q] = reading[q]
    BY <2>2 DEF CatalogueInv, CacheTypeOK
  <2>6. ReadsAreMarked'
    BY <1>2, <2>5 DEF CatalogueInv, ReadsAreMarked
  <2>7. k \notin Products \ (catalogue \cup removed)
    BY <2>2, CatalogueAssumption DEF Current, RowOf
  <2>8. NewIdsAreUnknown'
    BY <1>1, <2>2, <2>5, <2>7 DEF CatalogueInv, NewIdsAreUnknown, ledgerVars
  <2>9. StaleOnlyByRace'
    BY <1>1, <1>2, <2>2 DEF CatalogueInv, StaleOnlyByRace
  <2> QED
    BY <1>2, <2>4, <2>6, <2>8, <2>9 DEF CatalogueInv
<1>4. CASE StoreFails(r) \/ Store(r)
  <2>1. reading[r] # NoRead /\ reading' = [reading EXCEPT ![r] = NoRead]
    BY <1>4 DEF Store, StoreFails
  <2>2. /\ reading'[r] = NoRead
        /\ \A q \in Readers \ {r} : reading'[q] = reading[q]
        /\ reading' \in [Readers -> [key : Keys \cup {None},
                                     seen : Values \cup {None},
                                     overtaken : BOOLEAN]]
    BY <2>1, NoReadType DEF CatalogueInv, CacheTypeOK
  <2>3. ReadsAreMarked'
    BY <1>2, <2>2 DEF CatalogueInv, ReadsAreMarked
  <2> DEFINE k == reading[r].key
  <2>4. /\ k \in Keys /\ reading[r].seen \in Values \cup {None}
        /\ reading[r].seen = Current(k) \/ reading[r].overtaken
        /\ k \notin Products \ (catalogue \cup removed)
    BY <2>1 DEF CatalogueInv, ReadsAreMarked, NewIdsAreUnknown, CacheTypeOK
  <2>5. /\ copy' \in [Keys -> Values \cup {None}] /\ excused' \subseteq Keys
        /\ \A x \in Keys \ {k} :
             copy'[x] = copy[x] /\ (x \in excused' <=> x \in excused)
        /\ \/ copy'[k] = copy[k] /\ (k \in excused' <=> k \in excused)
           \/ copy'[k] = reading[r].seen /\ (k \in excused' <=> reading[r].overtaken)
    BY <1>4, <2>4 DEF Store, StoreFails, CatalogueInv, CacheTypeOK
  <2>6. CacheTypeOK'
    BY <1>1, <2>2, <2>5 DEF CatalogueInv, CacheTypeOK
  <2>7. NewIdsAreUnknown'
    <3>1. \A p \in Products \ (catalogue \cup removed) :
            p \in Keys /\ p # k /\ p # None
      BY <2>4, CatalogueAssumption DEF Keys
    <3> QED
      BY <1>1, <2>2, <2>5, <3>1
         DEF CatalogueInv, NewIdsAreUnknown, ledgerVars, NoRead
  <2>8. StaleOnlyByRace'
    BY <1>1, <1>2, <2>4, <2>5 DEF CatalogueInv, StaleOnlyByRace
  <2> QED
    BY <1>2, <2>3, <2>6, <2>7, <2>8 DEF CatalogueInv
<1> QED
  BY <1>3, <1>4

----------------------------------------------------------------------------
\* The inductive invariant of the catalogue and its cache-aside copies
\* (products.service.ts, cache.service.ts).
THEOREM CatalogueInvariance == Spec => []CatalogueInv
<1>1. CatalogueInv /\ [Next]_vars => CatalogueInv'
  <2> SUFFICES ASSUME CatalogueInv, [Next]_vars PROVE CatalogueInv'
    OBVIOUS
  <2>1. CASE Write
    BY <2>1, ReserveStockPreserves, ReleaseStockPreserves, CreatePreserves,
       UpdateOrRemovePreserves DEF Write
  <2>2. CASE UNCHANGED vars
    <3>1. LedgerTypeOK' /\ \A k \in Keys : Current(k)' = Current(k)
      BY <2>2, TableUnchanged DEF vars, CatalogueInv
    <3> QED
      BY <2>2, <3>1 DEF vars, cacheVars, ledgerVars, CatalogueInv, CacheTypeOK,
                        ReadsAreMarked, NewIdsAreUnknown, StaleOnlyByRace
  <2> QED
    BY <2>1, <2>2, CopyPreserves, ReadPreserves DEF Next
<1> QED
  BY <1>1, InitCatalogue, PTL DEF Spec

\* invalidate evicts every key a write makes stale: what Redis shows differs
\* from the table only before that, by a race or after a failure of Redis.
THEOREM CopiesAreFresh == Spec => []StaleOnlyByRace
  BY CatalogueInvariance, PTL DEF CatalogueInv

\* The caches take nothing away from the ledger: each call that writes is its
\* ledger step, everything else a stutter.
THEOREM CatalogueImplementsLedger == Spec => LedgerSpec
<1>1. Init => LedgerInit
  BY DEF Init
<1>2. [Next]_vars => [LedgerNext]_ledgerVars
  BY DEF Next, vars, Write, ReserveStock, ReleaseStock, Create, Update, Remove,
         Evict, EvictionFails, Expire, Store, StoreFails, Query, LedgerNext
<1> QED
  BY <1>1, <1>2, PTL DEF Spec, LedgerSpec

=============================================================================
