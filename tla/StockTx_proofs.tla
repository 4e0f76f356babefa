--------------------------- MODULE StockTx_proofs ---------------------------
(***************************************************************************)
(* StockTx implements StockLedger for any catalogue, any number of orders  *)
(* and open transactions and every width of the column: a commit is one    *)
(* atomic call, every other statement is invisible. And the transactions   *)
(* never wait in a circle.                                                 *)
(*                                                                         *)
(* The invariant says what the locks of a transaction mean: the row it     *)
(* read is still the committed one, every stock it wrote is computed from  *)
(* the committed stock, and the products it has come before those it still *)
(* wants.                                                                  *)
(***************************************************************************)
EXTENDS StockTx, StockLedger_proofs

Kinds == {"reserve", "release"}
Known(items) == Listed(items) \subseteq catalogue \cup removed

InsertSet == [pc : {"insert"}, kind : Kinds, order : Orders,
              items : ItemLists \cup {NoLegacy}]
UpdateSet == [pc : {"update"}, kind : Kinds, order : Orders,
              row : [status : {"pending", "reserved", "released"},
                     items : ItemLists],
              draft : [Products -> 0..MaxInt], todo : SUBSET Products]

TxTypes ==
  /\ rowLock \in [Orders -> Txs \cup {NoTx}]
  /\ productLock \in [Products -> Txs \cup {NoTx}]
  /\ tx \in [Txs -> {Idle} \cup InsertSet \cup UpdateSet]

\* Only transactions past the lock of their reservation hold anything.
LocksOK(t) ==
  /\ \A o \in Orders : rowLock[o] = t => tx[t].pc = "update" /\ tx[t].order = o
  /\ \A p \in Products : productLock[p] = t => tx[t].pc = "update"

InsertOK(t) ==
  \/ tx[t].items \in KnownBaskets
  \/ tx[t].kind = "release" /\ tx[t].items = NoLegacy

\* The row a transaction read and locked is the committed one, or the one it
\* inserted itself.
RowOK(t) ==
  LET o == tx[t].order  row == tx[t].row IN
  /\ rowLock[o] = t
  /\ Known(row.items)
  /\ tx[t].kind = "reserve" => row.items \in KnownBaskets
  /\ ledger[o].status # "absent" =>
       row = ledger[o] /\ (tx[t].kind = "reserve" => row.status = "reserved")
  /\ ledger[o].status = "absent" =>
       IF tx[t].kind = "reserve" THEN row.status = "pending"
       ELSE \/ row = Row("released", NoItems)
            \/ row.status = "reserved" /\ row.items \in KnownBaskets

\* What is written and what is still to be written are the items of the row.
TodoOK(t) ==
  LET row == tx[t].row IN
  IF Settled(t, row)
  THEN tx[t].todo = {}
  ELSE /\ tx[t].todo \subseteq Listed(row.items)
       /\ \A p \in Listed(row.items) \ tx[t].todo :
            productLock[p] = t \/ (tx[t].kind = "release" /\ p \in removed)

DraftsOK(t) ==
  \A p \in Products :
    productLock[p] = t =>
      /\ p \in catalogue
      /\ p \in Listed(tx[t].row.items) \ tx[t].todo
      /\ ~ Settled(t, tx[t].row)
      /\ tx[t].draft[p] = NewStock(t, p)
      /\ \A q \in tx[t].todo : Rank[p] < Rank[q]

TxOK(t) ==
  /\ LocksOK(t)
  /\ tx[t].pc = "insert" => InsertOK(t)
  /\ tx[t].pc = "update" => RowOK(t) /\ TodoOK(t) /\ DraftsOK(t)

RowsOK ==
  /\ LedgerTypeOK
  /\ catalogue \cap removed = {}
  /\ \A o \in Orders : Known(ledger[o].items)

TxInv == RowsOK /\ TxTypes /\ \A t \in Txs : TxOK(t)

----------------------------------------------------------------------------
(* Products in the order of their ids, and item lists *)

\* Ranks are numbers up to the number of products.
LEMMA RankType ==
  /\ Cardinality(Products) \in Nat
  /\ \A p \in Products : Rank[p] \in Nat /\ Rank[p] <= Cardinality(Products)
<1>1. Cardinality(Products) \in Nat
  BY TxAssumption, LedgerAssumption, FS_CardinalityType
<1> QED
  BY <1>1, TxAssumption, LedgerAssumption

\* The sorted item list has a next item as long as it is not exhausted.
LEMMA NextIsFirst ==
  ASSUME NEW t \in Txs, tx[t].todo \in SUBSET Products, tx[t].todo # {}
  PROVE  /\ NextProduct(t) \in tx[t].todo
         /\ \A q \in tx[t].todo : Rank[NextProduct(t)] <= Rank[q]
<1> DEFINE S == {Rank[p] : p \in tx[t].todo}
<1>1. S \in SUBSET Nat /\ S # {}
  BY RankType
<1>2. PICK m \in S : \A n \in S : m <= n
  BY <1>1, LeastNumber
<1>3. PICK p \in tx[t].todo : Rank[p] = m
  BY <1>2
<1>4. \A q \in tx[t].todo : Rank[p] <= Rank[q]
  BY <1>2, <1>3
<1> QED
  BY <1>4 DEF NextProduct

----------------------------------------------------------------------------
(* What all steps have in common *)

\* The empty list is a list.
LEMMA NoItemsType ==
  NoItems \in ItemLists /\ Listed(NoItems) = {}
  BY TxAssumption, LedgerAssumption DEF NoItems, ItemLists, Listed

\* At the start no transaction is open.
LEMMA InitTx == Init => TxInv
<1> SUFFICES ASSUME Init PROVE TxInv
  OBVIOUS
<1>1. AbsentRow \in Rows
  BY NoItemsType DEF AbsentRow, Row, Rows, ItemLists,
                     ItemLists
<1>2. LedgerTypeOK
  BY <1>1, TxAssumption, LedgerAssumption DEF Init, LedgerInit, LedgerTypeOK
<1>3. RowsOK
  BY <1>2, NoItemsType
     DEF Init, RowsOK, LedgerInit, AbsentRow, Row, Known
<1>4. TxTypes /\ \A t \in Txs : TxOK(t)
  BY TxAssumption, LedgerAssumption DEF Init, TxTypes, TxOK, LocksOK, Idle
<1> QED
  BY <1>3, <1>4 DEF TxInv

\* Products that were known stay known.
KnownGrows ==
  removed \subseteq removed' /\ catalogue \cup removed \subseteq catalogue' \cup removed'

\* Item lists that were known stay known.
LEMMA KnownStaysKnown ==
  ASSUME KnownGrows
  PROVE  /\ KnownBaskets \subseteq KnownBaskets'
         /\ \A items : Known(items) => Known(items)'
  BY DEF KnownGrows, KnownBaskets, Known, Listed

\* A transaction is not disturbed by a step that leaves it, its locks and the
\* rows it locked alone.
LEMMA OthersUndisturbed ==
  ASSUME NEW t \in Txs, TxInv, KnownGrows, tx'[t] = tx[t],
         \A o \in Orders : rowLock'[o] = t <=> rowLock[o] = t,
         \A p \in Products : productLock'[p] = t <=> productLock[p] = t,
         \A o \in Orders : rowLock[o] = t => ledger'[o] = ledger[o],
         \A p \in Products :
           productLock[p] = t => stock'[p] = stock[p] /\ p \in catalogue'
  PROVE  TxOK(t)'
<1>1. TxOK(t)
  BY DEF TxInv
<1>2. LocksOK(t)'
  BY <1>1 DEF TxOK, LocksOK
<1>3. tx[t].pc = "insert" => InsertOK(t)'
  BY <1>1, KnownStaysKnown DEF TxOK, InsertOK
<1>4. ASSUME tx[t].pc = "update"
      PROVE  RowOK(t)' /\ TodoOK(t)' /\ DraftsOK(t)'
  <2>1. tx[t] \in UpdateSet
    BY <1>4 DEF TxInv, TxTypes, InsertSet, Idle
  <2>2. RowOK(t)'
    <3>1. RowOK(t) /\ tx[t].order \in Orders
      BY <1>1, <1>4, <2>1 DEF TxOK, UpdateSet
    <3>2. ledger'[tx[t].order] = ledger[tx[t].order]
      BY <3>1 DEF RowOK
    <3> QED
      BY <3>1, <3>2, KnownStaysKnown DEF RowOK, Row, NoItems
  <2>3. TodoOK(t)'
    BY <1>1, <1>4, <2>1
       DEF TxOK, TodoOK, KnownGrows, Listed, Settled, UpdateSet
  <2>4. DraftsOK(t)'
    BY <1>1, <1>4, <2>1
       DEF TxOK, DraftsOK, Listed, Settled, NewStock, Quantity
  <2> QED
    BY <2>2, <2>3, <2>4
<1> QED
  BY <1>2, <1>3, <1>4 DEF TxOK

\* Most statements leave the committed rows alone.
LEMMA RowsUntouched ==
  ASSUME TxInv, UNCHANGED ledgerVars
  PROVE  RowsOK' /\ KnownGrows
  BY DEF TxInv, RowsOK, ledgerVars, KnownGrows, Known, LedgerTypeOK,
         Listed, Rows, ItemLists

\* Callers send item lists.
LEMMA BasketsAreLists == KnownBaskets \subseteq ItemLists
  BY TxAssumption, LedgerAssumption DEF KnownBaskets, ItemLists

\* What the prover needs to know of a transaction past the lock of its row.
LEMMA UpdateTypes ==
  ASSUME TxInv, NEW t \in Txs, tx[t].pc = "update"
  PROVE  /\ tx[t] \in UpdateSet
         /\ tx[t] # Idle
         /\ tx[t].order \in Orders /\ tx[t].kind \in Kinds
         /\ tx[t].todo \in SUBSET Products
         /\ tx[t].row.items \in ItemLists
         /\ tx[t].row = [status |-> tx[t].row.status, items |-> tx[t].row.items]
         /\ tx[t].draft \in [Products -> 0..MaxInt]
         /\ RowOK(t) /\ TodoOK(t) /\ DraftsOK(t)
<1>1. tx[t] \in UpdateSet
  BY DEF TxInv, TxTypes, InsertSet, Idle
<1> QED
  BY <1>1 DEF TxInv, TxOK, UpdateSet, Idle

\* What it needs to know of one that is still waiting for its row.
LEMMA InsertTypes ==
  ASSUME TxInv, NEW t \in Txs, tx[t].pc = "insert"
  PROVE  /\ tx[t] \in InsertSet
         /\ tx[t].order \in Orders /\ tx[t].kind \in Kinds
         /\ InsertOK(t)
<1>1. tx[t] \in InsertSet
  BY DEF TxInv, TxTypes, UpdateSet, Idle
<1> QED
  BY <1>1 DEF TxInv, TxOK, InsertSet

----------------------------------------------------------------------------
(* One lemma per statement *)

\* A call opens a transaction.
LEMMA CallPreserves ==
  ASSUME TxInv, NEW t \in Txs, NEW o \in Orders,
         \/ \E items \in KnownBaskets : ReserveCall(t, o, items)
         \/ \E legacy \in KnownBaskets \cup {NoLegacy} :
              ReleaseCall(t, o, legacy)
  PROVE  TxInv'
<1>1. PICK kind \in Kinds, items \in KnownBaskets \cup {NoLegacy} :
        /\ Call(t, kind, o, items)
        /\ kind = "release" \/ items \in KnownBaskets
  BY DEF ReserveCall, ReleaseCall, Kinds
<1>2. RowsOK' /\ KnownGrows
  BY <1>1, RowsUntouched DEF Call
<1>3. tx[t] = Idle /\ UNCHANGED <<ledgerVars, rowLock, productLock>>
  BY <1>1 DEF Call
<1> DEFINE new == [pc |-> "insert", kind |-> kind, order |-> o, items |-> items]
<1>4. new \in InsertSet /\ tx' = [tx EXCEPT ![t] = new]
  BY <1>1, BasketsAreLists DEF Call, InsertSet
<1>5. TxTypes'
  BY <1>3, <1>4 DEF TxInv, TxTypes
<1>6. tx'[t] = new /\ \A u \in Txs \ {t} : tx'[u] = tx[u]
  BY <1>4 DEF TxInv, TxTypes
<1>7. TxOK(t)'
  <2>1. \A x \in Orders : rowLock'[x] # t
    BY <1>3 DEF TxInv, TxOK, LocksOK, Idle
  <2>2. \A p \in Products : productLock'[p] # t
    BY <1>3 DEF TxInv, TxOK, LocksOK, Idle
  <2>3. InsertOK(t)'
    BY <1>1, <1>3, <1>6 DEF InsertOK, ledgerVars, KnownBaskets
  <2> QED
    BY <1>6, <2>1, <2>2, <2>3 DEF TxOK, LocksOK
<1>8. \A u \in Txs \ {t} : TxOK(u)'
  BY <1>2, <1>3, <1>6, OthersUndisturbed DEF ledgerVars, DraftsOK, TxInv, TxOK, LocksOK
<1> QED
  BY <1>2, <1>5, <1>7, <1>8 DEF TxInv

\* The end of a transaction, with the rows it leaves behind.
LEMMA UnlockPreserves ==
  ASSUME TxInv, NEW t \in Txs, Unlock(t), RowsOK',
         UNCHANGED <<catalogue, removed>>,
         \A o \in Orders : rowLock[o] # t => ledger'[o] = ledger[o],
         \A p \in Products : productLock[p] # t => stock'[p] = stock[p]
  PROVE  TxInv'
<1>1. TxTypes'
  BY DEF TxInv, TxTypes, Unlock
<1>2. tx'[t] = Idle /\ \A u \in Txs \ {t} : tx'[u] = tx[u]
  BY DEF TxInv, TxTypes, Unlock
<1>3. KnownGrows
  BY DEF KnownGrows
<1>4. TxOK(t)'
  BY <1>2, TxAssumption, LedgerAssumption DEF TxOK, LocksOK, Unlock, Idle
<1>5. ASSUME NEW u \in Txs \ {t}
      PROVE  TxOK(u)'
  <2>1. \A o \in Orders : rowLock'[o] = u <=> rowLock[o] = u
    BY TxAssumption, LedgerAssumption DEF Unlock
  <2>2. \A p \in Products : productLock'[p] = u <=> productLock[p] = u
    BY TxAssumption, LedgerAssumption DEF Unlock
  <2>3. \A o \in Orders : rowLock[o] = u => ledger'[o] = ledger[o]
    OBVIOUS
  <2>4. \A p \in Products :
          productLock[p] = u => stock'[p] = stock[p] /\ p \in catalogue'
    BY DEF TxInv, TxOK, LocksOK, DraftsOK
  <2> QED
    BY <1>2, <1>3, <2>1, <2>2, <2>3, <2>4, OthersUndisturbed
<1> QED
  BY <1>1, <1>4, <1>5 DEF TxInv

\* A rollback takes the locks and leaves the rows.
LEMMA RollbackPreserves ==
  ASSUME TxInv, NEW t \in Txs, Abort(t) \/ RefuseReserve(t) \/ UpdateFails(t)
  PROVE  TxInv'
<1>1. Unlock(t) /\ UNCHANGED ledgerVars
  BY DEF Abort, RefuseReserve, UpdateFails
<1> QED
  BY <1>1, RowsUntouched, UnlockPreserves DEF ledgerVars

\* The row that a transaction sees, once it did not refuse it.
LEMMA SeenRow ==
  ASSUME TxInv, NEW t \in Txs, tx[t].pc = "insert", ~ Conflicts(t, RowSeen(t)),
         NEW o, o = tx[t].order, NEW row, row = RowSeen(t)
  PROVE  /\ row \in [status : {"pending", "reserved", "released"},
                     items : ItemLists]
         /\ Known(row.items)
         /\ tx[t].kind = "reserve" => row.items \in KnownBaskets
         /\ ledger[o].status # "absent" =>
              row = ledger[o] /\ (tx[t].kind = "reserve" => row.status = "reserved")
         /\ ledger[o].status = "absent" =>
              IF tx[t].kind = "reserve" THEN row.status = "pending"
              ELSE \/ row = Row("released", NoItems)
                   \/ row.status = "reserved" /\ row.items \in KnownBaskets
<1>1. o \in Orders /\ tx[t].kind \in Kinds /\ InsertOK(t)
  BY InsertTypes
<1>2. ledger[o] \in Rows /\ Known(ledger[o].items)
  BY <1>1 DEF TxInv, RowsOK, LedgerTypeOK
<1>3. NoLegacy \notin KnownBaskets
  BY BasketsAreLists, TxAssumption, LedgerAssumption DEF ItemLists
<1>4. \A items \in KnownBaskets : items \in ItemLists /\ Known(items)
  BY BasketsAreLists DEF KnownBaskets, Known
<1>5. CASE ledger[o].status # "absent"
  <2>1. row = ledger[o]
    BY <1>5 DEF RowSeen
  <2>2. row \in [status : {"pending", "reserved", "released"}, items : ItemLists]
    BY <1>2, <1>5, <2>1 DEF Rows, ItemLists
  <2>3. tx[t].kind = "reserve" => row.status = "reserved" /\ row.items = tx[t].items
    BY <1>2, <1>5, <2>1 DEF Conflicts, Rows
  <2> QED
    BY <1>1, <1>2, <1>5, <2>1, <2>2, <2>3 DEF InsertOK
<1>6. CASE ledger[o].status = "absent" /\ tx[t].kind = "reserve"
  <2>1. row = [status |-> "pending", items |-> tx[t].items]
    BY <1>6 DEF RowSeen, Row
  <2> QED
    BY <1>1, <1>4, <1>6, <2>1 DEF InsertOK
<1>7. CASE ledger[o].status = "absent" /\ tx[t].kind # "reserve"
  <2>1. row = RowToRelease(o, tx[t].items)
    BY <1>7 DEF RowSeen
  <2>2. CASE tx[t].items = NoLegacy
    <3>1. row = Row("released", NoItems)
      BY <1>7, <2>1, <2>2 DEF RowToRelease
    <3> QED
      BY <1>7, <3>1, NoItemsType DEF Row, Known
  <2>3. CASE tx[t].items # NoLegacy
    <3>1. row = [status |-> "reserved", items |-> tx[t].items]
      BY <1>7, <2>1, <2>3 DEF RowToRelease, Row
    <3> QED
      BY <1>1, <1>4, <1>7, <2>3, <3>1 DEF InsertOK
  <2> QED
    BY <2>2, <2>3
<1> QED
  BY <1>5, <1>6, <1>7

\* A transaction locks its reservation and knows its items from then on.
LEMMA LockRowPreserves ==
  ASSUME TxInv, NEW t \in Txs, LockRow(t)
  PROVE  TxInv'
<1> DEFINE o == tx[t].order  kind == tx[t].kind  row == RowSeen(t)
           todo == IF Settled(t, row) THEN {} ELSE Listed(row.items)
           new == [pc |-> "update", kind |-> kind, order |-> o, row |-> row,
                   draft |-> NoItems, todo |-> todo]
<1>1. tx[t].pc = "insert" /\ rowLock[o] = NoTx /\ ~ Conflicts(t, row)
      /\ rowLock' = [rowLock EXCEPT ![o] = t]
      /\ tx' = [tx EXCEPT ![t] = new] /\ UNCHANGED <<ledgerVars, productLock>>
  BY DEF LockRow, RowFree
<1>2. o \in Orders /\ kind \in Kinds
  BY <1>1, InsertTypes
<1>3. RowsOK' /\ KnownGrows
  BY <1>1, RowsUntouched
<1>4. /\ row \in [status : {"pending", "reserved", "released"}, items : ItemLists]
      /\ Known(row.items)
      /\ kind = "reserve" => row.items \in KnownBaskets
      /\ ledger[o].status # "absent" =>
           row = ledger[o] /\ (kind = "reserve" => row.status = "reserved")
      /\ ledger[o].status = "absent" =>
           IF kind = "reserve" THEN row.status = "pending"
           ELSE \/ row = Row("released", NoItems)
                \/ row.status = "reserved" /\ row.items \in KnownBaskets
  BY <1>1, SeenRow
<1>5. new \in UpdateSet
  <2>1. todo \in SUBSET Products
    BY DEF Listed
  <2> QED
    BY <1>2, <1>4, <2>1, NoItemsType DEF UpdateSet, ItemLists
<1>6. TxTypes'
  BY <1>1, <1>5 DEF TxInv, TxTypes, ledgerVars
<1>7. tx'[t] = new /\ \A u \in Txs \ {t} : tx'[u] = tx[u]
  BY <1>1 DEF TxInv, TxTypes
<1>8. rowLock'[o] = t /\ \A x \in Orders \ {o} : rowLock'[x] = rowLock[x]
  BY <1>1, <1>2 DEF TxInv, TxTypes
<1>9. /\ \A x \in Orders : rowLock[x] # t
      /\ \A p \in Products : productLock[p] # t
  BY <1>1 DEF TxInv, TxOK, LocksOK
<1>10. TxOK(t)'
  <2>1. LocksOK(t)'
    BY <1>1, <1>7, <1>8, <1>9 DEF LocksOK
  <2>2. RowOK(t)'
    BY <1>1, <1>4, <1>7, <1>8
       DEF RowOK, ledgerVars, Known, KnownBaskets, Listed,
           Row, NoItems
  <2>3. TodoOK(t)'
    BY <1>7 DEF TodoOK, Settled, Listed
  <2>4. DraftsOK(t)'
    BY <1>1, <1>9 DEF DraftsOK
  <2> QED
    BY <1>7, <2>1, <2>2, <2>3, <2>4 DEF TxOK
<1>11. ASSUME NEW u \in Txs \ {t}
       PROVE  TxOK(u)'
  <2>1. \A x \in Orders : rowLock'[x] = u <=> rowLock[x] = u
    BY <1>1, <1>8, TxAssumption, LedgerAssumption
  <2>2. \A p \in Products : productLock[p] = u => p \in catalogue
    BY DEF TxInv, TxOK, LocksOK, DraftsOK
  <2> QED
    BY <1>1, <1>3, <1>7, <2>1, <2>2, OthersUndisturbed DEF ledgerVars
<1> QED
  BY <1>3, <1>6, <1>10, <1>11 DEF TxInv

\* A conditional update locks the next product and drafts its stock.
LEMMA UpdateProductPreserves ==
  ASSUME TxInv, NEW t \in Txs, UpdateProduct(t)
  PROVE  TxInv'
<1> DEFINE p == NextProduct(t)  n == NewStock(t, p)
           new == [tx[t] EXCEPT !.todo = @ \ {p}, !.draft = [@ EXCEPT ![p] = n]]
<1>1. /\ tx[t].pc = "update" /\ tx[t].todo # {}
      /\ productLock[p] = NoTx /\ p \in catalogue /\ n \in 0..MaxInt
      /\ productLock' = [productLock EXCEPT ![p] = t]
      /\ tx' = [tx EXCEPT ![t].todo = @ \ {p}, ![t].draft[p] = n]
      /\ UNCHANGED <<ledgerVars, rowLock>>
  BY DEF UpdateProduct, ProductFree, UpdateApplies
<1>2. /\ tx[t] \in UpdateSet /\ tx[t].todo \in SUBSET Products
      /\ tx[t].draft \in [Products -> 0..MaxInt]
      /\ RowOK(t) /\ TodoOK(t) /\ DraftsOK(t)
  BY <1>1, UpdateTypes
<1>3. p \in tx[t].todo /\ p \in Products
      /\ \A q \in tx[t].todo : Rank[p] <= Rank[q]
  BY <1>1, <1>2, NextIsFirst
<1>4. RowsOK' /\ KnownGrows
  BY <1>1, RowsUntouched
<1>5. new \in UpdateSet /\ tx' = [tx EXCEPT ![t] = new]
  BY <1>1, <1>2, <1>3 DEF UpdateSet, TxInv, TxTypes
<1>6. TxTypes'
  BY <1>1, <1>5 DEF TxInv, TxTypes
<1>7. tx'[t] = new /\ \A u \in Txs \ {t} : tx'[u] = tx[u]
  BY <1>5 DEF TxInv, TxTypes
<1>8. /\ new.pc = "update" /\ new.kind = tx[t].kind /\ new.order = tx[t].order
      /\ new.row = tx[t].row /\ new.todo = tx[t].todo \ {p}
      /\ new.draft[p] = n /\ \A q \in Products \ {p} : new.draft[q] = tx[t].draft[q]
  BY <1>2, <1>3 DEF UpdateSet
<1>9. productLock'[p] = t /\ \A q \in Products \ {p} : productLock'[q] = productLock[q]
  BY <1>1, <1>3 DEF TxInv, TxTypes
<1>10. TxOK(t)'
  <2>1. LocksOK(t)'
    BY <1>1, <1>7, <1>8, <1>9 DEF LocksOK, TxInv, TxOK
  <2>r. /\ tx'[t].order = tx[t].order /\ tx'[t].kind = tx[t].kind
        /\ tx'[t].row = tx[t].row /\ rowLock' = rowLock /\ ledger' = ledger
        /\ catalogue' = catalogue /\ removed' = removed
    BY <1>1, <1>7, <1>8 DEF ledgerVars
  <2>k. KnownBaskets' = KnownBaskets /\ \A items : Known(items)' <=> Known(items)
    BY <2>r DEF KnownBaskets, Known, Listed
  <2>2. RowOK(t)'
    <3> HIDE DEF p, n, new
    <3> QED
      BY <1>2, <2>r, <2>k DEF RowOK, Row, NoItems
  <2>3. ~ Settled(t, tx[t].row) /\ p \in Listed(tx[t].row.items)
    BY <1>1, <1>2, <1>3 DEF TodoOK
  <2> HIDE DEF p, n, new
  <2>a. tx'[t].row = tx[t].row /\ tx'[t].kind = tx[t].kind
        /\ tx'[t].todo = tx[t].todo \ {p} /\ tx'[t].draft[p] = n
        /\ \A q \in Products \ {p} : tx'[t].draft[q] = tx[t].draft[q]
    BY <1>7, <1>8
  <2>b. ~ Settled(t, tx[t].row)'
    BY <2>3, <2>a DEF Settled
  <2>c. Listed(tx[t].row.items)' = Listed(tx[t].row.items)
    BY <2>a DEF Listed
  <2>4. TodoOK(t)'
    <3>1. tx[t].todo \subseteq Listed(tx[t].row.items)
          /\ \A q \in Listed(tx[t].row.items) \ tx[t].todo :
               productLock[q] = t \/ (tx[t].kind = "release" /\ q \in removed)
      BY <1>2, <2>3 DEF TodoOK
    <3>2. \A q \in Listed(tx[t].row.items) : q \in Products
      BY DEF Listed
    <3>3. removed' = removed
      BY <1>1 DEF ledgerVars
    <3>4. \A q \in Listed(tx[t].row.items) \ tx'[t].todo :
            productLock'[q] = t \/ (tx'[t].kind = "release" /\ q \in removed')
      BY <1>9, <2>a, <3>1, <3>2, <3>3
    <3>5. tx'[t].todo \subseteq Listed(tx[t].row.items)
      BY <2>a, <3>1
    <3> QED
      BY <2>b, <2>c, <3>4, <3>5 DEF TodoOK
  <2>5. \A q \in tx[t].todo \ {p} : Rank[p] < Rank[q]
    <3>1. \A q \in tx[t].todo \ {p} : Rank[p] # Rank[q] /\ Rank[p] <= Rank[q]
      BY <1>2, <1>3, TxAssumption, LedgerAssumption
    <3> QED
      BY <1>2, <1>3, <3>1, RankType
  <2>6. DraftsOK(t)'
    <3>1. \A q \in Products : NewStock(t, q)' = NewStock(t, q)
      <4>1. stock' = stock
        BY <1>1 DEF ledgerVars
      <4> QED
        BY <4>1, <2>a DEF NewStock, Quantity
    <3>2. catalogue' = catalogue
      BY <1>1 DEF ledgerVars
    <3>3. p \in Listed(tx[t].row.items) \ tx'[t].todo
          /\ tx'[t].draft[p] = NewStock(t, p)
          /\ \A q \in tx'[t].todo : Rank[p] < Rank[q]
      BY <2>3, <2>5, <2>a DEF n
    <3>4. \A q \in Products \ {p} : productLock'[q] = t =>
            /\ q \in catalogue
            /\ q \in Listed(tx[t].row.items) \ tx'[t].todo
            /\ tx'[t].draft[q] = NewStock(t, q)
            /\ \A x \in tx'[t].todo : Rank[q] < Rank[x]
      BY <1>2, <1>9, <2>a DEF DraftsOK
    <3> QED
      BY <1>1, <2>b, <2>c, <3>1, <3>2, <3>3, <3>4 DEF DraftsOK
  <2> QED
    BY <1>7, <1>8, <2>1, <2>2, <2>4, <2>6 DEF TxOK
<1>11. ASSUME NEW u \in Txs \ {t}
       PROVE  TxOK(u)'
  <2>1. \A q \in Products : productLock'[q] = u <=> productLock[q] = u
    BY <1>1, <1>9, TxAssumption, LedgerAssumption
  <2>2. \A q \in Products : productLock[q] = u => q \in catalogue
    BY DEF TxInv, TxOK, LocksOK, DraftsOK
  <2> QED
    BY <1>1, <1>4, <1>7, <2>1, <2>2, OthersUndisturbed DEF ledgerVars
<1> QED
  BY <1>4, <1>6, <1>10, <1>11 DEF TxInv

\* An increment of a removed product changes nothing.
LEMMA SkipRemovedPreserves ==
  ASSUME TxInv, NEW t \in Txs, SkipRemoved(t)
  PROVE  TxInv'
<1> DEFINE p == NextProduct(t)
           new == [tx[t] EXCEPT !.todo = @ \ {p}]
<1>1. /\ tx[t].pc = "update" /\ tx[t].todo # {}
      /\ tx[t].kind = "release" /\ p \notin catalogue
      /\ tx' = [tx EXCEPT ![t].todo = @ \ {p}]
      /\ UNCHANGED <<ledgerVars, rowLock, productLock>>
  BY DEF SkipRemoved
<1>2. /\ tx[t] \in UpdateSet /\ tx[t].todo \in SUBSET Products
      /\ RowOK(t) /\ TodoOK(t) /\ DraftsOK(t)
  BY <1>1, UpdateTypes
<1>3. p \in tx[t].todo /\ p \in Products
  BY <1>1, <1>2, NextIsFirst
<1>4. RowsOK' /\ KnownGrows
  BY <1>1, RowsUntouched
<1>5. new \in UpdateSet /\ tx' = [tx EXCEPT ![t] = new]
  BY <1>1, <1>2, <1>3 DEF UpdateSet, TxInv, TxTypes
<1>6. TxTypes'
  BY <1>1, <1>5 DEF TxInv, TxTypes
<1>7. tx'[t] = new /\ \A u \in Txs \ {t} : tx'[u] = tx[u]
  BY <1>5 DEF TxInv, TxTypes
<1>8. /\ tx'[t].pc = "update" /\ tx'[t].kind = tx[t].kind
      /\ tx'[t].order = tx[t].order /\ tx'[t].row = tx[t].row
      /\ tx'[t].todo = tx[t].todo \ {p} /\ tx'[t].draft = tx[t].draft
  BY <1>1, <1>2, <1>7 DEF UpdateSet
<1>9. UNCHANGED <<stock, catalogue, removed, ledger, rowLock, productLock>>
  BY <1>1 DEF ledgerVars
<1>10. TxOK(t)'
  <2> HIDE DEF p, new
  <2>1. LocksOK(t)'
    BY <1>1, <1>8, <1>9 DEF LocksOK, TxInv, TxOK
  <2>2. RowOK(t)'
    BY <1>2, <1>8, <1>9
       DEF RowOK, Known, KnownBaskets, Listed, Row,
           NoItems
  <2>3. ~ Settled(t, tx[t].row) /\ p \in Listed(tx[t].row.items)
    BY <1>2, <1>3 DEF TodoOK
  <2>4. p \in removed
    BY <1>1, <1>2, <2>3 DEF RowOK, Known
  <2>5. ~ Settled(t, tx[t].row)'
    BY <1>8, <2>3 DEF Settled
  <2>6. Listed(tx[t].row.items)' = Listed(tx[t].row.items)
    BY <1>8 DEF Listed
  <2>7. TodoOK(t)'
    <3>1. tx[t].todo \subseteq Listed(tx[t].row.items)
          /\ \A q \in Listed(tx[t].row.items) \ tx[t].todo :
               productLock[q] = t \/ (tx[t].kind = "release" /\ q \in removed)
      BY <1>2, <2>3 DEF TodoOK
    <3> QED
      BY <1>1, <1>8, <1>9, <2>4, <2>5, <2>6, <3>1 DEF TodoOK
  <2>8. DraftsOK(t)'
    <3>1. \A q \in Products : NewStock(t, q)' = NewStock(t, q)
      BY <1>8, <1>9 DEF NewStock, Quantity
    <3> QED
      BY <1>2, <1>8, <1>9, <2>5, <2>6, <3>1 DEF DraftsOK
  <2> QED
    BY <1>8, <2>1, <2>2, <2>7, <2>8 DEF TxOK
<1>11. ASSUME NEW u \in Txs \ {t}
       PROVE  TxOK(u)'
  <2>1. \A q \in Products : productLock[q] = u => q \in catalogue
    BY DEF TxInv, TxOK, LocksOK, DraftsOK
  <2> QED
    BY <1>4, <1>7, <1>9, <2>1, OthersUndisturbed
<1> QED
  BY <1>4, <1>6, <1>10, <1>11 DEF TxInv

\* The rows a commit writes, product by product.
LEMMA CommittedStock ==
  ASSUME TxInv, NEW t \in Txs, Commit(t), NEW p \in Products
  PROVE  /\ p \in Written(t) =>
              /\ p \in catalogue /\ p \in Listed(tx[t].row.items)
              /\ ~ Settled(t, tx[t].row)
              /\ stock'[p] = NewStock(t, p) /\ NewStock(t, p) \in 0..MaxInt
         /\ p \notin Written(t) =>
              /\ stock'[p] = stock[p]
              /\ \/ Settled(t, tx[t].row)
                 \/ p \notin Listed(tx[t].row.items)
                 \/ tx[t].kind = "release" /\ p \notin catalogue
<1>1. tx[t].pc = "update" /\ tx[t].todo = {}
      /\ stock' = [q \in Products |-> IF q \in Written(t)
                                      THEN tx[t].draft[q] ELSE stock[q]]
  BY DEF Commit
<1>2. TodoOK(t) /\ DraftsOK(t) /\ tx[t].draft \in [Products -> 0..MaxInt]
  BY <1>1, UpdateTypes
<1>3. removed \cap catalogue = {}
  BY DEF TxInv, RowsOK
<1>4. p \in Written(t) <=> productLock[p] = t
  BY DEF Written
<1> QED
  BY <1>1, <1>2, <1>3, <1>4 DEF TodoOK, DraftsOK

\* A commit writes the drafts and the reservation.
LEMMA CommitPreserves ==
  ASSUME TxInv, NEW t \in Txs, Commit(t)
  PROVE  TxInv'
<1> DEFINE o == tx[t].order  row == tx[t].row
           final == IF tx[t].kind = "reserve" THEN "reserved" ELSE "released"
<1>1. /\ tx[t].pc = "update" /\ Unlock(t)
      /\ ledger' = [ledger EXCEPT ![o] = Row(final, row.items)]
      /\ stock' = [p \in Products |-> IF p \in Written(t)
                                      THEN tx[t].draft[p] ELSE stock[p]]
      /\ supplied' = [p \in Products |->
                        IF ledger[o].status = "absent" /\ tx[t].kind = "release"
                           /\ p \in Written(t)
                        THEN supplied[p] + Quantity(t, p) ELSE supplied[p]]
      /\ UNCHANGED <<catalogue, removed>>
  BY DEF Commit
<1>2. /\ o \in Orders /\ row.items \in ItemLists
      /\ tx[t].draft \in [Products -> 0..MaxInt] /\ RowOK(t)
  BY <1>1, UpdateTypes
<1>3. Row(final, row.items) \in Rows
  BY <1>2 DEF Row, Rows, ItemLists
<1>4. LedgerTypeOK'
  <2>1. stock \in [Products -> 0..MaxInt] /\ ledger \in [Orders -> Rows]
        /\ supplied \in [Products -> Int] /\ catalogue \subseteq Products
        /\ removed \subseteq Products
    BY DEF TxInv, RowsOK, LedgerTypeOK
  <2>2. stock' \in [Products -> 0..MaxInt]
    BY <1>1, <1>2, <2>1
  <2>3. ledger' \in [Orders -> Rows]
    BY <1>1, <1>3, <2>1
  <2>4. supplied' \in [Products -> Int]
    BY <1>1, <1>2, <2>1 DEF Quantity, ItemLists
  <2>5. Rows' = Rows
    BY DEF Rows, ItemLists
  <2> QED
    BY <1>1, <2>1, <2>2, <2>3, <2>4, <2>5 DEF LedgerTypeOK
<1>5. RowsOK'
  <2>1. \A x \in Orders : Known(ledger'[x].items)
    BY <1>1, <1>2 DEF TxInv, RowsOK, RowOK, Row, LedgerTypeOK
  <2> QED
    BY <1>1, <1>4, <2>1 DEF TxInv, RowsOK, Known
<1>6. \A x \in Orders : rowLock[x] # t => ledger'[x] = ledger[x]
  BY <1>1, <1>2 DEF RowOK, TxInv, RowsOK, LedgerTypeOK
<1>7. \A p \in Products : productLock[p] # t => stock'[p] = stock[p]
  BY <1>1 DEF Written
<1> QED
  BY <1>1, <1>5, <1>6, <1>7, UnlockPreserves

\* Administrators only write rows that nobody has locked.
LEMMA AdminPreserves ==
  ASSUME TxInv, NEW p \in Products,
         \/ \E n \in 0..MaxInt : Create(p, n) \/ Update(p, n)
         \/ Remove(p)
  PROVE  TxInv'
<1>1. UNCHANGED <<rowLock, productLock, tx, ledger>>
  BY DEF Create, Update, Remove, CreateProduct,
         SetStock, RemoveProduct
<1>2. KnownGrows
  BY DEF KnownGrows, Create, Update, Remove,
         CreateProduct, SetStock, RemoveProduct
<1>3. LedgerTypeOK' /\ catalogue' \cap removed' = {}
  <2>1. LedgerTypeOK /\ catalogue \cap removed = {}
    BY DEF TxInv, RowsOK
  <2>2. ASSUME NEW n \in 0..MaxInt, Create(p, n)
        PROVE  LedgerTypeOK' /\ catalogue' \cap removed' = {}
    BY <2>1, <2>2, TxAssumption, LedgerAssumption
       DEF Create, CreateProduct, LedgerTypeOK,
           Rows, ItemLists
  <2>3. ASSUME NEW n \in 0..MaxInt, Update(p, n)
        PROVE  LedgerTypeOK' /\ catalogue' \cap removed' = {}
    BY <2>1, <2>3, TxAssumption, LedgerAssumption
       DEF Update, SetStock, LedgerTypeOK,
           Rows, ItemLists
  <2>4. CASE Remove(p)
    BY <2>1, <2>4, TxAssumption, LedgerAssumption
       DEF Remove, RemoveProduct, LedgerTypeOK,
           Rows, ItemLists
  <2> QED
    BY <2>2, <2>3, <2>4
<1>4. RowsOK'
  BY <1>1, <1>2, <1>3, KnownStaysKnown DEF TxInv, RowsOK
<1>5. ASSUME NEW t \in Txs PROVE TxOK(t)'
  <2>1. \A q \in Products : productLock[q] = t => q \in catalogue
    BY DEF TxInv, TxOK, LocksOK, DraftsOK
  <2>2. \A q \in Products :
          productLock[q] = t => stock'[q] = stock[q] /\ q \in catalogue'
    BY <2>1, TxAssumption, LedgerAssumption
       DEF Create, Update, Remove, CreateProduct,
           SetStock, RemoveProduct, ProductFree, TxInv, RowsOK,
           LedgerTypeOK
  <2> QED
    BY <1>1, <1>2, <2>2, OthersUndisturbed
<1> QED
  BY <1>1, <1>4, <1>5 DEF TxInv, TxTypes

----------------------------------------------------------------------------
\* The inductive invariant of the transactions.
THEOREM TxInvariance == Spec => []TxInv
<1>1. TxInv /\ [Next]_vars => TxInv'
  <2> SUFFICES ASSUME TxInv, [Next]_vars PROVE TxInv'
    OBVIOUS
  <2>1. CASE UNCHANGED vars
    <3>1. RowsOK' /\ KnownGrows
      BY <2>1, RowsUntouched DEF vars
    <3>2. ASSUME NEW t \in Txs PROVE TxOK(t)'
      <4>1. \A q \in Products : productLock[q] = t => q \in catalogue
        BY DEF TxInv, TxOK, LocksOK, DraftsOK
      <4> QED
        BY <2>1, <3>1, <4>1, OthersUndisturbed DEF vars, ledgerVars
    <3> QED
      BY <2>1, <3>1, <3>2 DEF vars, TxInv, TxTypes
  <2> QED
    BY <2>1, CallPreserves, RollbackPreserves, LockRowPreserves,
       UpdateProductPreserves, SkipRemovedPreserves, CommitPreserves,
       AdminPreserves DEF Next, Statement
<1> QED
  BY <1>1, InitTx, PTL DEF Spec

\* The tables, the locks and the transactions keep their types, and stock its
\* range, at every statement.
THEOREM TxTypeCorrect == Spec => []TxTypeOK
<1>1. TxInv => TxTypeOK
  BY DEF TxInv, RowsOK, TxTypes, TxTypeOK, Idle, InsertSet, UpdateSet
<1> QED
  BY <1>1, TxInvariance, PTL

----------------------------------------------------------------------------
(* A commit is one call of the ledger *)

\* A committed reserve took all of its items from the committed stock.
LEMMA ReserveIsAtomic ==
  ASSUME TxInv, NEW t \in Txs, Commit(t), tx[t].kind = "reserve"
  PROVE  LedgerNext
<1> DEFINE o == tx[t].order  items == tx[t].row.items
<1>1. /\ tx[t].pc = "update"
      /\ ledger' = [ledger EXCEPT ![o] = Row("reserved", items)]
      /\ stock' = [p \in Products |-> IF p \in Written(t)
                                      THEN tx[t].draft[p] ELSE stock[p]]
      /\ supplied' = [p \in Products |-> supplied[p]]
      /\ UNCHANGED <<catalogue, removed>>
  BY DEF Commit
<1>2. /\ RowOK(t) /\ o \in Orders /\ items \in ItemLists
      /\ tx[t].row = [status |-> tx[t].row.status, items |-> items]
  BY <1>1, UpdateTypes
<1>3. items \in KnownBaskets
  BY <1>2 DEF RowOK
<1>4. LedgerTypeOK
  BY DEF TxInv, RowsOK
<1>5. supplied' = supplied
  BY <1>1, <1>4 DEF LedgerTypeOK
<1>6. CASE ledger[o].status # "absent"
  <2>1. tx[t].row = ledger[o] /\ tx[t].row.status = "reserved"
    BY <1>2, <1>6 DEF RowOK
  <2>2. ledger[o] = Row("reserved", items)
    BY <1>2, <2>1 DEF Row
  <2>3. ledger' = ledger
    BY <1>1, <1>2, <1>4, <2>2 DEF LedgerTypeOK
  <2>4. \A p \in Products : stock'[p] = stock[p]
    BY <2>1, CommittedStock DEF Settled
  <2>5. stock' = stock
    BY <1>1, <1>4, <2>4 DEF LedgerTypeOK
  <2>6. Reserve(o, items)
    BY <1>1, <1>5, <2>2, <2>3, <2>5
       DEF Reserve, AlreadyReserved, ledgerVars
  <2> QED
    BY <1>2, <1>3, <2>6 DEF LedgerNext
<1>7. CASE ledger[o].status = "absent"
  <2>1. ~ Settled(t, tx[t].row)
    BY <1>2, <1>7 DEF RowOK, Settled
  <2>2. \A p \in Products :
          /\ stock'[p] = stock[p] - items[p]
          /\ p \in Listed(items) => p \in catalogue /\ stock[p] >= items[p]
    <3> SUFFICES ASSUME NEW p \in Products
                 PROVE  /\ stock'[p] = stock[p] - items[p]
                        /\ p \in Listed(items) =>
                             p \in catalogue /\ stock[p] >= items[p]
      OBVIOUS
    <3>1. stock[p] \in 0..MaxInt /\ items[p] \in 0..MaxInt
      BY <1>2, <1>4 DEF LedgerTypeOK, ItemLists
    <3>2. p \in Listed(items) <=> items[p] > 0
      BY DEF Listed
    <3>3. NewStock(t, p) = stock[p] - items[p]
      BY DEF NewStock, Quantity
    <3> QED
      BY <2>1, <3>1, <3>2, <3>3, CommittedStock, TxAssumption, LedgerAssumption
  <2>3. MayReserve(o, items)
    BY <1>7, <2>2 DEF MayReserve, Available, Listed
  <2>4. stock' = [p \in Products |-> stock[p] - items[p]]
    BY <1>1, <2>2
  <2>5. Reserve(o, items)
    BY <1>1, <1>5, <2>3, <2>4 DEF Reserve
  <2> QED
    BY <1>2, <1>3, <2>5 DEF LedgerNext
<1> QED
  BY <1>6, <1>7

\* A committed release put back all items of products that are still sold.
LEMMA ReleaseIsAtomic ==
  ASSUME TxInv, NEW t \in Txs, Commit(t), tx[t].kind = "release"
  PROVE  LedgerNext
<1> DEFINE o == tx[t].order  row == tx[t].row
           legacy == IF ledger[o].status = "absent" /\ row.status = "reserved"
                     THEN row.items ELSE NoLegacy
           back == UnitsBack(row)
<1>1. /\ tx[t].pc = "update"
      /\ ledger' = [ledger EXCEPT ![o] = Row("released", row.items)]
      /\ stock' = [p \in Products |-> IF p \in Written(t)
                                      THEN tx[t].draft[p] ELSE stock[p]]
      /\ supplied' = [p \in Products |->
                        IF ledger[o].status = "absent" /\ p \in Written(t)
                        THEN supplied[p] + Quantity(t, p) ELSE supplied[p]]
      /\ UNCHANGED <<catalogue, removed>>
  BY DEF Commit
<1>2. /\ RowOK(t) /\ o \in Orders /\ row.items \in ItemLists
      /\ row = [status |-> row.status, items |-> row.items]
  BY <1>1, UpdateTypes
<1>3. LedgerTypeOK
  BY DEF TxInv, RowsOK
<1>4. legacy \in KnownBaskets \cup {NoLegacy}
  BY <1>2 DEF RowOK, Row
<1>5. row = RowToRelease(o, legacy)
  <2>1. CASE ledger[o].status # "absent"
    BY <1>2, <2>1 DEF RowOK, RowToRelease
  <2>2. CASE ledger[o].status = "absent" /\ row.status = "reserved"
    <3>1. legacy = row.items /\ legacy # NoLegacy
      BY <1>2, <2>2, TxAssumption, LedgerAssumption DEF ItemLists
    <3> QED
      BY <1>2, <2>2, <3>1 DEF RowToRelease, Row
  <2>3. CASE ledger[o].status = "absent" /\ row.status # "reserved"
    BY <1>2, <2>3 DEF RowOK, RowToRelease, Row
  <2> QED
    BY <2>1, <2>2, <2>3
<1>6. row.status \in {"reserved", "released"}
  BY <1>2, <1>3 DEF RowOK, Row, LedgerTypeOK, Rows
<1>7. Settled(t, row) <=> row.status = "released"
  BY DEF Settled
<1>8. ASSUME NEW p \in Products
      PROVE  /\ p \in catalogue => stock'[p] = stock[p] + back[p]
             /\ p \notin catalogue => stock'[p] = stock[p]
             /\ p \in Written(t) => p \in catalogue /\ Quantity(t, p) = back[p]
             /\ p \in catalogue \ Written(t) => back[p] = 0
             /\ stock'[p] \in 0..MaxInt
  <2>1. stock[p] \in 0..MaxInt /\ row.items[p] \in 0..MaxInt
    BY <1>2, <1>3 DEF LedgerTypeOK, ItemLists
  <2>2. p \in Listed(row.items) <=> row.items[p] > 0
    BY DEF Listed
  <2>3. NewStock(t, p) = stock[p] + row.items[p] /\ Quantity(t, p) = row.items[p]
    BY DEF NewStock, Quantity
  <2>4. back[p] = IF row.status = "reserved" THEN row.items[p] ELSE 0
    BY DEF UnitsBack, NoItems
  <2> HIDE DEF back, row
  <2> QED
    BY <1>6, <1>7, <2>1, <2>2, <2>3, <2>4, CommittedStock, TxAssumption, LedgerAssumption DEF row
<1>9. \A p \in catalogue : stock[p] + back[p] <= MaxInt
  <2>1. catalogue \subseteq Products
    BY <1>3 DEF LedgerTypeOK
  <2>2. \A p \in catalogue : stock[p] + back[p] \in 0..MaxInt
    BY <1>8, <2>1
  <2> QED
    BY <2>2, TxAssumption, LedgerAssumption
<1>10. stock' = [p \in Products |->
                   IF p \in catalogue THEN stock[p] + back[p] ELSE stock[p]]
  BY <1>1, <1>8
<1>11. supplied' = [p \in Products |->
                      IF p \in catalogue /\ ledger[o].status = "absent"
                      THEN supplied[p] + back[p] ELSE supplied[p]]
  <2>1. \A p \in Products : supplied[p] \in Int
    BY <1>3 DEF LedgerTypeOK
  <2>2. \A p \in Products :
          (IF ledger[o].status = "absent" /\ p \in Written(t)
           THEN supplied[p] + Quantity(t, p) ELSE supplied[p])
          = (IF p \in catalogue /\ ledger[o].status = "absent"
             THEN supplied[p] + back[p] ELSE supplied[p])
    BY <1>8, <2>1
  <2> QED
    BY <1>1, <2>2
<1>12. Release(o, legacy)
  BY <1>1, <1>5, <1>9, <1>10, <1>11 DEF Release, RowAfterRelease
<1> QED
  BY <1>2, <1>4, <1>12 DEF LedgerNext

\* The transactions implement the atomic calls of StockLedger.
THEOREM StockTxImplementsLedger == Spec => TransactionsAreAtomic
<1>1. Init => LedgerInit
  BY DEF Init
<1>2. TxInv /\ [Next]_vars => [LedgerNext]_ledgerVars
  <2> SUFFICES ASSUME TxInv, [Next]_vars
               PROVE  LedgerNext \/ UNCHANGED ledgerVars
    OBVIOUS
  <2>1. ASSUME NEW t \in Txs, Commit(t) PROVE LedgerNext
    <3>1. tx[t].kind \in Kinds
      BY <2>1, UpdateTypes DEF Commit
    <3> QED
      BY <2>1, <3>1, ReserveIsAtomic, ReleaseIsAtomic DEF Kinds
  <2>2. ASSUME NEW p \in Products,
               \/ \E n \in 0..MaxInt : Create(p, n) \/ Update(p, n)
               \/ Remove(p)
        PROVE  LedgerNext
    BY <2>2 DEF Create, Update, Remove, LedgerNext
  <2>3. CASE \E p \in Products :
               \/ \E n \in 0..MaxInt : Create(p, n) \/ Update(p, n)
               \/ Remove(p)
    BY <2>2, <2>3
  <2>4. CASE \E t \in Txs : Commit(t)
    BY <2>1, <2>4
  <2>5. CASE UNCHANGED ledgerVars
    BY <2>5
  <2> QED
    BY <2>3, <2>4, <2>5
       DEF Next, vars, Statement, ReserveCall, ReleaseCall, Call, LockRow,
           RefuseReserve, UpdateProduct, SkipRemoved, UpdateFails, Abort
<1> QED
  BY <1>1, <1>2, TxInvariance, PTL
     DEF Spec, TransactionsAreAtomic, LedgerSpec

\* What the ledger guarantees it guarantees for the transactions: after every
\* statement the committed units add up, and releases are final.
THEOREM TransactionsConserveUnits ==
  Spec => []UnitsConserved /\ ReleasedIsFinal
  BY StockTxImplementsLedger, UnitsAreConserved, ReleasesAreFinal, PTL
     DEF TransactionsAreAtomic

----------------------------------------------------------------------------
(* Waiting *)

\* Who waits for a product waits for a transaction that has it, and this one
\* can only wait for a product that comes later.
LEMMA WaitsGoUp ==
  ASSUME TxInv, NEW t \in Txs, NEW u \in Txs, NEW v \in Txs,
         tx[t].pc = "update", WaitsFor(t, u), WaitsFor(u, v)
  PROVE  /\ tx[u].pc = "update"
         /\ Rank[NextProduct(t)] < Rank[NextProduct(u)]
<1>1. tx[t].todo # {} /\ productLock[NextProduct(t)] = u
  BY DEF WaitsFor
<1>2. NextProduct(t) \in Products
  BY <1>1, UpdateTypes, NextIsFirst
<1>3. tx[u].pc = "update"
  BY <1>1, <1>2 DEF TxInv, TxOK, LocksOK
<1>4. tx[u].todo # {}
  BY <1>3 DEF WaitsFor
<1>5. NextProduct(u) \in tx[u].todo /\ DraftsOK(u)
  BY <1>3, <1>4, UpdateTypes, NextIsFirst
<1> QED
  BY <1>1, <1>2, <1>3, <1>5 DEF DraftsOK

\* No set of transactions waits on itself, however many there are.
THEOREM NobodyWaitsInACircle == Spec => []NoCircularWait
<1>1. TxInv => NoCircularWait
  <2> SUFFICES ASSUME TxInv, NEW S \in (SUBSET Txs) \ {{}},
                      \A t \in S : \E u \in S : WaitsFor(t, u)
               PROVE  FALSE
    BY DEF NoCircularWait
  <2> DEFINE W == {t \in S : tx[t].pc = "update"}
             height(t) == Cardinality(Products) - Rank[NextProduct(t)]
             H == {height(t) : t \in W}
  <2>1. W # {}
    <3>1. PICK t \in S : TRUE
      OBVIOUS
    <3>2. PICK u \in S : WaitsFor(t, u)
      OBVIOUS
    <3>3. CASE tx[t].pc = "insert" /\ rowLock[tx[t].order] = u
      <4>1. tx[t].order \in Orders
        BY <3>3, InsertTypes
      <4>2. tx[u].pc = "update"
        BY <3>3, <4>1 DEF TxInv, TxOK, LocksOK
      <4> QED
        BY <4>2
    <3>4. CASE tx[t].pc = "update"
      BY <3>4
    <3> QED
      BY <3>2, <3>3, <3>4 DEF WaitsFor
  <2>2. ASSUME NEW t \in W
        PROVE  height(t) \in Nat /\ \E u \in W : height(u) < height(t)
    <3>1. PICK u \in S : WaitsFor(t, u)
      OBVIOUS
    <3>2. PICK v \in S : WaitsFor(u, v)
      OBVIOUS
    <3>3. u \in W /\ Rank[NextProduct(t)] < Rank[NextProduct(u)]
      BY <3>1, <3>2, WaitsGoUp
    <3>4. NextProduct(t) \in Products /\ NextProduct(u) \in Products
      <4>1. tx[t].todo # {} /\ tx[u].todo # {}
        BY <3>1, <3>2, <3>3 DEF WaitsFor
      <4> QED
        BY <3>3, <4>1, UpdateTypes, NextIsFirst
    <3>5. height(t) \in Nat /\ height(u) \in Nat
      BY <3>4, RankType
    <3>6. height(u) < height(t)
      BY <3>3, <3>4, RankType
    <3> QED
      BY <3>3, <3>5, <3>6
  <2>3. H \in SUBSET Nat /\ H # {}
    BY <2>1, <2>2
  <2>4. PICK m \in H : \A n \in H : m <= n
    BY <2>3, LeastNumber
  <2>5. PICK t \in W : m = height(t)
    BY <2>4
  <2>6. PICK u \in W : height(u) < height(t)
    BY <2>2
  <2>7. height(t) \in Nat /\ height(u) \in Nat /\ height(t) <= height(u)
    BY <2>2, <2>4, <2>5
  <2> HIDE DEF height
  <2> QED
    BY <2>6, <2>7
<1> QED
  BY <1>1, TxInvariance, PTL
=============================================================================
