------------------------------ MODULE StockTx ------------------------------
(***************************************************************************)
(* The PostgreSQL transactions behind reserveStock and releaseStock        *)
(* (apps/products/src/products.service.ts), statement by statement: the    *)
(* insert-or-ignore and SELECT ... FOR UPDATE of the reservation row, one  *)
(* UPDATE per product in the order of the sorted item list, then COMMIT.   *)
(* READ COMMITTED, row locks held to the end of the transaction, any       *)
(* transaction may abort at any statement (error, crash, lost connection). *)
(*                                                                         *)
(* Administrators' statements run alone in their own transaction. Every    *)
(* property of StockLedger carries over by the refinement at the end.      *)
(***************************************************************************)
EXTENDS StockLedger

CONSTANTS
  Rank,         \* place of a product id in the order of localeCompare
  Txs,          \* transactions that can be open at the same time
  NoTx

ASSUME TxAssumption ==
  /\ IsFiniteSet(Products)
  /\ Rank \in [Products -> 1..Cardinality(Products)]
  /\ \A p, q \in Products : Rank[p] = Rank[q] => p = q
  /\ NoTx \notin Txs

VARIABLES
  rowLock,      \* holder of every reservation's key: its inserter or locker
  productLock,  \* holder of every product row
  tx            \* the open transactions

vars == <<ledgerVars, rowLock, productLock, tx>>

Idle == [pc |-> "idle"]

----------------------------------------------------------------------------
Init ==
  /\ LedgerInit
  /\ rowLock = [o \in Orders |-> NoTx]
  /\ productLock = [p \in Products |-> NoTx]
  /\ tx = [t \in Txs |-> Idle]

Call(t, kind, o, items) ==
  /\ tx[t] = Idle
  /\ tx' = [tx EXCEPT ![t] = [pc |-> "insert", kind |-> kind,
                              order |-> o, items |-> items]]
  /\ UNCHANGED <<ledgerVars, rowLock, productLock>>

ReserveCall(t, o, items) == Call(t, "reserve", o, items)
ReleaseCall(t, o, legacy) == Call(t, "release", o, legacy)

\* End of a transaction: its row locks go; whoever waited re-reads the rows.
Unlock(t) ==
  /\ rowLock' = [o \in Orders |-> IF rowLock[o] = t THEN NoTx ELSE rowLock[o]]
  /\ productLock' = [p \in Products |->
                       IF productLock[p] = t THEN NoTx ELSE productLock[p]]
  /\ tx' = [tx EXCEPT ![t] = Idle]

\* ROLLBACK, whatever the reason; the row the transaction inserted goes too.
Abort(t) ==
  /\ tx[t] # Idle
  /\ Unlock(t)
  /\ UNCHANGED ledgerVars

\* The reservation row as the transaction sees it after its insert.
RowSeen(t) ==
  LET o == tx[t].order
      inserted == IF tx[t].kind = "reserve"
                  THEN Row("pending", tx[t].items)
                  ELSE RowToRelease(o, tx[t].items)
  IN  IF ledger[o].status = "absent" THEN inserted ELSE ledger[o]

\* reserveStock refuses a released row and one with other items.
ConflictsOfItems(t, row) == tx[t].kind = "reserve" /\ row.items # tx[t].items
Conflicts(t, row) ==
  /\ tx[t].kind = "reserve"
  /\ row.status = "released" \/ row.items # tx[t].items

\* Nothing to do: the reservation already is what the call wants.
Settled(t, row) ==
  row.status = IF tx[t].kind = "reserve" THEN "reserved" ELSE "released"

\* Both statements on the reservation row. An insert that meets somebody
\* else's uncommitted insert, and a SELECT FOR UPDATE of a locked row, wait.
RowFree(o) == rowLock[o] = NoTx

LockRow(t) ==
  /\ tx[t].pc = "insert"
  /\ RowFree(tx[t].order)
  /\ LET row == RowSeen(t) IN
     /\ ~ Conflicts(t, row)
     /\ tx' = [tx EXCEPT ![t] =
                 [pc |-> "update", kind |-> @.kind, order |-> @.order,
                  row |-> row, draft |-> NoItems,
                  todo |-> IF Settled(t, row) THEN {}
                           ELSE Listed(row.items)]]
  /\ rowLock' = [rowLock EXCEPT ![tx[t].order] = t]
  /\ UNCHANGED <<ledgerVars, productLock>>

RefuseReserve(t) ==
  /\ tx[t].pc = "insert"
  /\ RowFree(tx[t].order)
  /\ Conflicts(t, RowSeen(t))
  /\ Unlock(t)
  /\ UNCHANGED ledgerVars

\* The next item of the list: [...items].sort by product id.
NextProductUnsorted(t) ==
  CHOOSE p \in tx[t].todo : \A q \in tx[t].todo :
    IF tx[t].kind = "reserve" THEN Rank[p] <= Rank[q] ELSE Rank[p] >= Rank[q]
NextProduct(t) ==
  CHOOSE p \in tx[t].todo : \A q \in tx[t].todo : Rank[p] <= Rank[q]

Quantity(t, p) == tx[t].row.items[p]

\* What an UPDATE of one product makes of its stock.
NewStock(t, p) ==
  IF tx[t].kind = "reserve" THEN stock[p] - Quantity(t, p)
                            ELSE stock[p] + Quantity(t, p)

\* The WHERE clause of the conditional UPDATE and the range of the column.
UpdateAppliesUnchecked(t, p) == p \in catalogue /\ NewStock(t, p) <= MaxInt
UpdateApplies(t, p) == p \in catalogue /\ NewStock(t, p) \in 0..MaxInt

\* UPDATE product: waits for the row lock, then works on the committed stock.
ProductFree(p) == productLock[p] = NoTx

UpdateProduct(t) ==
  /\ tx[t].pc = "update"
  /\ tx[t].todo # {}
  /\ LET p == NextProduct(t) IN
     /\ ProductFree(p)
     /\ UpdateApplies(t, p)
     /\ productLock' = [productLock EXCEPT ![p] = t]
     /\ tx' = [tx EXCEPT ![t].todo = @ \ {p},
                         ![t].draft[p] = NewStock(t, p)]
  /\ UNCHANGED <<ledgerVars, rowLock>>

\* increment of a product that was removed: no row is affected, no error.
SkipRemoved(t) ==
  /\ tx[t].pc = "update"
  /\ tx[t].todo # {}
  /\ tx[t].kind = "release"
  /\ NextProduct(t) \notin catalogue
  /\ tx' = [tx EXCEPT ![t].todo = @ \ {NextProduct(t)}]
  /\ UNCHANGED <<ledgerVars, rowLock, productLock>>

\* A reserve whose UPDATE affects no row is refused; a release whose
\* increment leaves the column's range fails. Both roll back.
UpdateFails(t) ==
  /\ tx[t].pc = "update"
  /\ tx[t].todo # {}
  /\ LET p == NextProduct(t) IN
     /\ ProductFree(p)
     /\ ~ UpdateApplies(t, p)
     /\ tx[t].kind = "reserve" \/ p \in catalogue
  /\ Unlock(t)
  /\ UNCHANGED ledgerVars

\* The rows a committing transaction wrote, and no other.
Written(t) == {p \in Products : productLock[p] = t}

Commit(t) ==
  /\ tx[t].pc = "update"
  /\ tx[t].todo = {}
  /\ LET o == tx[t].order
         final == IF tx[t].kind = "reserve" THEN "reserved" ELSE "released"
     IN /\ stock' = [p \in Products |-> IF p \in Written(t)
                                        THEN tx[t].draft[p] ELSE stock[p]]
        /\ ledger' = [ledger EXCEPT ![o] = Row(final, tx[t].row.items)]
        /\ supplied' = [p \in Products |->
                          IF ledger[o].status = "absent" /\ tx[t].kind = "release"
                             /\ p \in Written(t)
                          THEN supplied[p] + Quantity(t, p) ELSE supplied[p]]
  /\ Unlock(t)
  /\ UNCHANGED <<catalogue, removed>>

----------------------------------------------------------------------------
\* Statements of an administrator, each a transaction of its own that waits
\* for the row lock.
Create(p, n) ==
  /\ CreateProduct(p, n)
  /\ UNCHANGED <<rowLock, productLock, tx>>

Update(p, n) ==
  /\ ProductFree(p)
  /\ SetStock(p, n)
  /\ UNCHANGED <<rowLock, productLock, tx>>

Remove(p) ==
  /\ ProductFree(p)
  /\ RemoveProduct(p)
  /\ UNCHANGED <<rowLock, productLock, tx>>

Statement(t) ==
  \/ LockRow(t) \/ RefuseReserve(t)
  \/ UpdateProduct(t) \/ SkipRemoved(t) \/ UpdateFails(t)
  \/ Commit(t)

Next ==
  \/ \E t \in Txs, o \in Orders :
       \/ \E items \in KnownBaskets : ReserveCall(t, o, items)
       \/ \E legacy \in KnownBaskets \cup {NoLegacy} :
            ReleaseCall(t, o, legacy)
  \/ \E t \in Txs : Statement(t) \/ Abort(t)
  \/ \E p \in Products, n \in 0..MaxInt :
       Create(p, n) \/ Update(p, n)
  \/ \E p \in Products : Remove(p)

Spec == Init /\ [][Next]_vars

\* PostgreSQL queues the waiters of a row lock, so a statement whose row is
\* free again and again is eventually run.
FairSpec == Spec /\ \A t \in Txs : SF_vars(Statement(t))

----------------------------------------------------------------------------
(* Properties *)

TxTypeOK ==
  /\ LedgerTypeOK
  /\ rowLock \in [Orders -> Txs \cup {NoTx}]
  /\ productLock \in [Products -> Txs \cup {NoTx}]
  /\ \A t \in Txs : tx[t] = Idle \/ tx[t].pc \in {"insert", "update"}

\* The transactions implement the atomic calls: no interleaving, rollback or
\* administrator's statement makes a reserve or a release take effect partly,
\* twice, or on stock that somebody else changed in between.
TransactionsAreAtomic == LedgerSpec

WaitsFor(t, u) ==
  \/ tx[t].pc = "insert" /\ rowLock[tx[t].order] = u
  \/ /\ tx[t].pc = "update"
     /\ tx[t].todo # {}
     /\ productLock[NextProduct(t)] = u

\* No deadlock between calls: reserves and releases lock their reservation
\* row first and then product rows in one global order, so that no set of
\* transactions waits on itself.
NoCircularWait ==
  \A S \in (SUBSET Txs) \ {{}} :
    \E t \in S : \A u \in S : ~ WaitsFor(t, u)

\* Every call ends, however the others interleave with it.
CallsEnd == \A t \in Txs : tx[t] # Idle ~> tx[t] = Idle

============================================================================
