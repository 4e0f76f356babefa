---------------------------- MODULE StockLedger ----------------------------
(***************************************************************************)
(* What the Products service promises about stock: every reserve or        *)
(* release call is one atomic step on the product rows and on the          *)
(* stock_reservations ledger (apps/products/src/products.service.ts).      *)
(* StockTx shows the PostgreSQL transactions behind the calls implement    *)
(* this; OrderCreation builds the ordering saga on top of it.              *)
(*                                                                         *)
(* An item list is a function from products to quantities, 0 meaning that  *)
(* the product is not listed: stock.dto.ts refuses a product listed twice, *)
(* and reserveStock sorts both lists before it compares them.              *)
(*                                                                         *)
(* A definition named after the one that follows it, with a suffix, such   *)
(* as AvailableOffByOne, is a plausible mistake in it. No action uses it:  *)
(* it is there to see that the properties notice the difference. The other *)
(* modules do the same.                                                    *)
(***************************************************************************)
EXTENDS Integers, FiniteSets, FiniteSetsExt

CONSTANTS
  Products,     \* product ids
  Orders,       \* reservation ids; an order's id is its reservation's id
  MaxInt,       \* largest value of a PostgreSQL integer column
  Baskets,      \* the item lists orders are made of
  NoLegacy      \* a release call without the optional legacyItems

ItemLists == [Products -> 0..MaxInt]

ASSUME LedgerAssumption ==
  /\ MaxInt \in Nat
  /\ Baskets \subseteq ItemLists
  /\ NoLegacy \notin ItemLists
  /\ IsFiniteSet(Orders)

VARIABLES
  stock,        \* product.stock; 0 for a product without a row
  catalogue,    \* products that have a row
  removed,      \* products whose row was deleted: their random ids never return
  ledger,       \* stock_reservations: status and items of every reservation
  supplied      \* history: units administrators and legacy orders brought in

ledgerVars == <<stock, catalogue, removed, ledger, supplied>>

NoItems == [p \in Products |-> 0]
Row(s, items) == [status |-> s, items |-> items]
Rows == [status : {"absent", "reserved", "released"}, items : ItemLists]
AbsentRow == Row("absent", NoItems)
Listed(items) == {p \in Products : items[p] > 0}

----------------------------------------------------------------------------
LedgerInit ==
  /\ catalogue \in SUBSET Products
  /\ stock \in {f \in [Products -> 0..MaxInt] :
                  \A p \in Products \ catalogue : f[p] = 0}
  /\ removed = {}
  /\ ledger = [o \in Orders |-> AbsentRow]
  /\ supplied = stock

\* The conditional UPDATE of every item: the row exists and has the units.
AvailableOffByOne(items) ==
  \A p \in Listed(items) : p \in catalogue /\ stock[p] + 1 >= items[p]
Available(items) ==
  \A p \in Listed(items) : p \in catalogue /\ stock[p] >= items[p]

\* The ledger row decides what a reserve call does: refuse it, repeat the
\* earlier success, or take the units.
MayReserveAnew(o, items) == Available(items) /\ ledger[o].status # "reserved"
MayReserve(o, items) == ledger[o].status = "absent" /\ Available(items)
AlreadyReserved(o, items) == ledger[o] = Row("reserved", items)

\* reserveStock that answers success.
Reserve(o, items) ==
  \/ /\ MayReserve(o, items)
     /\ stock' = [p \in Products |-> stock[p] - items[p]]
     /\ ledger' = [ledger EXCEPT ![o] = Row("reserved", items)]
     /\ UNCHANGED <<catalogue, removed, supplied>>
  \/ AlreadyReserved(o, items) /\ UNCHANGED ledgerVars

\* reserveStock that answers with an error: its transaction leaves no trace.
ReserveRefused(o, items) ==
  ~ MayReserve(o, items) /\ ~ AlreadyReserved(o, items)

\* The ledger row a release call works on once its insert-or-ignore ran: a
\* tombstone, or for a legacy order the row it never had.
RowToRelease(o, legacy) ==
  IF ledger[o].status # "absent" THEN ledger[o]
  ELSE IF legacy = NoLegacy THEN Row("released", NoItems)
  ELSE Row("reserved", legacy)

\* The units the increments of a release put back.
UnitsBackAlways(row) == row.items
UnitsBack(row) == IF row.status = "reserved" THEN row.items ELSE NoItems

\* What the call makes of the row.
RowAfterReleaseNoTombstone(o, row) ==
  IF ledger[o].status = "absent" THEN ledger[o] ELSE Row("released", row.items)
RowAfterRelease(o, row) == Row("released", row.items)

\* releaseStock that answers success. An increment of a deleted product
\* affects no row; one beyond the column's range fails the transaction.
Release(o, legacy) ==
  LET row == RowToRelease(o, legacy)
      back == UnitsBack(row)
  IN  /\ \A p \in catalogue : stock[p] + back[p] <= MaxInt
      /\ stock' = [p \in Products |->
                     IF p \in catalogue THEN stock[p] + back[p] ELSE stock[p]]
      /\ ledger' = [ledger EXCEPT ![o] = RowAfterRelease(o, row)]
      /\ supplied' = [p \in Products |->
                        IF p \in catalogue /\ ledger[o].status = "absent"
                        THEN supplied[p] + back[p] ELSE supplied[p]]
      /\ UNCHANGED <<catalogue, removed>>

----------------------------------------------------------------------------
\* create by an administrator.
CreateProduct(p, n) ==
  /\ p \notin catalogue \cup removed
  /\ catalogue' = catalogue \cup {p}
  /\ stock' = [stock EXCEPT ![p] = n]
  /\ supplied' = [supplied EXCEPT ![p] = n]
  /\ UNCHANGED <<removed, ledger>>

\* update writes stock as an absolute number, whatever is reserved.
SetStock(p, n) ==
  /\ p \in catalogue
  /\ stock' = [stock EXCEPT ![p] = n]
  /\ supplied' = [supplied EXCEPT ![p] = supplied[p] + n - stock[p]]
  /\ UNCHANGED <<catalogue, removed, ledger>>

\* remove: the row goes, and with it the units still on the shelf.
RemoveProduct(p) ==
  /\ p \in catalogue
  /\ catalogue' = catalogue \ {p}
  /\ removed' = removed \cup {p}
  /\ stock' = [stock EXCEPT ![p] = 0]
  /\ supplied' = [supplied EXCEPT ![p] = supplied[p] - stock[p]]
  /\ UNCHANGED ledger

\* Callers list products they were given: ones that exist or once did.
KnownBaskets == {items \in Baskets : Listed(items) \subseteq catalogue \cup removed}

LedgerNext ==
  \/ \E o \in Orders, items \in KnownBaskets : Reserve(o, items)
  \/ \E o \in Orders, legacy \in KnownBaskets \cup {NoLegacy} :
       Release(o, legacy)
  \/ \E p \in Products, n \in 0..MaxInt : CreateProduct(p, n)
  \/ \E p \in Products, n \in 0..MaxInt : SetStock(p, n)
  \/ \E p \in Products : RemoveProduct(p)

LedgerSpec == LedgerInit /\ [][LedgerNext]_ledgerVars

----------------------------------------------------------------------------
(* Properties *)

\* Column types, and in particular the CHECK (stock >= 0) constraint of the
\* AddStockReservations migration: no sequence of calls oversells a product.
LedgerTypeOK ==
  /\ stock \in [Products -> 0..MaxInt]
  /\ catalogue \subseteq Products
  /\ removed \subseteq Products
  /\ ledger \in [Orders -> Rows]
  /\ supplied \in [Products -> Int]

\* Units of p that the reservations of a table hold.
HeldIn(table, p) ==
  MapThenSumSet(LAMBDA o : IF table[o].status = "reserved"
                           THEN table[o].items[p] ELSE 0, Orders)
Held(p) == HeldIn(ledger, p)

\* Conservation: whatever reserves and releases ran, repeated, late or for
\* legacy orders, every unit supplied for a product that is still sold is
\* either on the shelf or held by exactly one live reservation. A double
\* return, a partial reserve or a lost item breaks the sum.
UnitsConserved == \A p \in catalogue : stock[p] + Held(p) = supplied[p]

\* A released reservation is final: no later or late reserve revives it and
\* its items never change, which is what makes a tombstone work.
ReleasedIsFinal ==
  [][\A o \in Orders :
       ledger[o].status = "released" => ledger'[o] = ledger[o]]_ledgerVars

============================================================================
