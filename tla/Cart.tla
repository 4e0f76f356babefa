-------------------------------- MODULE Cart --------------------------------
(***************************************************************************)
(* The cart of one user (apps/cart/src/cart.service.ts) and its part in    *)
(* ordering: create of Orders reads the cart, and order.created, a Kafka   *)
(* event, has the Cart service clear it. Carts of other users are other    *)
(* rows.                                                                   *)
(*                                                                         *)
(* A cart is a function from products to quantities, 0 for a product that  *)
(* is not in it; names, prices and the totals recomputed from them on      *)
(* every write are left out. The statements of mutateCart are steps of     *)
(* their own, and a request may fail or its process die at each of them.   *)
(***************************************************************************)
EXTENDS Naturals

CONSTANTS
  Products,
  MaxStock,     \* bound of a product's stock
  Stocks,       \* the stock values a product takes
  Requests,     \* requests and events the service works on at the same time
  Orders,
  None

Quantities == 0..MaxStock
Carts == [Products -> Quantities]

ASSUME CartAssumption ==
  /\ MaxStock \in Nat
  /\ Stocks \subseteq Quantities
  /\ None \notin Carts \cup Products \cup Orders \cup Requests

VARIABLES
  shown,        \* every stock value a product had: FIND_ONE, answered from
                \* Redis, may still show an old one
  row,          \* the row of the carts table; None before the first write
  holder,       \* the transaction that inserted or locked the row
  pc, job,
  order,        \* what became of the orders made from this cart
  topic,        \* the order.created event of every order
  allowed       \* history: for every order, what it leaves in the cart: what
                \* it took until its event clears that, and what is put in

control == <<pc, job>>
ordering == <<order, topic, allowed>>
vars == <<shown, row, holder, control, ordering>>

Empty == [p \in Products |-> 0]
Items == IF row = None THEN Empty ELSE row

NoJob == [task |-> "none", product |-> None, quantity |-> 0, stock |-> 0,
          copy |-> Empty, order |-> None]

Goto(r, label) == pc' = [pc EXCEPT ![r] = label]
End(r) == Goto(r, "idle") /\ job' = [job EXCEPT ![r] = NoJob]
Release(r) == holder' = IF holder = r THEN None ELSE holder

----------------------------------------------------------------------------
Init ==
  /\ shown = [p \in Products |-> {}]
  /\ row = None
  /\ holder = None
  /\ pc = [r \in Requests |-> "idle"]
  /\ job = [r \in Requests |-> NoJob]
  /\ order = [o \in Orders |-> "new"]
  /\ topic = [o \in Orders |-> "none"]
  /\ allowed = [o \in Orders |-> Empty]

Begin(r, j, label) ==
  /\ pc[r] = "idle"
  /\ job' = [job EXCEPT ![r] = j]
  /\ Goto(r, label)
  /\ UNCHANGED <<shown, row, holder, order, allowed>>

Job(task, p, n) == [NoJob EXCEPT !.task = task, !.product = p, !.quantity = n]

AddItem(r, p, n) == Begin(r, Job("add", p, n), "fetch") /\ UNCHANGED topic
\* Quantity 0 removes the item, and then the product is not looked up.
UpdateItem(r, p, n) ==
  Begin(r, Job("set", p, n), IF n = 0 THEN "lock" ELSE "fetch") /\ UNCHANGED topic
RemoveItem(r, p) == Begin(r, Job("remove", p, 0), "lock") /\ UNCHANGED topic
Clear(r) == Begin(r, Job("clear", None, 0), "insert") /\ UNCHANGED topic

\* fetchProduct runs before the transaction: what it shows is not locked.
FetchProduct(r) ==
  /\ pc[r] = "fetch"
  /\ \E n \in shown[job[r].product] : job' = [job EXCEPT ![r].stock = n]
  /\ Goto(r, IF job[r].task = "add" THEN "insert" ELSE "lock")
  /\ UNCHANGED <<shown, row, holder, ordering>>

\* Whatever the failure, the answer is 'not found'.
FetchFails(r) ==
  /\ pc[r] = "fetch"
  /\ End(r)
  /\ UNCHANGED <<shown, row, holder, ordering>>

----------------------------------------------------------------------------
(* mutateCart *)

\* The insert-or-ignore of add and clear: it waits for a transaction that
\* inserted the key and has not ended, and ignores a row that is there.
InsertRow(r) ==
  /\ pc[r] = "insert"
  /\ row = None => holder = None
  /\ holder' = IF row = None THEN r ELSE holder
  /\ Goto(r, "lock")
  /\ UNCHANGED <<shown, row, job, ordering>>

\* SELECT ... FOR UPDATE waits for the transaction that has the row.
MayLockAtOnce(r) == TRUE
MayLock(r) == holder \in {None, r}

LockRow(r) ==
  /\ pc[r] = "lock"
  /\ row # None \/ holder = r
  /\ MayLock(r)
  /\ holder' = r
  /\ job' = [job EXCEPT ![r].copy = Items]
  /\ Goto(r, "save")
  /\ UNCHANGED <<shown, row, ordering>>

\* updateItem and removeItem of a cart that has no row: 'Cart is empty'.
NoRow(r) ==
  /\ pc[r] = "lock"
  /\ row = None /\ holder # r
  /\ End(r)
  /\ UNCHANGED <<shown, row, holder, ordering>>

\* What the callbacks check and make of the row that was read.
Wanted(j) == j.quantity + IF j.task = "add" THEN j.copy[j.product] ELSE 0
AcceptsIncrement(j) ==
  /\ j.task \in {"add", "set"} => j.stock >= j.quantity
  /\ j.task = "set" => j.copy[j.product] > 0
Accepts(j) ==
  /\ j.task \in {"add", "set"} => j.stock >= Wanted(j)
  /\ j.task = "set" => j.copy[j.product] > 0
After(j) ==
  IF j.task = "clear" THEN Empty ELSE [j.copy EXCEPT ![j.product] = Wanted(j)]

\* What is saved changes what the orders leave in the cart.
PutIn(c, j) ==
  IF j.task \in {"add", "set"}
  THEN [c EXCEPT ![j.product] = IF @ + j.quantity > MaxStock THEN MaxStock
                                ELSE @ + j.quantity]
  ELSE c
Leaves(o, j) ==
  IF j.order = o THEN Empty
  ELSE IF order[o] = "new" THEN Empty
  ELSE PutIn(allowed[o], j)

\* COMMIT, and only then cart.updated (EventStreams follows it from there).
Save(r) ==
  /\ pc[r] = "save"
  /\ Accepts(job[r])
  /\ row' = After(job[r])
  /\ Release(r)
  /\ End(r)
  /\ allowed' = [o \in Orders |-> Leaves(o, job[r])]
  /\ UNCHANGED <<shown, order, topic>>

\* A callback that throws ends the transaction.
AfterRefusalLocked(r) == UNCHANGED holder
AfterRefusal(r) == Release(r)
Refuse(r) ==
  /\ pc[r] = "save"
  /\ ~ Accepts(job[r])
  /\ AfterRefusal(r)
  /\ End(r)
  /\ UNCHANGED <<shown, row, ordering>>

\* Any error before COMMIT, or the end of the process.
Fail(r) ==
  /\ pc[r] \notin {"idle", "fetch"}
  /\ Release(r)
  /\ End(r)
  /\ UNCHANGED <<shown, row, ordering>>

----------------------------------------------------------------------------
(* Orders and the event *)

\* create reads the cart; an empty one ends the request. OrderCreation has
\* the steps between reading the cart and the order row.
ReadCart(o) ==
  /\ order[o] = "new"
  /\ Items # Empty
  /\ order' = [order EXCEPT ![o] = "reading"]
  /\ allowed' = [allowed EXCEPT ![o] = Items]
  /\ UNCHANGED <<shown, row, holder, control, topic>>

\* A create that failed leaves nothing behind: o may stand for another one.
CreateReturns(o) ==
  /\ order[o] = "reading"
  /\ \/ order' = [order EXCEPT ![o] = "placed"] /\ UNCHANGED allowed
     \/ /\ order' = [order EXCEPT ![o] = "new"]
        /\ allowed' = [allowed EXCEPT ![o] = Empty]
  /\ UNCHANGED <<shown, row, holder, control, topic>>

\* The handler publishes once, after create returned. It never does when the
\* process dies first, and nothing is sent when Kafka refuses the event.
PublishCreated(o) ==
  /\ order[o] = "placed"
  /\ topic[o] = "none"
  /\ topic' = [topic EXCEPT ![o] = "sent"]
  /\ UNCHANGED <<shown, row, holder, control, order, allowed>>

\* order.created is consumed; a consumer that dies gets it again.
OnOrderCreated(r, o) ==
  /\ topic[o] = "sent"
  /\ Begin(r, [Job("clear", None, 0) EXCEPT !.order = o], "insert")
  /\ topic' = topic \/ topic' = [topic EXCEPT ![o] = "consumed"]

StockChanges(p, n) ==
  /\ n \notin shown[p]
  /\ shown' = [shown EXCEPT ![p] = @ \cup {n}]
  /\ UNCHANGED <<row, holder, control, ordering>>

Fetch(r) == FetchProduct(r) \/ FetchFails(r)
Mutate(r) == InsertRow(r) \/ LockRow(r) \/ NoRow(r) \/ Save(r) \/ Refuse(r)

Next ==
  \/ \E r \in Requests, p \in Products, n \in Quantities :
       (n > 0 /\ AddItem(r, p, n)) \/ UpdateItem(r, p, n)
  \/ \E r \in Requests, p \in Products : RemoveItem(r, p)
  \/ \E r \in Requests : Clear(r) \/ Fetch(r) \/ Mutate(r) \/ Fail(r)
  \/ \E o \in Orders : ReadCart(o) \/ CreateReturns(o) \/ PublishCreated(o)
  \/ \E r \in Requests, o \in Orders : OnOrderCreated(r, o)
  \/ \E p \in Products, n \in Stocks : StockChanges(p, n)

Spec == Init /\ [][Next]_vars

\* PostgreSQL queues those who wait for a row, and statements end; a call to
\* Products is answered or fails.
FairSpec ==
  /\ Spec
  /\ \A r \in Requests : SF_vars(Fetch(r) \/ Mutate(r))

----------------------------------------------------------------------------
(* Properties *)

Labels == {"idle", "fetch", "insert", "lock", "save"}

CartTypeOK ==
  /\ shown \in [Products -> SUBSET Quantities]
  /\ row \in Carts \cup {None}
  /\ holder \in Requests \cup {None}
  /\ pc \in [Requests -> Labels]
  /\ job \in [Requests -> [task : {"none", "add", "set", "remove", "clear"},
                           product : Products \cup {None},
                           quantity : Quantities, stock : Quantities,
                           copy : Carts, order : Orders \cup {None}]]
  /\ order \in [Orders -> {"new", "reading", "placed"}]
  /\ topic \in [Orders -> {"none", "sent", "consumed"}]
  /\ allowed \in [Orders -> Carts]

\* "Concurrent first writes must lock the same row too": every change of the
\* cart applies one request to the cart as it is at that moment, so neither
\* concurrent first writes nor any later ones lose an item.
ChangesAreSerial ==
  [][row' # row =>
       \E r \in Requests :
         pc[r] = "save" /\ row' = After([job[r] EXCEPT !.copy = Items])]_vars

\* The check reads a stock that may be old and a row another request may have
\* changed before it was locked; still the cart never names a quantity of a
\* product that was not on its shelf at some time.
QuantitiesWereOnTheShelf ==
  \A p \in Products : Items[p] > 0 => \E n \in shown[p] : n >= Items[p]

\* What order.created may clear, late, repeated, lost or overtaken by another
\* order: until an order's event is handled the cart holds no more than the
\* order took and the user put in later, and from then on only what was put
\* in after the clear. So the event discards nothing the order did not take
\* but later additions, no concurrent change brings ordered items back, and
\* only an order that read the cart before the clear takes the items again.
OrderedItemsLeave ==
  \A o \in Orders : order[o] # "new" =>
    \A p \in Products : Items[p] <= allowed[o][p]

\* No request waits for the cart for ever, whatever the others do.
RequestsEnd == \A r \in Requests : pc[r] # "idle" ~> pc[r] = "idle"
=============================================================================
