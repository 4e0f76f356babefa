---------------------------- MODULE Cart_proofs ----------------------------
(***************************************************************************)
(* The safety properties of Cart for any catalogue, any number of requests *)
(* at the same time and any number of orders. The invariant that carries   *)
(* them says that a request about to save holds the row, that what it read *)
(* is therefore still the cart, and that the stock it compares with was    *)
(* the product's at some time. What it saves is then its own change of the *)
(* cart, and of what every order leaves in it.                             *)
(***************************************************************************)
EXTENDS Cart, TLAPS

\* A request names a product when its task needs one.
NamesProduct(j) == j.task \in {"add", "set"} => j.product \in Products

\* An item that is added has a quantity, one that is removed has none, and
\* all an event does is clear.
FitsTask(j) ==
  /\ j.order # None => j.task = "clear"
  /\ j.task = "add" => j.quantity > 0
  /\ j.task = "remove" => j.quantity = 0

\* Past the fetch, the stock of the job is one the product had.
SawStock(j) ==
  j.task \in {"add", "set"} /\ j.quantity > 0 => j.stock \in shown[j.product]

RequestOK(r) ==
  /\ NamesProduct(job[r]) /\ FitsTask(job[r])
  /\ pc[r] # "idle" => job[r].task # "none"
  /\ pc[r] = "fetch" => job[r].task \in {"add", "set"}
  /\ pc[r] \in {"insert", "lock", "save"} => SawStock(job[r])
  /\ pc[r] = "save" => holder = r /\ job[r].copy = Items

RequestsOK == \A r \in Requests : RequestOK(r)

JobSet == [task : {"none", "add", "set", "remove", "clear"},
           product : Products \cup {None},
           quantity : Quantities, stock : Quantities,
           copy : Carts, order : Orders \cup {None}]

CartInv ==
  /\ CartTypeOK /\ RequestsOK
  /\ QuantitiesWereOnTheShelf /\ OrderedItemsLeave

----------------------------------------------------------------------------
\* The empty cart and a job that asks for nothing have the right types.
LEMMA EmptyTypes ==
  /\ Empty \in Carts
  /\ NoJob \in JobSet
<1>1. Empty \in Carts
  BY CartAssumption DEF Empty, Carts, Quantities
<1> QED
  BY <1>1, CartAssumption DEF NoJob, JobSet, Quantities

\* The cart is always a function from products to quantities.
LEMMA ItemsType == CartTypeOK => Items \in Carts
  BY EmptyTypes DEF CartTypeOK, Items

LEMMA InitCart == Init => CartInv
<1> SUFFICES ASSUME Init PROVE CartInv
  OBVIOUS
<1>1. CartTypeOK
  BY EmptyTypes DEF Init, CartTypeOK, JobSet, Labels
<1>2. RequestsOK
  BY DEF Init, RequestsOK, RequestOK, NamesProduct, FitsTask, NoJob
<1>3. QuantitiesWereOnTheShelf
  BY DEF Init, QuantitiesWereOnTheShelf, Items, Empty
<1> QED
  BY <1>1, <1>2, <1>3 DEF Init, CartInv, OrderedItemsLeave

----------------------------------------------------------------------------
(* Saving *)

\* What a request saves is a cart, and every quantity in it was on the shelf.
LEMMA SavedCart ==
  ASSUME CartInv, NEW r \in Requests, pc[r] = "save", Accepts(job[r])
  PROVE  /\ After(job[r]) \in Carts
         /\ \A p \in Products :
              After(job[r])[p] > 0 => \E n \in shown[p] : n >= After(job[r])[p]
<1> DEFINE j == job[r]
           new == After(j)
<1>1. /\ j.copy = Items /\ Items \in Carts
      /\ NamesProduct(j) /\ FitsTask(j) /\ SawStock(j)
      /\ j.task \in {"add", "set", "remove", "clear"}
      /\ j.quantity \in Quantities /\ j.stock \in Quantities
  BY ItemsType DEF CartInv, RequestsOK, RequestOK, CartTypeOK
<1>2. \A p \in Products :
        Items[p] > 0 => \E n \in shown[p] : n >= Items[p]
  BY DEF CartInv, QuantitiesWereOnTheShelf
<1> HIDE DEF j
<1>3. CASE j.task = "clear"
  <2>1. new = Empty
    BY <1>3 DEF After
  <2>2. \A p \in Products : new[p] = 0
    BY <2>1 DEF Empty
  <2>3. ASSUME NEW p \in Products, new[p] > 0 PROVE FALSE
    <3>1. new[p] = 0
      BY <2>2
    <3> QED
      BY <2>3, <3>1
  <2> QED
    BY <2>1, <2>3, EmptyTypes DEF j
<1>4. CASE j.task = "remove"
  <2>1. Wanted(j) = 0 /\ 0 \in Quantities
    BY <1>1, <1>4, CartAssumption DEF Wanted, FitsTask, Quantities
  <2>2. new = [Items EXCEPT ![j.product] = 0]
    BY <1>1, <1>4, <2>1 DEF After
  <2>3. new \in Carts /\ \A p \in Products : new[p] = 0 \/ new[p] = Items[p]
    BY <1>1, <2>1, <2>2 DEF Carts
  <2>4. ASSUME NEW p \in Products, new[p] > 0
        PROVE  \E n \in shown[p] : n >= new[p]
    <3>1. new[p] = Items[p]
      BY <2>3, <2>4
    <3> QED
      BY <3>1, <1>2, <2>4
  <2> QED
    BY <2>3, <2>4 DEF j
<1>5. CASE j.task \in {"add", "set"}
  <2>1. j.product \in Products /\ Items[j.product] \in Quantities
    BY <1>1, <1>5 DEF NamesProduct, Carts
  <2>2. Wanted(j) \in Quantities /\ Wanted(j) <= j.stock
    BY <1>1, <1>5, <2>1, CartAssumption DEF Wanted, Quantities, Accepts, j
  <2>3. new = [Items EXCEPT ![j.product] = Wanted(j)]
    BY <1>1, <1>5 DEF After
  <2>4. new \in Carts
    BY <1>1, <2>2, <2>3 DEF Carts
  <2>5. ASSUME NEW p \in Products, new[p] > 0
        PROVE  \E n \in shown[p] : n >= new[p]
    <3>1. CASE p = j.product
      <4>1. new[p] = Wanted(j)
        BY <1>1, <2>3, <3>1 DEF Carts
      <4>2. j.quantity > 0
        BY <1>1, <1>5, <2>5, <4>1 DEF FitsTask, Wanted, Quantities
      <4>3. j.stock \in shown[p]
        BY <1>1, <1>5, <3>1, <4>2 DEF SawStock
      <4> QED
        BY <1>1, <2>2, <4>1, <4>3, CartAssumption DEF Quantities
    <3>2. CASE p # j.product
      <4>1. new[p] = Items[p]
        BY <1>1, <2>3, <3>2 DEF Carts
      <4> QED
        BY <4>1, <1>2, <2>5
    <3> QED
      BY <3>1, <3>2
  <2> QED
    BY <2>4, <2>5 DEF j
<1> QED
  BY <1>1, <1>3, <1>4, <1>5

\* An order leaves in the cart what it left before and what is put in now.
LEMMA PutInFacts ==
  ASSUME NEW c \in Carts, NEW j \in JobSet, NamesProduct(j)
  PROVE  /\ PutIn(c, j) \in Carts
         /\ \A p \in Products : PutIn(c, j)[p] >= c[p]
         /\ \A n \in Nat :
              j.task \in {"add", "set"} /\ n <= MaxStock
              /\ n <= c[j.product] + j.quantity
                => n <= PutIn(c, j)[j.product]
<1>1. j.quantity \in 0..MaxStock /\ MaxStock \in Nat
  BY CartAssumption DEF JobSet, Quantities
<1>2. CASE j.task \in {"add", "set"}
  <2> DEFINE n == IF c[j.product] + j.quantity > MaxStock THEN MaxStock
                  ELSE c[j.product] + j.quantity
  <2>1. j.product \in Products /\ c[j.product] \in 0..MaxStock
    BY <1>2 DEF NamesProduct, Carts, Quantities
  <2>2. PutIn(c, j) = [c EXCEPT ![j.product] = n]
    BY <1>2 DEF PutIn
  <2>3. n \in 0..MaxStock /\ n >= c[j.product]
    BY <1>1, <2>1
  <2>4. \A m \in Nat : m <= MaxStock /\ m <= c[j.product] + j.quantity => m <= n
    BY <1>1, <2>1
  <2> HIDE DEF n
  <2>5. PutIn(c, j) \in Carts /\ PutIn(c, j)[j.product] = n
    BY <2>1, <2>2, <2>3 DEF Carts, Quantities
  <2>6. \A p \in Products \ {j.product} : PutIn(c, j)[p] = c[p]
    BY <2>2 DEF Carts
  <2>7. \A p \in Products : c[p] \in Nat
    BY DEF Carts, Quantities
  <2>8. ASSUME NEW p \in Products PROVE PutIn(c, j)[p] >= c[p]
    <3>1. CASE p = j.product
      BY <2>3, <2>5, <3>1
    <3>2. CASE p # j.product
      BY <2>6, <2>7, <3>2
    <3> QED
      BY <3>1, <3>2
  <2> QED
    BY <2>4, <2>5, <2>8
<1>3. CASE j.task \notin {"add", "set"}
  <2>1. PutIn(c, j) = c
    BY <1>3 DEF PutIn
  <2>2. \A p \in Products : c[p] \in Nat
    BY DEF Carts, Quantities
  <2> QED
    BY <1>3, <2>1, <2>2
<1> QED
  BY <1>2, <1>3

\* What is saved fits what every order leaves in the cart: an event of the
\* order leaves nothing, and every other request at most puts its items in.
LEMMA SavedLeaves ==
  ASSUME CartInv, NEW r \in Requests, pc[r] = "save", Accepts(job[r]),
         NEW o \in Orders
  PROVE  /\ Leaves(o, job[r]) \in Carts
         /\ order[o] # "new" =>
              \A p \in Products : After(job[r])[p] <= Leaves(o, job[r])[p]
<1> DEFINE j == job[r]
           c == allowed[o]
<1>1. /\ j \in JobSet /\ j.copy = Items /\ Items \in Carts /\ c \in Carts
      /\ NamesProduct(j) /\ FitsTask(j) /\ After(j) \in Carts
      /\ j.task \in {"add", "set", "remove", "clear"}
  BY ItemsType, SavedCart
     DEF CartInv, RequestsOK, RequestOK, CartTypeOK, JobSet
<1>2. order[o] # "new" => \A p \in Products : Items[p] <= c[p]
  BY DEF CartInv, OrderedItemsLeave
<1>3. Leaves(o, j) = IF j.order = o \/ order[o] = "new" THEN Empty
                     ELSE PutIn(c, j)
  BY DEF Leaves
<1> HIDE DEF j, c
<1>4. Leaves(o, j) \in Carts
  BY <1>1, <1>3, PutInFacts, EmptyTypes
<1>5. ASSUME order[o] # "new", NEW p \in Products
      PROVE  After(j)[p] <= Leaves(o, j)[p]
  <2>1. /\ Items[p] \in Nat /\ c[p] \in Nat /\ Leaves(o, j)[p] \in Nat
        /\ After(j)[p] \in 0..MaxStock /\ Items[p] <= c[p]
    BY <1>1, <1>2, <1>4, <1>5 DEF Carts, Quantities
  <2>2. CASE j.task = "clear"
    <3>1. After(j)[p] = 0
      BY <2>2 DEF After, Empty
    <3> QED
      BY <2>1, <3>1
  <2>3. CASE j.task # "clear"
    <3>1. j.order = None /\ Leaves(o, j) = PutIn(c, j)
      BY <1>1, <1>3, <1>5, <2>3, CartAssumption DEF FitsTask
    <3>2. PutIn(c, j)[p] >= c[p]
      BY <1>1, PutInFacts
    <3>3. After(j) = [Items EXCEPT ![j.product] = Wanted(j)]
      BY <1>1, <2>3 DEF After
    <3>4. CASE p # j.product
      <4>1. After(j)[p] = Items[p]
        BY <1>1, <3>3, <3>4 DEF Carts
      <4> QED
        BY <2>1, <3>1, <3>2, <4>1
    <3>5. CASE p = j.product
      <4>1. After(j)[p] = Wanted(j)
        BY <1>1, <3>3, <3>5 DEF Carts
      <4>2. j.quantity \in Nat
        BY <1>1, CartAssumption DEF JobSet, Quantities
      <4>3. CASE j.task = "remove"
        <5>1. Wanted(j) = 0
          BY <1>1, <4>3 DEF Wanted, FitsTask
        <5> QED
          BY <2>1, <4>1, <5>1
      <4>4. CASE j.task \in {"add", "set"}
        <5>1. Wanted(j) <= c[p] + j.quantity
          BY <1>1, <2>1, <3>5, <4>2, <4>4 DEF Wanted
        <5>2. After(j)[p] \in Nat /\ After(j)[p] <= MaxStock
          BY <2>1, CartAssumption
        <5> QED
          BY <1>1, <3>1, <3>5, <4>1, <4>4, <5>1, <5>2, PutInFacts
      <4> QED
        BY <1>1, <2>3, <4>3, <4>4
    <3> QED
      BY <3>4, <3>5
  <2> QED
    BY <2>2, <2>3
<1> QED
  BY <1>4, <1>5 DEF j

----------------------------------------------------------------------------
(* The steps *)

\* A request or an event enters the service.
LEMMA BeginPreserves ==
  ASSUME CartInv, NEW r \in Requests, NEW j \in JobSet,
         NEW label \in {"fetch", "insert", "lock"}, Begin(r, j, label),
         NamesProduct(j), FitsTask(j), j.task # "none",
         IF label = "fetch" THEN j.task \in {"add", "set"} ELSE SawStock(j),
         topic' = topic
           \/ \E o \in Orders : topic[o] = "sent"
                                /\ topic' = [topic EXCEPT ![o] = "consumed"]
  PROVE  CartInv'
<1>1. /\ pc' = [pc EXCEPT ![r] = label] /\ job' = [job EXCEPT ![r] = j]
      /\ pc[r] = "idle" /\ UNCHANGED <<shown, row, holder, order, allowed>>
  BY DEF Begin, Goto
<1>2. CartTypeOK'
  BY <1>1 DEF CartInv, CartTypeOK, JobSet, Labels
<1>3. ASSUME NEW q \in Requests PROVE RequestOK(q)'
  <2>1. CASE q = r
    BY <1>1, <2>1 DEF CartInv, CartTypeOK, RequestOK, NamesProduct, FitsTask,
                      SawStock
  <2>2. CASE q # r
    BY <1>1, <2>2 DEF CartInv, CartTypeOK, RequestsOK, RequestOK, NamesProduct,
                      FitsTask, SawStock, Items
  <2> QED
    BY <2>1, <2>2
<1>5. OrderedItemsLeave'
  BY <1>1 DEF CartInv, OrderedItemsLeave, Items
<1>6. QuantitiesWereOnTheShelf'
  BY <1>1 DEF CartInv, QuantitiesWereOnTheShelf, Items
<1> QED
  BY <1>2, <1>3, <1>5, <1>6 DEF CartInv, RequestsOK

\* A request that is over leaves the row to the others.
LEMMA EndPreserves ==
  ASSUME CartInv, NEW r \in Requests, End(r),
         Release(r) \/ (UNCHANGED holder /\ pc[r] # "save"),
         UNCHANGED <<shown, row, ordering>>
  PROVE  CartInv'
<1>1. /\ pc' = [pc EXCEPT ![r] = "idle"] /\ job' = [job EXCEPT ![r] = NoJob]
      /\ UNCHANGED <<shown, row, order, topic, allowed>>
      /\ holder' = holder \/ (holder = r /\ holder' = None)
  BY DEF End, Goto, Release, ordering
<1>2. CartTypeOK'
  BY <1>1, EmptyTypes DEF CartInv, CartTypeOK, JobSet, Labels
<1>3. ASSUME NEW q \in Requests PROVE RequestOK(q)'
  <2>1. CASE q = r
    BY <1>1, <2>1 DEF CartInv, CartTypeOK, RequestOK, NamesProduct, FitsTask,
                      NoJob
  <2>2. CASE q # r
    <3>1. pc'[q] = pc[q] /\ job'[q] = job[q] /\ Items' = Items
      BY <1>1, <2>2 DEF CartInv, CartTypeOK, Items
    <3>2. pc[q] = "save" => holder' = q
      BY <1>1, <2>2 DEF CartInv, RequestsOK, RequestOK
    <3> QED
      BY <1>1, <3>1, <3>2 DEF CartInv, RequestsOK, RequestOK, NamesProduct,
                              FitsTask, SawStock
  <2> QED
    BY <2>1, <2>2
<1>4. OrderedItemsLeave'
  BY <1>1 DEF CartInv, OrderedItemsLeave, Items
<1> QED
  BY <1>1, <1>2, <1>3, <1>4
     DEF CartInv, RequestsOK, QuantitiesWereOnTheShelf, Items

\* What Products answered is a stock the product had.
LEMMA FetchPreserves ==
  ASSUME CartInv, NEW r \in Requests, FetchProduct(r)
  PROVE  CartInv'
<1>1. PICK n \in shown[job[r].product] :
        job' = [job EXCEPT ![r].stock = n]
  BY DEF FetchProduct
<1>2. /\ pc[r] = "fetch" /\ UNCHANGED <<shown, row, holder, order, topic, allowed>>
      /\ \E label \in {"insert", "lock"} : pc' = [pc EXCEPT ![r] = label]
  BY DEF FetchProduct, Goto, ordering
<1>3. /\ job[r] \in JobSet /\ NamesProduct(job[r]) /\ FitsTask(job[r])
      /\ job[r].task \in {"add", "set"}
  BY <1>2 DEF CartInv, CartTypeOK, JobSet, RequestsOK, RequestOK
<1>4. n \in Quantities
  BY <1>3 DEF CartInv, CartTypeOK, NamesProduct
<1>5. /\ job'[r] = [job[r] EXCEPT !.stock = n]
      /\ \A q \in Requests \ {r} : job'[q] = job[q] /\ pc'[q] = pc[q]
      /\ pc'[r] \in {"insert", "lock"}
  BY <1>1, <1>2 DEF CartInv, CartTypeOK
<1>6. CartTypeOK'
  <2>1. job'[r] \in JobSet
    BY <1>3, <1>4, <1>5 DEF JobSet
  <2>2. job' \in [Requests -> JobSet]
    BY <1>1, <1>5, <2>1 DEF CartInv, CartTypeOK, JobSet
  <2> QED
    BY <1>2, <2>2 DEF CartInv, CartTypeOK, JobSet, Labels
<1>7. ASSUME NEW q \in Requests PROVE RequestOK(q)'
  <2>1. CASE q = r
    BY <1>2, <1>3, <1>5, <2>1
       DEF RequestOK, NamesProduct, FitsTask, SawStock, JobSet
  <2>2. CASE q # r
    BY <1>2, <1>5, <2>2 DEF CartInv, RequestsOK, RequestOK, NamesProduct,
                            FitsTask, SawStock, Items
  <2> QED
    BY <2>1, <2>2
<1>8. OrderedItemsLeave'
  BY <1>2 DEF CartInv, OrderedItemsLeave, Items
<1> QED
  BY <1>2, <1>6, <1>7, <1>8
     DEF CartInv, RequestsOK, QuantitiesWereOnTheShelf, Items

\* The insert gives the key to one transaction, when nobody holds it.
LEMMA InsertPreserves ==
  ASSUME CartInv, NEW r \in Requests, InsertRow(r)
  PROVE  CartInv'
<1>1. /\ pc[r] = "insert" /\ pc' = [pc EXCEPT ![r] = "lock"]
      /\ UNCHANGED <<shown, row, job, order, topic, allowed>>
      /\ holder' = holder \/ (holder = None /\ holder' = r)
  BY DEF InsertRow, Goto, ordering
<1>2. CartTypeOK'
  BY <1>1 DEF CartInv, CartTypeOK, Labels
<1>3. ASSUME NEW q \in Requests PROVE RequestOK(q)'
  <2>1. CASE q = r
    BY <1>1, <2>1 DEF CartInv, CartTypeOK, RequestsOK, RequestOK, NamesProduct,
                      FitsTask, SawStock
  <2>2. CASE q # r
    <3>1. pc[q] = "save" => holder' = holder
      BY <1>1, CartAssumption DEF CartInv, RequestsOK, RequestOK
    <3> QED
      BY <1>1, <2>2, <3>1 DEF CartInv, CartTypeOK, RequestsOK, RequestOK,
                              NamesProduct, FitsTask, SawStock, Items
  <2> QED
    BY <2>1, <2>2
<1>4. OrderedItemsLeave'
  BY <1>1 DEF CartInv, OrderedItemsLeave, Items
<1> QED
  BY <1>1, <1>2, <1>3, <1>4
     DEF CartInv, RequestsOK, QuantitiesWereOnTheShelf, Items

\* Whoever gets the row reads the cart, and nobody else was about to save.
LEMMA LockPreserves ==
  ASSUME CartInv, NEW r \in Requests, LockRow(r)
  PROVE  CartInv'
<1>1. /\ pc[r] = "lock" /\ pc' = [pc EXCEPT ![r] = "save"]
      /\ job' = [job EXCEPT ![r].copy = Items]
      /\ UNCHANGED <<shown, row, order, topic, allowed>>
      /\ holder \in {None, r} /\ holder' = r
  BY DEF LockRow, MayLock, Goto, ordering
<1>2. job[r] \in JobSet /\ Items \in Carts
  BY ItemsType DEF CartInv, CartTypeOK, JobSet
<1>3. /\ job'[r] = [job[r] EXCEPT !.copy = Items]
      /\ pc'[r] = "save"
      /\ \A q \in Requests \ {r} : job'[q] = job[q] /\ pc'[q] = pc[q]
  BY <1>1 DEF CartInv, CartTypeOK
<1>4. CartTypeOK'
  <2>1. job'[r] \in JobSet
    BY <1>2, <1>3 DEF JobSet
  <2>2. job' \in [Requests -> JobSet]
    BY <1>1, <1>3, <2>1 DEF CartInv, CartTypeOK, JobSet
  <2> QED
    BY <1>1, <2>2 DEF CartInv, CartTypeOK, JobSet, Labels
<1>5. ASSUME NEW q \in Requests PROVE RequestOK(q)'
  <2>1. CASE q = r
    <3>1. /\ NamesProduct(job[r]) /\ FitsTask(job[r]) /\ SawStock(job[r])
          /\ job[r].task # "none"
      BY <1>1 DEF CartInv, RequestsOK, RequestOK
    <3> QED
      BY <1>1, <1>2, <1>3, <2>1, <3>1
         DEF RequestOK, NamesProduct, FitsTask, SawStock, JobSet, Items
  <2>2. CASE q # r
    <3>1. pc[q] # "save"
      BY <1>1, <2>2, CartAssumption DEF CartInv, RequestsOK, RequestOK
    <3> QED
      BY <1>1, <1>3, <2>2, <3>1 DEF CartInv, RequestsOK, RequestOK,
                                    NamesProduct, FitsTask, SawStock
  <2> QED
    BY <2>1, <2>2
<1>6. OrderedItemsLeave'
  BY <1>1 DEF CartInv, OrderedItemsLeave, Items
<1> QED
  BY <1>1, <1>4, <1>5, <1>6
     DEF CartInv, RequestsOK, QuantitiesWereOnTheShelf, Items

\* COMMIT: the cart becomes what SavedCart says, and nobody else held it.
LEMMA SavePreserves ==
  ASSUME CartInv, NEW r \in Requests, Save(r)
  PROVE  CartInv'
<1> DEFINE new == After(job[r])
<1>1. /\ pc[r] = "save" /\ Accepts(job[r]) /\ row' = new
      /\ pc' = [pc EXCEPT ![r] = "idle"] /\ job' = [job EXCEPT ![r] = NoJob]
      /\ UNCHANGED <<shown, order, topic>>
      /\ allowed' = [o \in Orders |-> Leaves(o, job[r])]
      /\ holder' = IF holder = r THEN None ELSE holder
  BY DEF Save, End, Goto, Release, ordering
<1>2. /\ new \in Carts
      /\ \A p \in Products : new[p] > 0 => \E n \in shown[p] : n >= new[p]
  BY <1>1, SavedCart
<1> HIDE DEF new
<1>3. Items' = new
  BY <1>1, <1>2, CartAssumption DEF Items
<1>4. CartTypeOK'
  <2>1. allowed' \in [Orders -> Carts]
    BY <1>1, SavedLeaves
  <2> QED
    BY <1>1, <1>2, <2>1, EmptyTypes DEF CartInv, CartTypeOK, JobSet, Labels
<1>5. ASSUME NEW q \in Requests PROVE RequestOK(q)'
  <2>1. CASE q = r
    BY <1>1, <2>1 DEF CartInv, CartTypeOK, RequestOK, NamesProduct, FitsTask,
                      NoJob
  <2>2. CASE q # r
    <3>1. pc[q] # "save"
      BY <1>1, <2>2 DEF CartInv, RequestsOK, RequestOK
    <3>2. pc'[q] = pc[q] /\ job'[q] = job[q]
      BY <1>1, <2>2 DEF CartInv, CartTypeOK
    <3> QED
      BY <1>1, <3>1, <3>2 DEF CartInv, RequestsOK, RequestOK, NamesProduct,
                              FitsTask, SawStock
  <2> QED
    BY <2>1, <2>2
<1>6. OrderedItemsLeave'
  <2> SUFFICES ASSUME NEW o \in Orders, order[o] # "new", NEW p \in Products
               PROVE  new[p] <= allowed'[o][p]
    BY <1>1, <1>3 DEF OrderedItemsLeave
  <2>1. allowed'[o] = Leaves(o, job[r])
    BY <1>1
  <2>2. After(job[r])[p] <= Leaves(o, job[r])[p]
    BY <1>1, SavedLeaves
  <2> QED
    BY <2>1, <2>2 DEF new
<1>7. QuantitiesWereOnTheShelf'
  BY <1>1, <1>2, <1>3 DEF QuantitiesWereOnTheShelf
<1> QED
  BY <1>1, <1>4, <1>5, <1>6, <1>7 DEF CartInv, RequestsOK

\* More stock values were shown: nothing that was seen is forgotten.
LEMMA StockPreserves ==
  ASSUME CartInv, NEW p \in Products, NEW n \in Quantities, StockChanges(p, n)
  PROVE  CartInv'
<1>1. /\ shown' = [shown EXCEPT ![p] = @ \cup {n}]
      /\ UNCHANGED <<row, holder, pc, job, order, topic, allowed>>
  BY DEF StockChanges, control, ordering
<1>2. \A q \in Products : shown[q] \subseteq shown'[q]
  BY <1>1 DEF CartInv, CartTypeOK
<1>3. CartTypeOK'
  BY <1>1 DEF CartInv, CartTypeOK
<1>4. RequestsOK'
  BY <1>1, <1>2 DEF CartInv, RequestsOK, RequestOK, NamesProduct, FitsTask,
                    SawStock, Items
<1>5. QuantitiesWereOnTheShelf'
  <2> SUFFICES ASSUME NEW q \in Products, Items'[q] > 0
               PROVE  \E k \in shown'[q] : k >= Items'[q]
    BY DEF QuantitiesWereOnTheShelf
  <2>1. Items' = Items
    BY <1>1 DEF Items
  <2>2. PICK k \in shown[q] : k >= Items[q]
    BY <2>1 DEF CartInv, QuantitiesWereOnTheShelf
  <2> QED
    BY <1>2, <2>1, <2>2
<1>6. OrderedItemsLeave'
  BY <1>1 DEF CartInv, OrderedItemsLeave, Items
<1> QED
  BY <1>3, <1>4, <1>5, <1>6 DEF CartInv

\* Steps of Orders: an order leaves in the cart what it reads there.
LEMMA OrderPreserves ==
  ASSUME CartInv, NEW o \in Orders,
         ReadCart(o) \/ CreateReturns(o) \/ PublishCreated(o)
  PROVE  CartInv'
<1>1. UNCHANGED <<shown, row, holder, pc, job>>
  BY DEF ReadCart, CreateReturns, PublishCreated, control
<1>2. CartTypeOK'
  BY <1>1, ItemsType, EmptyTypes DEF CartInv, CartTypeOK, ReadCart,
     CreateReturns, PublishCreated
<1>3. \A p \in Products : Items[p] <= Items[p]
  BY ItemsType DEF CartInv, Carts, Quantities
<1>4. OrderedItemsLeave'
  BY <1>1, <1>3 DEF CartInv, CartTypeOK, OrderedItemsLeave, ReadCart,
                    CreateReturns, PublishCreated, Items
<1> QED
  BY <1>1, <1>2, <1>4
     DEF CartInv, RequestsOK, RequestOK, NamesProduct, FitsTask, SawStock,
         QuantitiesWereOnTheShelf, Items

\* The four operations and the consumer of order.created.
LEMMA RequestPreserves ==
  ASSUME CartInv, NEW r \in Requests,
         \/ \E p \in Products, n \in Quantities :
              (n > 0 /\ AddItem(r, p, n)) \/ UpdateItem(r, p, n)
         \/ \E p \in Products : RemoveItem(r, p)
         \/ Clear(r)
         \/ \E o \in Orders : OnOrderCreated(r, o)
  PROVE  CartInv'
<1>1. ASSUME NEW p \in Products \cup {None}, NEW n \in Quantities,
             NEW t \in {"add", "set", "remove", "clear"}
      PROVE  /\ Job(t, p, n) \in JobSet
             /\ Job(t, p, n).task = t /\ Job(t, p, n).product = p
             /\ Job(t, p, n).quantity = n /\ Job(t, p, n).order = None
  <2> DEFINE no == NoJob
  <2>1. no \in JobSet /\ no.order = None
    BY EmptyTypes DEF NoJob
  <2>2. Job(t, p, n) = [no EXCEPT !.task = t, !.product = p, !.quantity = n]
    BY DEF Job
  <2> HIDE DEF no
  <2> QED
    BY <2>1, <2>2 DEF JobSet
<1>2. 0 \in Quantities
  BY CartAssumption DEF Quantities
<1>3. ASSUME NEW p \in Products, NEW n \in Quantities, n > 0, AddItem(r, p, n)
      PROVE  CartInv'
  <2>1. Begin(r, Job("add", p, n), "fetch") /\ topic' = topic
    BY <1>3 DEF AddItem
  <2>2. NamesProduct(Job("add", p, n)) /\ FitsTask(Job("add", p, n))
    BY <1>1, <1>3 DEF NamesProduct, FitsTask
  <2> QED
    BY <1>1, <2>1, <2>2, BeginPreserves
<1>4. ASSUME NEW p \in Products, NEW n \in Quantities, UpdateItem(r, p, n)
      PROVE  CartInv'
  <2>1. /\ Begin(r, Job("set", p, n), IF n = 0 THEN "lock" ELSE "fetch")
        /\ topic' = topic
    BY <1>4 DEF UpdateItem
  <2>2. NamesProduct(Job("set", p, n)) /\ FitsTask(Job("set", p, n))
    BY <1>1 DEF NamesProduct, FitsTask
  <2>3. n = 0 => SawStock(Job("set", p, n))
    BY <1>1, <1>2 DEF SawStock
  <2>4. CASE n = 0
    BY <1>1, <2>1, <2>2, <2>3, <2>4, BeginPreserves
  <2>5. CASE n # 0
    BY <1>1, <2>1, <2>2, <2>5, BeginPreserves
  <2> QED
    BY <2>4, <2>5
<1>5. ASSUME NEW p \in Products, RemoveItem(r, p)
      PROVE  CartInv'
  <2>1. Begin(r, Job("remove", p, 0), "lock") /\ topic' = topic
    BY <1>5 DEF RemoveItem
  <2>2. /\ NamesProduct(Job("remove", p, 0)) /\ FitsTask(Job("remove", p, 0))
        /\ SawStock(Job("remove", p, 0))
    BY <1>1, <1>2 DEF NamesProduct, FitsTask, SawStock
  <2> QED
    BY <1>1, <1>2, <2>1, <2>2, BeginPreserves
<1> DEFINE clear == Job("clear", None, 0)
<1>6. clear \in JobSet /\ clear.task = "clear" /\ clear.order = None
  BY <1>1, <1>2
<1> HIDE DEF clear
<1>7. CASE Clear(r)
  <2>1. Begin(r, clear, "insert") /\ topic' = topic
    BY <1>7 DEF Clear, clear
  <2>2. NamesProduct(clear) /\ FitsTask(clear) /\ SawStock(clear)
    BY <1>6 DEF NamesProduct, FitsTask, SawStock
  <2> QED
    BY <1>6, <2>1, <2>2, BeginPreserves
<1>8. ASSUME NEW o \in Orders, OnOrderCreated(r, o)
      PROVE  CartInv'
  <2> DEFINE j == [clear EXCEPT !.order = o]
  <2>1. /\ Begin(r, j, "insert") /\ topic[o] = "sent"
        /\ topic' = topic \/ topic' = [topic EXCEPT ![o] = "consumed"]
    BY <1>8 DEF OnOrderCreated, clear
  <2>2. j \in JobSet /\ j.task = "clear" /\ j.order = o
    BY <1>6 DEF JobSet
  <2> HIDE DEF j
  <2>3. NamesProduct(j) /\ FitsTask(j) /\ SawStock(j)
    BY <2>2 DEF NamesProduct, FitsTask, SawStock
  <2> QED
    BY <2>1, <2>2, <2>3, BeginPreserves
<1> QED
  BY <1>3, <1>4, <1>5, <1>7, <1>8

\* Requests that end without saving.
LEMMA RefusalPreserves ==
  ASSUME CartInv, NEW r \in Requests,
         FetchFails(r) \/ NoRow(r) \/ Refuse(r) \/ Fail(r)
  PROVE  CartInv'
<1>1. CASE FetchFails(r) \/ NoRow(r)
  BY <1>1, EndPreserves DEF FetchFails, NoRow
<1>2. CASE Refuse(r) \/ Fail(r)
  BY <1>2, EndPreserves DEF Refuse, AfterRefusal, Fail
<1> QED
  BY <1>1, <1>2

----------------------------------------------------------------------------
\* The invariant behind the safety properties of the cart holds for any
\* number of concurrent requests, repeated events and failures.
THEOREM CartInvariance == Spec => []CartInv
<1>1. CartInv /\ [Next]_vars => CartInv'
  <2> SUFFICES ASSUME CartInv, [Next]_vars PROVE CartInv'
    OBVIOUS
  <2>1. ASSUME NEW r \in Requests,
               FetchProduct(r) \/ InsertRow(r) \/ LockRow(r) \/ Save(r)
        PROVE  CartInv'
    BY <2>1, FetchPreserves, InsertPreserves, LockPreserves, SavePreserves
  <2>2. CASE UNCHANGED vars
    BY <2>2 DEF vars, control, ordering, CartInv, CartTypeOK, RequestsOK,
                RequestOK, NamesProduct, FitsTask, SawStock, Items,
                QuantitiesWereOnTheShelf, OrderedItemsLeave
  <2> QED
    BY <2>1, <2>2, RequestPreserves, RefusalPreserves, OrderPreserves,
       StockPreserves, CartAssumption DEF Next, Fetch, Mutate
<1> QED
  BY <1>1, InitCart, PTL DEF Spec

\* Every row, job and event keeps its type; in particular no cart ever holds
\* more of a product than its stock can be.
THEOREM CartTypeCorrect == Spec => []CartTypeOK
  BY CartInvariance, PTL DEF CartInv

\* However stale the stock a request compares with, what is in the cart was
\* on the shelf at some time: the increment is checked under the row lock.
THEOREM CartFitsTheShelf == Spec => []QuantitiesWereOnTheShelf
  BY CartInvariance, PTL DEF CartInv

\* order.created, however late and however often it is delivered, discards
\* only what its order took or the user put in later, and what it cleared
\* only comes back when the user puts it in again.
THEOREM OrderedItemsLeaveTheCart == Spec => []OrderedItemsLeave
  BY CartInvariance, PTL DEF CartInv

\* No write of the cart is lost: the row changes by exactly one request,
\* applied to the cart as it is at that moment, first writes included.
THEOREM CartWritesAreSerial == Spec => ChangesAreSerial
<1>1. CartInv /\ [Next]_vars =>
        (row' # row =>
           \E r \in Requests :
             pc[r] = "save" /\ row' = After([job[r] EXCEPT !.copy = Items]))
  <2> SUFFICES ASSUME CartInv, [Next]_vars, row' # row
               PROVE  \E r \in Requests :
                        pc[r] = "save"
                        /\ row' = After([job[r] EXCEPT !.copy = Items])
    OBVIOUS
  <2>1. PICK r \in Requests : Save(r)
    BY DEF Next, vars, Fetch, Mutate, AddItem, UpdateItem, RemoveItem, Clear,
           OnOrderCreated, Begin, FetchProduct, FetchFails, InsertRow, LockRow,
           NoRow, Refuse, Fail, ReadCart, CreateReturns, PublishCreated,
           StockChanges
  <2>2. job[r].copy = Items /\ job[r] \in JobSet /\ pc[r] = "save"
    BY <2>1 DEF Save, CartInv, CartTypeOK, JobSet, RequestsOK, RequestOK
  <2>3. [job[r] EXCEPT !.copy = Items] = job[r]
    BY <2>2 DEF JobSet
  <2> QED
    BY <2>1, <2>2, <2>3 DEF Save
<1> QED
  BY <1>1, CartInvariance, PTL DEF Spec, ChangesAreSerial

=============================================================================
