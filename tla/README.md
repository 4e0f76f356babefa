# A TLA+ model of the shop

The repository is a shop built of NestJS services behind a REST gateway: `auth`, `users`, `products`,
`cart` and `orders`, each with its own PostgreSQL database, a shared Redis cache, request/answer calls over
TCP, events over Kafka, and PayPal as the payment provider. This directory models the parts in which
something can go wrong *between* two steps: stock and its cached copies, the cart, placing an order, paying
and cancelling it, sessions, and the streams that tell clients of changes.
Paths below are relative to `src/`.

1. [Inventory](#1-inventory)
2. [Modules](#2-modules-and-how-they-correspond-to-the-code)
3. [Runs and bounds](#3-runs-and-bounds)
4. [Fairness](#4-fairness)
5. [Proofs](#5-proofs)
6. [Where the program and its documentation differ](#6-where-the-program-and-its-documentation-differ)
7. [What is left out](#7-what-is-left-out)
8. [What could follow](#8-what-could-follow)

To repeat a run: `tlc -config Catalogue.cfg MCCatalogue`; to repeat a proof:
`tlapm OrderOperations_proofs.tla`. `PROJECT.json` lists the runs with their configurations, the source
lines behind every definition, the hazards and the properties aimed at them.

## 1. Inventory

| Component | State it keeps | Operations | Talks to |
| --- | --- | --- | --- |
| Products (`apps/products`) | `product` rows with `stock`; `stock_reservations`, one row per order; Redis `product:*` | reserve, release, create, update, remove, find | called by Orders, Cart, Gateway |
| Orders, creation (`apps/orders/src/orders.service.ts`) | `orders`, `stock_intents` | create, recoverStock every 30 s | Cart and Products over TCP |
| Orders, operations (same file) | `orders`, `order_operations`, at most one per order; Redis `order:<id>` | pay, capturePayment, captureByPaymentId, cancel, updateStatus, findOne, recoverOperations every 30 s | PayPal over HTTPS, Products over TCP |
| PayPal client (`apps/orders/src/paypal`) | access token, the request for it | createOrder, captureOrder, refundCapture | PayPal |
| Order events (`apps/orders/src/cqrs`) | none | publish created, paid, cancelled, status changed | Kafka; consumed by Cart and Gateway |
| Cart (`apps/cart`) | one `cart` row per user | get, add, update, remove, clear; clear on `order.created` | Products; publishes `cart.updated` |
| Auth (`apps/auth`) | `sessions` rows; Redis `session:<id>` | register, login, verify, refresh, logout, cleanupSessions nightly | Users; called by the gateway's guard on every request |
| Users (`apps/users`) | `users` rows, Redis copies | create, find by credentials or id; a script creates the administrator | called by Auth, Gateway |
| Gateway events (`apps/gateway/src/events`) | one stream per client with its pending hints | publish, closeSession, verify, heartbeat, expiry | Kafka, Auth |
| Gateway REST (`apps/gateway`) | none | guards and forwarding | all services |
| Cache library (`libs/cache`) | Redis | get, set, del, wrap; errors are logged and swallowed | Redis |

What is hard in it, and what makes each part correct:

* **Stock.** Reservations and releases of several orders lock several rows; calls are repeated, arrive after
  their sender gave up, and overtake each other. *Correct* means: nothing oversold, no unit lost or returned
  twice, a released reservation never comes back to life, no deadlock.
* **Placing an order** spans two databases without a common transaction. The row in `stock_intents` is the
  record from which a recovery job undoes a half-made order; creator and jobs of all replicas fence each other
  with the lock of that row. *Correct* means: units are held only for an order or under a record; the record
  and the order never coexist; an order that was saved keeps its units; every record is settled.
* **Payment and cancellation** call PayPal and Products while a row lock is held, and any answer may be lost.
  *Correct* means: no charge is forgotten, nothing refunded is shipped, stock only returns for a cancelled
  order, a cancel that answered success is complete, an accepted operation is eventually carried out.
* **Sessions** are read through a cache that a concurrent logout or refresh invalidates. *Correct* means: a
  refresh token is spent once, a revoked session stays revoked and leaves the cache for good.
* **The catalogue's copies** in Redis are stored by readers and evicted by writers, without a common order.
  *Correct* means: a copy is only old where a race or a failing Redis explains it, never because a write forgot
  a key; and nothing is decided on a copy that the table would not have allowed.
* **The cart** compares with a stock that was fetched before its row is locked, and its first write has no row
  to lock; the event of an order clears it some time later. *Correct* means: no change is lost, no quantity was
  never on the shelf, and what an order took leaves the cart with its event and does not come back.
* **Event streams** hold hints back while a session is verified. *Correct* means: hints go to their owner and
  only after a check of a live session, no hint is stranded, the queue is bounded, a client only misses a change
  for a reason that can be named, streams of revoked sessions end.

## 2. Modules and how they correspond to the code

```
 OrderLifecycle  <--refines--  OrderOperations
 OrderPlacement  <--refines--  OrderCreation
 StockLedger     <--refines--  StockTx, Catalogue, OrderCreation
      +------- EXTENDS ------  StockTx, Catalogue, OrderCreation
 Sessions        Cart          EventStreams
```

Every other `X_proofs` holds the theorems of module X. Each `MC...` module extends one of the modules with the
values TLC needs; the constants of Sessions and Cart are simple enough for their configurations. Modules meet
where one takes from another what that one shows: Cart takes from OrderCreation that a request either places
its order or fails; EventStreams takes from Sessions that a revoked session may be accepted from a copy in Redis
until that copy expires, and from OrderOperations and Cart that a change is committed before its event is sent;
how copies in Redis come to be old is the same race as in Catalogue, seen from the client that reloads.

**StockLedger** is what Products promises: `reserveStock`, `releaseStock` and the administrator's `create`,
`update`, `remove` as atomic steps on `stock`, `catalogue` (products with a row), `removed` and `ledger` (the
`stock_reservations` table). An item list is a function from products to quantities; the code sorts both lists
before it compares them, and `stock.dto.ts` refuses duplicates, so nothing is lost by that. `supplied` is a
history variable for the sum that must stay constant. A release of a reservation Products never saw leaves a
*tombstone*; with `legacyItems` it returns the listed units, as for orders older than the ledger.

**StockTx** is how Products keeps the promise: the statements of the PostgreSQL transactions under READ
COMMITTED, with the row locks each of them takes and holds, waiting included, and with a rollback possible at
every point. It works on the variables of the ledger, which change when a transaction commits. `rowLock` stands for the key of a reservation row (an insert of the same key by two transactions
waits like a lock), `productLock` for product rows; `tx` holds the program counter, the row as the transaction
saw it and the values it wrote. `TransactionsAreAtomic` is the refinement of `StockLedger`.

**OrderPlacement** is the promise of Orders about an order that is being placed. Its record (the row of
`stock_intents`), its units and its row change hands in one order: recorded, then reserved for, then either saved,
which takes the record's place, or given back, and only then is the record dropped. `late` are the orders with a
release nobody waits for any more: the only way units can go back behind the back of a saved order.

**OrderCreation** adds the two tables of Orders and the processes: the request that creates order `o` (named
`o`) and the recovery jobs. `network` is a set of calls to Products that were sent and not yet executed: a call
whose sender gave up stays in it, and calls are executed in any order. `Crash` rolls the process's transaction
back and forgets the request. Step by step: `ReadCart` - `RecordIntent` (lines 105-110) - `SendReserve` (the row
lock and the call, 112-128) - `ExecuteReserve` - `CommitOrder` (129-141; its acknowledgement may be lost), and on
any error `recoverStockIntent` (`SkipIntent`, `LockIntent`, `ExecuteRelease`, `ClearIntent`).
Administrators' calls are left to StockLedger; here the catalogue is fixed. The history variable `overtaken`
collects the orders with a release whose sender stopped waiting. `ImplementsPlacement` is the refinement of
OrderPlacement.

**OrderLifecycle** is the promise of Orders about one order: `status`, `money` and `stock` move together, e.g.
an order is only cancelled with the money never taken or given back, and only shipped while it is paid.

**OrderOperations** keeps it. Its variables are the columns `status`, `paymentId`, `captureId`, the row of
`order_operations` (`op`), the row lock where it outlives one statement, the Redis entry, and PayPal and
Products as far as Orders sees them (`payOrder`, `payState`, `released`, and `inflight` for calls that may still
be executed after a timeout). Requests and jobs are *workers*:

| Code | Actions |
| --- | --- |
| `findOne` through `CacheService.wrap` | `CacheHit`, `CacheMiss`, `CacheFill`, `CacheExpires` |
| `updateStatus`, `pay` | `Decline`, `DecideStatus`, `CreatePayment`, `Transition` |
| `startOperation` (capture, cancel) | `Rejoin`, `StartCapture`, `StartRefund`, `StartRelease` |
| `processOperation` (requests and job) | `NothingPending`, `LockOrder`, `Capture` / `Refund` / `ReleaseStock` or `CallFails`, `Commit` |
| `invalidate`, the answer | `Drop`, `Reply` |
| `recoverOperations` | `PickOperation`, then `processOperation` |
| any refusal, error or crash | `Fail`, `CallFails` |

`job[w].left` counts how often the worker still calls `processOperation`: a cancel does so up to twice (refund,
then release), a capture and the recovery job once.

**Sessions** has the `sessions` table, the Redis copies, a clock, and requests that verify, refresh or log out;
a logout passes the gateway's guard first, as a verification of its own. `issued`, `heirs`, `loggedOut` and
`strays` are history variables; `strays` are the sessions whose copy was read before a write that overtook it, or
outlived an eviction that did not happen. Tokens are numbers in the order of their issue; hashing is left out, it only decides equality.

**Catalogue** puts the cache around StockLedger: `copy` is what Redis holds under every key, `reading` the
`wrap` calls between their query (`Query`) and their `set` (`Store`). A write of Products (`ReserveStock`,
`ReleaseStock`, `Create`, `Update`, `Remove`) is the step of the ledger, and `due` counts the calls to `del` it
still has to make (`Evict`, or `EvictionFails` when Redis fails or the process dies first). `excused` is a history
variable: the keys whose copy a race or a failure explains.

**Cart** has the `carts` row of one user, `holder` for the transaction that inserted or locked it, and the
requests: `FetchProduct` before the transaction, then the statements of `mutateCart` one by one (`InsertRow`,
`LockRow` or `NoRow`, `Save` or `Refuse`), each of which may fail. `shown` is every stock value a product ever
had, since FIND_ONE may be answered from Redis. `ReadCart`, `CreateReturns`, `PublishCreated` and
`OnOrderCreated` take an order from the cart it was made from to the event that clears this cart; the event may
be lost (then `PublishCreated` does not happen), come late, and come twice. A `create` that fails leaves nothing
behind, so its order is "new" again. `allowed` is a history variable: for every order what it leaves in the cart,
that is what it took and what was put in since and, from the clear for its event on, what was put in after that.

**EventStreams** follows a change from the service that makes it to the client that shows it. The steps in Orders
are those of the code: `Commit` (`version`, what the table has), `Evict` (the copies in Redis, or `FailsToEvict`
when Redis fails or the process dies), `Emit` (the event reaches Kafka, or it does not). The cart has no copies,
its change is `Commit` and `Emit`. `copy` is what Redis has of a resource: `Store` is the `set` of a `wrap` call,
which may put there any version there ever was, since the call may have read it long ago; `Expire` is the time to
live. The event waits in `topic`. `Notify` is `publish` with the subscribers of all streams of this replica of the
gateway; with `SharedGroup`, `TakenElsewhere` is an event that another replica gets, since all of them consume in
the group `gateway-events`. A hint waits in `pending` for the verification that must end before it is sent
(`check`); `Flush` and `GiveUp` are the two ends of `verify`. The client reloads what it was told (`toLoad`), and
`Load` is answered with the copy or, where there is none, with the table (`loaded`). One step is what JavaScript
runs between two awaits.

Three history variables serve the properties. `doomed`: the verification began on a session that Auth no longer
accepted. `strays`: the resources whose copy was stored by a read that a change overtook, or outlived an eviction
that failed. `missed`: the resources whose last change the client of a stream is not told of, because the event
did not reach Kafka or went to another replica and nothing else will tell it, or which it reloaded from a stray copy with
no further hint to come. A new change of the resource clears the entry.

Operators named after the definition that follows them (`AvailableOffByOne` before `Available`) are plausible
mistakes. No action uses them; each is put in the place of its original to see that a property notices.

## 3. Runs and bounds

| Run | Checks | Instance and why it is enough |
| --- | --- | --- |
| `catalogue` | `LedgerTypeOK`, `UnitsConserved`, `StaleOnlyByRace`, `ReleasedIsFinal` | one product, two orders, integers up to 2, one reader, two evictions of a key to come: both ends of the column, every order of two reservations, a write that overtakes a reader, a failed eviction before a second write |
| `transactions` | `TxTypeOK`, `NoCircularWait`, `TransactionsAreAtomic`, `CallsEnd` | two transactions, two products, two baskets, integers up to 1: a cycle of waits and a lost update need no more |
| `creation` | `CreationTypeOK`, `NoHoldWithoutRecord`, `FencedOrderHoldsStock`, `ImplementsPlacement` | two orders that compete for one product, the jobs of two replicas, all late calls; orders and jobs are interchangeable (symmetry) |
| `creation_settles` | `IntentsAreSettled`, `FailedCreationReturnsStock` | one order, two replicas, late calls, under fairness |
| `operations` | `OperationFitsOrder`, `ChargeIsAccountedFor`, `RefundedNeverShips`, `InductiveInvariant` (which contains the types), `CancelSettles`, `PaymentFrozen`, `ImplementsLifecycle` | one order, two payments (a payment that replaces another), two concurrent requests of any kind |
| `operations_complete` | `CancellationCompletes`, `CaptureCompletes` | one request, one job, under fairness |
| `sessions` | `SessionsTypeOK`, `TokensSpentOnce`, `ActiveCopiesAreCurrent`, `RevokedForGood`, `LogoutWins` | two concurrent requests of any kind on one session, one after the other without end, two rotations, a clock that passes the session's life time, a Redis that may fail, under fairness |
| `cart` | `CartTypeOK`, `QuantitiesWereOnTheShelf`, `OrderedItemsLeave`, `ChangesAreSerial`, `RequestsEnd` | one product whose stock is 1 or 2, two requests or events at a time, two orders whose events may be lost, late, or come again, under fairness |
| `streams` | `StreamsTypeOK`, `QueuesAreBounded`, `HintsAwaitVerification`, `NoChangeForgotten`, `HintsAreAuthorized`, `ClientsCatchUp`, `RevokedStreamsEnd` | one stream of one session, two resources of its user and one of another, one of them an order with a copy in Redis, other replicas in the gateway's group, a queue of one hint, one change of every resource, under fairness |
| `creation_late`, `payment_restart`, `logout_instant` | one claim each, found violated | see section 6 |

One order (one session) is enough in `OrderOperations` (`Sessions`): the steps of different orders touch
different rows, and a worker serves one order at a time. The theorems of section 5 do without the bound.
One stream is enough in EventStreams, since streams share nothing but the notifications each of them filters;
a second hint, which needs a second resource of the same user, overflows its queue. One change is enough for a copy
to be old, and the old copy may be stored before, between and after the steps of the change. A cart is one row, and
products in it do not affect each other; with two orders the second may read the cart before or after the first
one's event clears it.

Bounds that appear in guards are named: `MaxInt` (the width of the column, so a real limit), `MaxNow` and
`MaxToken` in Sessions, `MaxDue` in Catalogue, `MaxStock` in Cart (the largest stock of a product; `Stocks` are the values it
takes),
`MaxVersion` in EventStreams, and `MaxPending`, which is 100 in the code.
`CHECK_DEADLOCK` is on in every run but `streams`: there the versions are bounded and every stream may have ended,
and then nothing is left to do. In OrderCreation, where requests are not repeated, the action `Rest` says
which states may be final.

Symmetry is used in runs that check safety only.

What the properties say beyond a type, with the code they are about, stands in the comment of each.

## 4. Fairness

* StockTx: strong fairness of a transaction's statements. PostgreSQL queues the waiters of a row lock, so a
  statement is not overtaken for ever. Rollbacks may happen for ever: nothing is assumed about them.
* OrderCreation: requests go on and their calls time out (weak). `@Cron` runs the job every 30 s, and not
  *every* attempt on an intent fails (strong fairness of taking an intent, locking it, being answered in time
  and deleting it). Without the last assumption the recovery could not promise anything: Products may be down.
* OrderOperations: whoever holds a row lock gets an answer or a timeout and ends its transaction (weak); the
  job takes every operation that stays, waits for the row lock, and not all of its calls fail (strong). PayPal
  need not let a capture succeed that the buyer did not approve: `CaptureCompletes` starts from the approval.
* Cart: strong fairness of the steps of every request, as in StockTx: PostgreSQL queues the waiters of a row lock,
  and statements end. The product lookup of `cart.service.ts:126-131` has no timeout; that Products answers it, or
  that the connection fails, is an assumption. A request may fail at every statement, so nothing is assumed about
  success, nor that an order's event is ever published or consumed.
* EventStreams: whoever changed a resource goes on to evict and to emit, whatever these do; a call to Auth ends
  after 5 s at the latest and the callback behind it runs; the heartbeat's timer fires; Kafka delivers what it
  took, and not the same event for ever; the copies of sessions in Redis expire; a client loads what it was told
  to (all weak). That Kafka takes an event, that this replica gets it, or that an old copy of an order is
  evicted or expires before the client reloads is not assumed: `ClientsCatchUp` excuses exactly what `missed` has.
* Catalogue: none, its properties are about safety.
* Sessions: requests end, and entries of Redis expire (weak). Nothing is assumed about logins or the clean-up.

## 5. Proofs

TLAPS checks, for every value of the constants (products, orders, payments, replicas, requests, sessions, streams,
width of the column, length of the queue):

| Theorem | Property |
| --- | --- |
| `LedgerTypeCorrect` | `LedgerTypeOK` |
| `ReleasesAreFinal` | `ReleasedIsFinal` |
| `UnitsAreConserved` | `UnitsConserved` |
| `TxInvariance`, `TxTypeCorrect` | `TxTypeOK` |
| `StockTxImplementsLedger` | `TransactionsAreAtomic` |
| `TransactionsConserveUnits` | `UnitsConserved` and `ReleasedIsFinal`, of the statements of StockTx |
| `NobodyWaitsInACircle` | `NoCircularWait` |
| `CreationInvariance`, `CreationTypeCorrect` | `CreationTypeOK` |
| `OrderOrIntent` | an order and its intent never coexist |
| `NoUnitsLeak` | `NoHoldWithoutRecord` |
| `FenceInvariance`, `FenceHolds` | `FencedOrderHoldsStock` |
| `PlacementInvariance`, `PlacementRefinement` | `ImplementsPlacement` |
| `CreationUsesLedger` | every behaviour of OrderCreation is one of StockLedger |
| `CreationConservesUnits` | `UnitsConserved` and `ReleasedIsFinal`, while orders are placed and recovered |
| `Invariance`, `TypeCorrect` | `InductiveInvariant` and its types |
| `OperationsFit` | `OperationFitsOrder` |
| `NoChargeIsLost` | `ChargeIsAccountedFor` |
| `NoRefundedOrderShips` | `RefundedNeverShips` |
| `ReleaseNeedsCancel` | stock only goes back for a cancelled order, a part of `InductiveInvariant` |
| `CancelIsComplete` | `CancelSettles` |
| `PaymentNeverChanges` | `PaymentFrozen` |
| `AcceptedWorkIsKept` | `OperationsEndInTheirEffect`: an accepted operation only goes when it is carried out |
| `Refinement` | `ImplementsLifecycle` |
| `CatalogueInvariance`, `CopiesAreFresh` | `StaleOnlyByRace` |
| `CatalogueImplementsLedger` | every behaviour of Catalogue is one of StockLedger |
| `CartInvariance`, `CartTypeCorrect` | `CartTypeOK` |
| `CartFitsTheShelf` | `QuantitiesWereOnTheShelf` |
| `OrderedItemsLeaveTheCart` | `OrderedItemsLeave` |
| `CartWritesAreSerial` | `ChangesAreSerial` |
| `StreamsInvariance`, `StreamsTypeCorrect` | `StreamsTypeOK` |
| `QueuesStayBounded` | `QueuesAreBounded` |
| `NoHintIsStranded` | `HintsAwaitVerification` |
| `ChangesStayOnTheirWay` | `NoChangeForgotten` |
| `HintsGoToTheirOwners` | `HintsAreAuthorized` |
| `SessionsInvariance`, `SessionsTypeCorrect` | `SessionsTypeOK` |
| `TokensAreSpentOnce` | `TokensSpentOnce` |
| `RevocationIsFinal` | `RevokedForGood` |
| `CopiesAreCurrent` | `ActiveCopiesAreCurrent` |
| `LogoutsInvariance`, `LateRequestsNeedStrays` | `LateRequestsPassByStraysOnly`: after a logout, only a stray copy lets a request through |

*StockLedger.* `LedgerTypeOK` is inductive: a reserve that is applied saw the units it takes in the conditional
UPDATE, and a release that leaves the column's range fails as a whole. `UnitsConserved` is about sums over all
reservations. No induction is needed to define them: a sum is a function on the subsets of the orders, and a
least counterexample shows that there is one and that a changed row changes it by the difference (`SumsExist`,
`SumsChange`, `HeldChanges`). The invariant adds `LedgerIsKnown`: reservations name products that have or had a
row, so nothing is held of a product the administrator just created. `LedgerAssumption` says that item lists name
quantities in the column's range and that the orders, those ever made, are finitely many.

*StockTx.* `TxInv` says what locks mean: the reservation a transaction locked is still the one it read (`RowOK`),
every stock it wrote is computed from the committed one, the products it has come before those it still wants
(`DraftsOK`), and what it wrote and what is left are the items of the row (`TodoOK`). So a commit is one call of
StockLedger, all other statements are invisible, and along a chain of waiting transactions the ranks of the wanted
products rise, which in a finite catalogue cannot go on for ever. `TxAssumption` says that the catalogue is finite
and that sorting by id is a total order; `LedgerAssumption` comes with the ledger. Because a commit is a ledger
call, what is proved of the ledger carries over (`TransactionsConserveUnits`).

The next ones are about OrderCreation (`OrderCreation_proofs`, which uses the lemmas about the ledger).
`NoHoldWithoutRecord` is not inductive: a RESERVE_STOCK that is still on its way may turn into held units at any
time. So the invariant says that such a call meets a record or a tombstone (`ReservesAreCovered`), that whoever is
about to delete an intent knows its units to be the order's or back (`ClearsAreSafe`), and that an order is only
saved by its creator (`TargetsKnown`). That a saved order keeps its items unless a release outlived its sender
(`FencedOrderHoldsStock`) is proved from `FenceInvariant`, about the row lock: whoever works under it holds it and
the intent is there (`LocksFence`), every other release is still awaited by the holder (`ReleasesAreAwaited`), and
a creator about to save has the items reserved (`SavesAreReserved`).

The refinement of OrderPlacement needs more than these two, since a step of the promise has conditions on all of
record, row and units at once. `PlacementInvariant` adds that before its record an order exists nowhere, no call for
it included (`NothingPrecedesRecords`), and that the call an order is saved on was executed (`SavedHaveRows`).
Every action of OrderCreation is then one of
OrderPlacement or a stutter. That the item lists it sends are ones the ledger accepts (`BasketsKnown`) makes it a
behaviour of StockLedger too, from which the conservation of units follows as for StockTx. Besides `LedgerAssumption` they assume
`CreationAssumption`: requests and jobs are different processes.

The next ones are about OrderOperations. Their only assumption is `OperationsAssumption`: handlers and jobs are
disjoint, and `None` is neither an id nor a status. The first part of `OrderOperations_proofs` has one lemma per
action, the second one per action that is visible in `OrderLifecycle`.

None of the safety invariants is inductive alone. Take `ChargeIsAccountedFor`: a capture whose answer was lost
may be executed at any later time, so the invariant has to say what an outstanding call can still do
(`LateIsHarmless`: it repeats something done, or its operation is still recorded). That the operation is
still recorded rests on the fence: whoever is between call and commit holds the row lock (`LockFences`), and a
transaction about to commit has the effect behind it (`EffectBeforeCommit`). That the charge belongs to the
payment the order names needs `PaymentsBelong`, which speaks about the workers that carry a payment id to an
order, and `PaidIsCharged`. What a worker carries fits where it is (`JobsFit`). For `CancelSettles` the
invariant follows a cancel request on its way (`CancelProgress`), and says that a cancelled order has its
units back or a release recorded (`CancelledIsReleased`). The conjunction is `InductiveInvariant`; TLC checks it
in `operations`.

`AcceptedWorkIsKept` is what a prover can say of "eventually carried out": nobody withdraws or replaces an operation
once it is recorded, and the transaction that ends it finds its effect at PayPal or Products behind it
(`OnlyCommitsEndOperations`, `CommitsRecordEffects`). That this transaction comes is left to TLC.

The refinement then needs no invariant of its own: from `InductiveInvariant` every step changes at most one of
`status`, money and stock of one order, as one action of `OrderLifecycle`, or none of them.

*Catalogue.* `StaleOnlyByRace` is not inductive: a `wrap` call may store an old value at any time. The invariant
adds `ReadsAreMarked`: what such a call holds is what the table has, or a write overtook it since its query.
That needs a lemma about every write, that only the keys it evicts have new contents (`OnlyWrittenKeysChange`),
and `NewIdsAreUnknown`, since `create` evicts the list alone: nobody has a copy of a row that was never there.
`CatalogueImplementsLedger` shows that the caches only read, so the theorems about the ledger hold with them.

*Cart.* A request about to save holds the row, so what it read is still the cart; past the fetch, the stock it
compares with was the product's at some time (`RequestsOK`). So what a request saves is the cart of that moment
with its own change, and the same change was made to `allowed` of every order (`SavedLeaves`): what a clear for an
order's event discards stays out, unless it is put in again, whatever was reading or waiting at the time. Together with the properties themselves this is `CartInv`. `CartAssumption` says that
`None` is neither a cart nor an id.

*EventStreams.* `HintsAwaitVerification` and the bound on the queues are inductive with the types. That a hint
is never let through by a verification that began on a dead session needs `DeadStaysDead`: such a verification
is not answered with success, because a session Auth no longer accepts is not accepted again
(`SessionsStayDead`). `NoChangeForgotten` is the safe half of `ClientsCatchUp`: every step that takes a change from
its service, Kafka, the hints or what is to be loaded puts it into the next of them, closes the stream, or is an
exception. The step that needs an argument is the reload from an old copy: an old copy is a stray, or its eviction
is still to come (`CopiesOK`), and then so is the event. `StreamsAssumption` gives the constants their types.

*Sessions.* A row accepts the newest token only and every token that was exchanged is older (`TokensInOrder`), and
a refresh about to swap has looked up the token it was given (`RequestsOK`). From that a conditional UPDATE that
succeeds spends a token nobody spent before, and one on a revoked row fails (`RevocationIsFinal`, an action
property, per step). For `ActiveCopiesAreCurrent` the proof follows every write to the table to the eviction behind
it: until then the request is still in `evict`, and a copy that differs afterwards is a stray. The rest is about
requests that begin after a logout was answered (`LogoutsOK`): the row they would read is revoked or gone, so they
can only pass the cache, and by the previous theorem only on a stray. So the race of section 6, and an eviction that
fails or never comes, are the only gaps between the code and an instant logout. `SessionsAssumption` is about `None` and the bounds.

Model-checked only: the liveness properties, which are out of reach of the prover under fairness (`CallsEnd`,
`LogoutWins` and the others with a fairness in section 4). Every safety property of a passing run is proved, and of `IntentsAreSettled`, `CancellationCompletes`,
`CaptureCompletes`, `ClientsCatchUp` and `LogoutWins` the safe half: what has to be done is not forgotten
(`PlacementRefinement`, `AcceptedWorkIsKept`, `ChangesStayOnTheirWay`) and, for logouts, what lets a request through
(`LateRequestsNeedStrays`). `OperationsEndInTheirEffect` and `LateRequestsPassByStraysOnly` stand beside their proofs.

## 6. Where the program and its documentation differ

* **A late release takes the stock of a live order** (`creation_late`). The intent is committed at
  `orders.service.ts:110` and locked at 114-117. A job that gets the row in between sends RELEASE_STOCK and
  loses its lock when the call times out; the creator goes on, reserves and saves the order; then Products
  executes the release. The comment at 108-109 says the row lock fences recovery against the creator.
  `FencedOrderHoldsStock`, checked and proved, says that the late call is the only cause.
* **A payment cannot always be restarted** (`payment_restart`). A capture that was requested before the buyer
  approved the payment stays recorded and makes `pay` and `cancel` answer 409, although the page after a
  cancelled payment says it can be restarted at any time.
* **A logout is not instant** (`logout_instant`). `README.md:49` says it is. A verification that read the row
  before the logout stores it in Redis afterwards, and later requests are let through until the entry expires.
  `LogoutWins` shows that this ends; `LateRequestsNeedStrays` proves that a stray copy is the only way past a logout.

A capture may also answer with an order that is cancelled already, although `orders.openapi.yaml` promises status
`PAID`: the order is read again after the operation has committed, and a cancel may run in between. The answer is
true when it is read, so this is noted here and not counted as a defect.

`README.md:209` says that the gateway sends an event to all connections of its owner. That is so with one replica of the
gateway, as in `docker-compose.yml`. Several replicas would share the consumer group of `main.ts:107`, and an event would
reach the streams of one of them; `TakenElsewhere` models it and `missed` records it, but no run counts it as a defect.

## 7. What is left out

* The scans of the recovery jobs take the 100 oldest rows and `nextAttemptAt` delays a failed operation; the
  model takes any row. That rows which can never succeed starve others is a hazard without a property yet.
* An administrator's absolute stock number overwrites reservations made since the page was read
  (`products.service.ts:178`). StockLedger books the difference as supplied: the code has nothing to compare it
  with, so no property is about it.
* `recoverStockIntent` also meets orders that coexist with their intent, left by manual recovery or older
  deployments (`orders.service.ts:192`). The model starts without such rows, and `ImplementsPlacement` shows that
  this code never makes one.
* In OrderOperations the stock is the set of released orders, since the ledger itself is checked in StockLedger:
  releasing twice is harmless there. Prices, items and the order's owner are left out; a refusal is `Fail`.
* PayPal is what Orders sees of it: a payment is created, approved, captured, refunded. That an answer lacks
  the id of the capture is a choice of `Capture`. Its memory of request ids and partial refunds are left out.
* Users are only inserted, and the unique index on the address decides between two registrations (the second
  gets an internal error instead of the 409 of the check before it). Nothing updates or removes a user, so
  cached copies are never old: a model would restate the index. Passwords and the life time of the access token
  are left out, too; an expired token ends a stream in EventStreams.
* The access token of PayPal has no effect beyond calls that fail, which OrderOperations has.
* In EventStreams a client takes the answer of a reload at the moment it is read: REST answers that overtake each
  other on their way back are the client's affair. A commit of Orders always goes on to `Emit`, which may lose the
  event; some commits (`pay`) send none, and the client misses these as it misses a lost event. The recovery job
  publishes for the operations it finishes, like a request.
* `findMany` of Products (no cache), and the in-memory cache that every process has of its own without
  `REDIS_HOST`. The order lists of `findAll` only occur as copies of EventStreams; nothing is decided on them.
* Cart leaves out names, prices and totals, which are recomputed from the row on every write. That
  `order.created` also clears what was added after the order, and that two orders can be made from one
  cart before the first event arrives, is what the code does by design; the model has both, and
  `OrderedItemsLeave` says how far they go.
* Roles are read from the token and never change. A gateway that dies takes its streams with it; clients connect
  again as with `Disconnect`.
* Validation, configuration, logging, error mapping, migrations (their constraints and the repair of cancelled
  orders shape the initial states), start-up, Docker and the Bruno collections: no behaviour over time.

## 8. What could follow

* **Recovery**: both scans with their limit of 100 rows and the delays of `nextAttemptAt`: which rows starve.
* **Shop**: OrderCreation and OrderOperations over one StockLedger, so that units return exactly once over the
  whole life of an order.
