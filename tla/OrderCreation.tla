--------------------------- MODULE OrderCreation ---------------------------
(***************************************************************************)
(* Placing an order: create, recoverStock and recoverStockIntent of        *)
(* apps/orders/src/orders.service.ts on top of the stock ledger of         *)
(* Products. The row of stock_intents is committed before Products is      *)
(* called, its row lock fences the recovery jobs of all Orders replicas,   *)
(* and RESERVE_STOCK and RELEASE_STOCK are calls that time out after 5 s   *)
(* and that Products may still execute afterwards, in any order.           *)
(*                                                                         *)
(* A process is either the request that creates order o, named o itself,   *)
(* or a recovery job of some replica. Any process may crash at any step.   *)
(***************************************************************************)
EXTENDS StockLedger

CONSTANTS
  Crons,        \* recovery jobs, one per Orders replica
  Nobody

Processes == Orders \cup Crons

ASSUME CreationAssumption ==
  /\ Orders \cap Crons = {}
  /\ Nobody \notin Processes

VARIABLES
  orders,       \* ids in the orders table
  intents,      \* ids in the stock_intents table
  intentLock,   \* who holds the row lock of an intent
  cart,         \* items a creator read from the cart
  network,      \* calls to Products that were sent and not yet executed
  pc,           \* where every process is
  target,       \* the intent a process works on
  overtaken     \* history: orders with a release that outlived its sender

tables == <<orders, intents, intentLock>>
control == <<pc, target>>
creationVars == <<ledgerVars, tables, cart, network, control, overtaken>>

Calls ==
  [call : {"reserve", "release"}, order : Orders, from : Processes]
ReserveMsg(o) == [call |-> "reserve", order |-> o, from |-> o]
ReleaseMsg(x) == [call |-> "release", order |-> target[x], from |-> x]

Goto(x, label) == pc' = [pc EXCEPT ![x] = label]

\* ROLLBACK or COMMIT of x's transaction frees the intent row.
FreeIntent(x) ==
  intentLock' = [o \in Orders |->
                   IF intentLock[o] = x THEN Nobody ELSE intentLock[o]]

\* Where a process ends: a request answers an error, a job takes its next row.
Finish(x) == Goto(x, IF x \in Orders THEN "failed" ELSE "idle")

CreationInit ==
  /\ LedgerInit
  /\ orders = {}
  /\ intents = {}
  /\ intentLock = [o \in Orders |-> Nobody]
  /\ cart = [o \in Orders |-> NoItems]
  /\ network = {}
  /\ pc = [x \in Processes |-> IF x \in Orders THEN "new" ELSE "idle"]
  /\ target = [x \in Processes |-> IF x \in Orders THEN x ELSE Nobody]
  /\ overtaken = {}

----------------------------------------------------------------------------
(* create *)

\* Cart and product rows are read without locks; an empty cart, an unknown
\* product or too little stock ends the request before anything is written.
ReadCart(o, items) ==
  /\ pc[o] = "new"
  /\ Available(items)
  /\ cart' = [cart EXCEPT ![o] = items]
  /\ Goto(o, "intent")
  /\ UNCHANGED <<ledgerVars, tables, network, target, overtaken>>

RecordIntent(o) ==
  /\ pc[o] = "intent"
  /\ intents' = intents \cup {o}
  /\ Goto(o, "begin")
  /\ UNCHANGED <<ledgerVars, orders, intentLock, cart, network, target,
                 overtaken>>

\* findOneOrFail FOR UPDATE waits for the row, then RESERVE_STOCK is sent.
SendReserve(o) ==
  /\ pc[o] = "begin"
  /\ o \in intents
  /\ intentLock[o] = Nobody
  /\ intentLock' = [intentLock EXCEPT ![o] = o]
  /\ network' = network \cup {ReserveMsg(o)}
  /\ Goto(o, "reserving")
  /\ UNCHANGED <<ledgerVars, orders, intents, cart, target, overtaken>>

\* A recovery job was faster and deleted the row: findOneOrFail throws.
IntentGone(o) ==
  /\ pc[o] = "begin"
  /\ o \notin intents
  /\ Goto(o, "recover")
  /\ UNCHANGED <<ledgerVars, tables, cart, network, target, overtaken>>

\* The order row and the deleted intent commit together ...
CommittedIntentsKept(o) == intents
CommittedIntents(o) == intents \ {o}

CommitOrder(o) ==
  /\ pc[o] = "save"
  /\ orders' = orders \cup {o}
  /\ intents' = CommittedIntents(o)
  /\ FreeIntent(o)
  /\ \/ Goto(o, "done")
     \/ Goto(o, "recover")      \* ... though the acknowledgement may be lost
  /\ UNCHANGED <<ledgerVars, cart, network, target, overtaken>>

\* RESERVE_STOCK timed out, or a statement failed: rollback, then recover.
CreateFails(o) ==
  /\ pc[o] \in {"begin", "reserving", "save"}
  /\ FreeIntent(o)
  /\ Goto(o, "recover")
  /\ UNCHANGED <<ledgerVars, orders, intents, cart, network, target, overtaken>>

----------------------------------------------------------------------------
(* Products executes the calls, in any order; see StockLedger. *)

ExecuteReserve(m) ==
  /\ m \in network
  /\ m.call = "reserve"
  /\ network' = network \ {m}
  /\ \/ /\ Reserve(m.order, cart[m.order])
        /\ IF pc[m.from] = "reserving" THEN Goto(m.from, "save")
                                       ELSE UNCHANGED pc
        /\ UNCHANGED intentLock
     \/ /\ ReserveRefused(m.order, cart[m.order])
        /\ IF pc[m.from] = "reserving"
           THEN Goto(m.from, "recover") /\ FreeIntent(m.from)
           ELSE UNCHANGED <<pc, intentLock>>
        /\ UNCHANGED ledgerVars
  /\ UNCHANGED <<orders, intents, cart, target, overtaken>>

\* The answer only matters to a sender that still waits for it.
ExecuteRelease(m) ==
  /\ m \in network
  /\ m.call = "release"
  /\ network' = network \ {m}
  /\ Release(m.order, NoLegacy)
  /\ IF pc[m.from] = "releasing" /\ target[m.from] = m.order
     THEN Goto(m.from, "clear") ELSE UNCHANGED pc
  /\ UNCHANGED <<tables, cart, target, overtaken>>

----------------------------------------------------------------------------
(* recoverStockIntent, called by a failed create and by the job *)

\* recoverStock: rows of the scan are worked on one by one.
PickIntent(c, o) ==
  /\ pc[c] = "idle"
  /\ o \in intents
  /\ target' = [target EXCEPT ![c] = o]
  /\ Goto(c, "recover")
  /\ UNCHANGED <<ledgerVars, tables, cart, network, overtaken>>

\* FOR UPDATE SKIP LOCKED finds nothing if the row is gone or locked.
SkipsOnlyGone(o) == o \notin intents
SkipsLocked(o) == o \in intents => intentLock[o] # Nobody

SkipIntent(x) ==
  /\ pc[x] = "recover"
  /\ SkipsLocked(target[x])
  /\ Finish(x)
  /\ UNCHANGED <<ledgerVars, tables, cart, network, target, overtaken>>

\* The row is locked; without an order its stock is given back first.
LockIntent(x) ==
  /\ pc[x] = "recover"
  /\ ~ SkipsLocked(target[x])
  /\ intentLock' = [intentLock EXCEPT ![target[x]] = x]
  /\ IF target[x] \in orders
     THEN Goto(x, "clear") /\ UNCHANGED network
     ELSE /\ network' = network \cup {ReleaseMsg(x)}
          /\ Goto(x, "releasing")
  /\ UNCHANGED <<ledgerVars, orders, intents, cart, target, overtaken>>

\* DELETE of the row, whichever way the worker came.
ClearedIntentsOfOrders(x) == intents \ ({target[x]} \cap orders)
ClearedIntents(x) == intents \ {target[x]}

ClearIntent(x) ==
  /\ pc[x] = "clear"
  /\ intents' = ClearedIntents(x)
  /\ FreeIntent(x)
  /\ Finish(x)
  /\ UNCHANGED <<ledgerVars, orders, cart, network, target, overtaken>>

\* The sender gives up; Products may execute its call all the same, later.
Abandon(x) ==
  overtaken' = overtaken \cup
    {m.order : m \in {n \in network : n.call = "release" /\ n.from = x}}

\* RELEASE_STOCK timed out or a statement failed: rollback, the intent stays.
RecoveryFails(x) ==
  /\ pc[x] \in {"recover", "releasing", "clear"}
  /\ Abandon(x)
  /\ FreeIntent(x)
  /\ Finish(x)
  /\ UNCHANGED <<ledgerVars, orders, intents, cart, network, target>>

\* The replica dies: its transactions roll back, a request is never resumed.
Crash(x) ==
  /\ pc[x] \notin {"new", "idle", "done", "failed"}
  /\ Abandon(x)
  /\ FreeIntent(x)
  /\ Finish(x)
  /\ UNCHANGED <<ledgerVars, orders, intents, cart, network, target>>

----------------------------------------------------------------------------
Create(o) ==
  \/ \E items \in KnownBaskets : ReadCart(o, items)
  \/ RecordIntent(o) \/ SendReserve(o) \/ IntentGone(o)
  \/ CommitOrder(o) \/ CreateFails(o)

Recover(x) ==
  SkipIntent(x) \/ LockIntent(x) \/ ClearIntent(x) \/ RecoveryFails(x)

Execute == \E m \in network : ExecuteReserve(m) \/ ExecuteRelease(m)

\* Every request ended and nothing is left to recover.
Rest ==
  /\ \A o \in Orders : pc[o] \in {"new", "done", "failed"}
  /\ network = {} /\ intents = {}
  /\ UNCHANGED creationVars

CreationNext ==
  \/ \E o \in Orders : Create(o)
  \/ \E c \in Crons, o \in Orders : PickIntent(c, o)
  \/ \E x \in Processes : Recover(x) \/ Crash(x)
  \/ Execute
  \/ Rest

CreationSpec == CreationInit /\ [][CreationNext]_creationVars

\* The job's call is executed while the job still waits for the answer.
Answered(c) ==
  /\ pc[c] = "releasing"
  /\ \E m \in network : m.from = c /\ ExecuteRelease(m)

\* Requests run on and their calls time out. The job runs every 30 s and
\* reaches every intent that stays. Not every attempt of it on an intent
\* fails: Products is sometimes up and answers in time.
CreationFairSpec ==
  /\ CreationSpec
  /\ WF_creationVars(Execute)
  /\ \A x \in Orders : WF_creationVars(Create(x) \/ Recover(x))
  /\ \A c \in Crons : WF_creationVars(Recover(c))
  /\ \A c \in Crons, o \in Orders :
       /\ SF_creationVars(PickIntent(c, o))
       /\ SF_creationVars(target[c] = o /\ LockIntent(c))
       /\ SF_creationVars(target[c] = o /\ Answered(c))
       /\ SF_creationVars(target[c] = o /\ ClearIntent(c))

----------------------------------------------------------------------------
(* Properties *)

CreationTypeOK ==
  /\ LedgerTypeOK
  /\ orders \subseteq Orders
  /\ intents \subseteq Orders
  /\ intentLock \in [Orders -> Processes \cup {Nobody}]
  /\ cart \in [Orders -> ItemLists]
  /\ network \subseteq Calls
  /\ pc \in [Processes -> {"new", "intent", "begin", "reserving", "save",
                           "recover", "releasing", "clear",
                           "idle", "done", "failed"}]
  /\ target \in [Processes -> Orders \cup {Nobody}]
  /\ overtaken \subseteq Orders

\* "Saving the order and deleting this row run in one transaction": an order
\* never coexists with an intent that a recovery job could act on.
OrderReplacesIntent == orders \cap intents = {}

\* No units leak: whatever timed out, crashed or arrived late, a reservation
\* that holds units belongs to an order or is still on the recovery list. A
\* RESERVE_STOCK that is executed after the recovery meets its tombstone.
NoHoldWithoutRecord ==
  \A o \in Orders :
    ledger[o].status = "reserved" => o \in orders \cup intents

\* The fence: an order that was saved holds exactly the items it was made of.
\* Nobody took its stock back on the grounds that its creation had failed.
LiveOrderHoldsStock ==
  \A o \in orders : ledger[o] = Row("reserved", cart[o])

\* The row lock fences creators and jobs of all replicas against each other:
\* only a release that outlived its sender, and with it the sender's lock, can
\* take the stock of an order that was saved.
FencedOrderHoldsStock ==
  \A o \in orders \ overtaken : ledger[o] = Row("reserved", cart[o])

(* The inductive invariant behind NoHoldWithoutRecord, in named parts *)

\* A worker on an intent knows which, and only the creator saves its order.
TargetsKnown ==
  /\ \A x \in Processes : pc[x] = "idle" \/ target[x] \in Orders
  /\ \A o \in Orders : pc[o] \in {"new", "intent"} => o \notin orders

\* A RESERVE_STOCK still on its way meets a record or a tombstone.
ReservesAreCovered ==
  \A m \in network :
    m.call = "reserve" => \/ m.order \in orders \cup intents
                          \/ ledger[m.order].status = "released"

\* An intent is only deleted once its units are the order's or are back.
ClearsAreSafe ==
  \A x \in Processes :
    pc[x] = "clear" => \/ target[x] \in orders
                       \/ ledger[target[x]].status = "released"

CreationInvariant ==
  /\ CreationTypeOK /\ TargetsKnown
  /\ OrderReplacesIntent /\ NoHoldWithoutRecord
  /\ ReservesAreCovered /\ ClearsAreSafe

(* ... and the one behind FencedOrderHoldsStock *)

\* Whoever works under the row lock of an intent holds it, and the row is there.
LocksFence ==
  /\ \A o \in Orders : target[o] = o
  /\ \A x \in Processes :
       pc[x] \in {"reserving", "save", "releasing", "clear"} =>
         target[x] \in intents /\ intentLock[target[x]] = x

\* A release that did not outlive its sender is still being waited for.
ReleasesAreAwaited ==
  \A m \in network :
    m.call = "release" /\ m.order \notin overtaken =>
      pc[m.from] = "releasing" /\ target[m.from] = m.order

\* A creator saves its order knowing that Products reserved the items.
SavesAreReserved ==
  /\ \A m \in network : m.call = "reserve" => m.from = m.order
  /\ \A o \in Orders \ overtaken :
       pc[o] = "save" => ledger[o] = Row("reserved", cart[o])

FenceInvariant ==
  /\ CreationInvariant
  /\ LocksFence /\ ReleasesAreAwaited /\ SavesAreReserved
  /\ FencedOrderHoldsStock

\* Whatever the calls, locks and replicas do, an order is placed by the rules
\* of OrderPlacement: recorded, then reserved for, then saved or given back.
Placement == INSTANCE OrderPlacement WITH
  placed <- orders, recorded <- intents, late <- overtaken,
  units <- [o \in Orders |-> ledger[o].status]
ImplementsPlacement == Placement!Spec

\* The recovery list drains.
IntentsAreSettled ==
  \A o \in Orders : o \in intents ~> o \notin intents

\* A creation that failed for good gives its units back, for good.
FailedCreationReturnsStock ==
  \A o \in Orders :
    pc[o] = "failed" /\ o \notin orders ~> [](ledger[o].status # "reserved")
============================================================================
