------------------------ MODULE OrderCreation_proofs ------------------------
(***************************************************************************)
(* No units leak while orders are placed: CreationInvariant holds for any  *)
(* number of orders, recovery jobs and products, with crashes, timeouts    *)
(* and late calls. It rests on the facts about the ledger that             *)
(* StockLedger_proofs establishes for the calls Products executes.         *)
(***************************************************************************)
EXTENDS OrderCreation, StockLedger_proofs

\* What Orders keeps: its tables, the network and its processes.
OrdersSideOK ==
  /\ orders \subseteq Orders
  /\ intents \subseteq Orders
  /\ intentLock \in [Orders -> Processes \cup {Nobody}]
  /\ cart \in [Orders -> ItemLists]
  /\ network \subseteq Calls
  /\ pc \in [Processes -> {"new", "intent", "begin", "reserving", "save",
                           "recover", "releasing", "clear",
                           "idle", "done", "failed"}]
  /\ target \in [Processes -> Orders \cup {Nobody}]
  /\ overtaken \subseteq Orders

\* A reserve that is applied turns an absent row of its own order into a
\* reserved one, and touches no other row.
LEMMA ReserveOnLedger ==
  ASSUME LedgerTypeOK, NEW o \in Orders, NEW items, Reserve(o, items)
  PROVE  /\ \A q \in Orders : q # o => ledger'[q] = ledger[q]
         /\ ledger'[o] # ledger[o] => ledger[o].status = "absent"
<1>1. CASE MayReserve(o, items)
  <2>1. ledger' = [ledger EXCEPT ![o] = Row("reserved", items)]
        \/ UNCHANGED ledger
    BY DEF Reserve, ledgerVars
  <2>2. ledger[o].status = "absent"
    BY <1>1 DEF MayReserve
  <2> QED
    BY <2>1, <2>2 DEF LedgerTypeOK
<1>2. CASE UNCHANGED ledgerVars
  BY <1>2 DEF ledgerVars
<1> QED
  BY <1>1, <1>2 DEF Reserve

\* A release leaves a released row, and touches no other row.
LEMMA ReleaseOnLedger ==
  ASSUME LedgerTypeOK, NEW o \in Orders, NEW legacy, Release(o, legacy)
  PROVE  /\ \A q \in Orders : q # o => ledger'[q] = ledger[q]
         /\ ledger'[o].status = "released"
  BY DEF Release, RowAfterRelease, Row, LedgerTypeOK

\* Steps that touch neither table nor the ledger keep what is said of them.
LEMMA RecordsFrame ==
  UNCHANGED <<ledgerVars, orders, intents>> =>
    /\ (OrderReplacesIntent => OrderReplacesIntent')
    /\ (NoHoldWithoutRecord => NoHoldWithoutRecord')
    /\ (LedgerTypeOK => LedgerTypeOK')
  BY DEF OrderReplacesIntent, NoHoldWithoutRecord, LedgerTypeOK, ledgerVars

\* The creator reads the cart and the products.
LEMMA ReadCartPreserves ==
  ASSUME CreationInvariant, NEW o \in Orders, NEW items \in KnownBaskets,
         ReadCart(o, items)
  PROVE  CreationInvariant'
<1> USE DEF CreationInvariant, ReadCart, tables
<1>1. OrderReplacesIntent' /\ NoHoldWithoutRecord' /\ LedgerTypeOK'
  BY RecordsFrame DEF CreationTypeOK
<1>2. items \in ItemLists
  BY LedgerAssumption DEF KnownBaskets
<1>3. OrdersSideOK'
  BY <1>2 DEF CreationTypeOK, OrdersSideOK, Goto
<1>4. TargetsKnown'
  BY DEF TargetsKnown, CreationTypeOK, Goto, Processes
<1>5. ReservesAreCovered' /\ ClearsAreSafe'
  BY DEF ReservesAreCovered, ClearsAreSafe, CreationTypeOK, Goto, ledgerVars
<1> QED
  BY <1>1, <1>3, <1>4, <1>5 DEF CreationTypeOK, OrdersSideOK

\* The intent is committed.
LEMMA RecordIntentPreserves ==
  ASSUME CreationInvariant, NEW o \in Orders, RecordIntent(o)
  PROVE  CreationInvariant'
<1> USE DEF CreationInvariant, RecordIntent
<1>1. o \notin orders
  BY DEF TargetsKnown
<1>2. OrderReplacesIntent' /\ NoHoldWithoutRecord' /\ LedgerTypeOK'
  BY <1>1 DEF OrderReplacesIntent, NoHoldWithoutRecord, CreationTypeOK,
              LedgerTypeOK, ledgerVars
<1>3. OrdersSideOK'
  BY DEF CreationTypeOK, OrdersSideOK, Goto
<1>4. TargetsKnown'
  BY DEF TargetsKnown, CreationTypeOK, Goto, Processes
<1>5. ReservesAreCovered' /\ ClearsAreSafe'
  BY DEF ReservesAreCovered, ClearsAreSafe, CreationTypeOK, Goto, ledgerVars
<1> QED
  BY <1>2, <1>3, <1>4, <1>5 DEF CreationTypeOK, OrdersSideOK

\* The creator locks its intent and calls Products: the call is covered by
\* the intent it has just locked.
LEMMA SendReservePreserves ==
  ASSUME CreationInvariant, NEW o \in Orders, SendReserve(o)
  PROVE  CreationInvariant'
<1> USE DEF CreationInvariant, SendReserve
<1>1. OrderReplacesIntent' /\ NoHoldWithoutRecord' /\ LedgerTypeOK'
  BY RecordsFrame DEF CreationTypeOK
<1>2. OrdersSideOK'
  BY DEF CreationTypeOK, OrdersSideOK, Goto, Processes, ReserveMsg, Calls
<1>3. TargetsKnown'
  BY DEF TargetsKnown, CreationTypeOK, Goto, Processes
<1>4. ReservesAreCovered' /\ ClearsAreSafe'
  BY DEF ReservesAreCovered, ClearsAreSafe, CreationTypeOK, Goto, ledgerVars,
         ReserveMsg
<1> QED
  BY <1>1, <1>2, <1>3, <1>4 DEF CreationTypeOK, OrdersSideOK

\* The creator finds its intent gone, or something fails.
LEMMA CreateEndsPreserves ==
  ASSUME CreationInvariant, NEW o \in Orders, IntentGone(o) \/ CreateFails(o)
  PROVE  CreationInvariant'
<1> USE DEF CreationInvariant, IntentGone, CreateFails, tables
<1>1. OrderReplacesIntent' /\ NoHoldWithoutRecord' /\ LedgerTypeOK'
  BY RecordsFrame DEF CreationTypeOK
<1>2. OrdersSideOK'
  BY DEF CreationTypeOK, OrdersSideOK, Goto, FreeIntent
<1>3. TargetsKnown'
  BY DEF TargetsKnown, CreationTypeOK, Goto, Processes
<1>4. ReservesAreCovered' /\ ClearsAreSafe'
  BY DEF ReservesAreCovered, ClearsAreSafe, CreationTypeOK, Goto, ledgerVars
<1> QED
  BY <1>1, <1>2, <1>3, <1>4 DEF CreationTypeOK, OrdersSideOK

\* The order replaces the intent in one transaction.
LEMMA CommitOrderPreserves ==
  ASSUME CreationInvariant, NEW o \in Orders, CommitOrder(o)
  PROVE  CreationInvariant'
<1> USE DEF CreationInvariant, CommitOrder, CommittedIntents
<1>1. OrderReplacesIntent' /\ NoHoldWithoutRecord' /\ LedgerTypeOK'
  BY DEF OrderReplacesIntent, NoHoldWithoutRecord, CreationTypeOK,
         LedgerTypeOK, ledgerVars
<1>2. OrdersSideOK'
  BY DEF CreationTypeOK, OrdersSideOK, Goto, FreeIntent
<1>3. TargetsKnown'
  BY DEF TargetsKnown, CreationTypeOK, Goto, Processes
<1>4. ReservesAreCovered' /\ ClearsAreSafe'
  BY DEF ReservesAreCovered, ClearsAreSafe, CreationTypeOK, Goto, ledgerVars
<1> QED
  BY <1>1, <1>2, <1>3, <1>4 DEF CreationTypeOK, OrdersSideOK

\* Products executes a reserve, in time or late. If it takes the units, the
\* row was absent, so that the call is still covered by a record.
LEMMA ExecuteReservePreserves ==
  ASSUME CreationInvariant, NEW m \in network, ExecuteReserve(m)
  PROVE  CreationInvariant'
<1> USE DEF CreationInvariant
<1> DEFINE o == m.order
<1>1. o \in Orders /\ m.from \in Processes /\ cart[o] \in ItemLists
  BY DEF CreationTypeOK, Calls
<1>2. Reserve(o, cart[o]) \/ UNCHANGED ledgerVars
  BY DEF ExecuteReserve
<1>3. LedgerTypeOK'
  <2>1. CASE Reserve(o, cart[o])
    BY <1>1, <2>1, ReserveKeepsType DEF CreationTypeOK
  <2>2. CASE UNCHANGED ledgerVars
    BY <2>2 DEF ledgerVars, LedgerTypeOK, CreationTypeOK
  <2> QED
    BY <1>2, <2>1, <2>2
<1>4. /\ \A q \in Orders : q # o => ledger'[q] = ledger[q]
      /\ ledger'[o] # ledger[o] => ledger[o].status = "absent"
  <2>1. CASE Reserve(o, cart[o])
    BY <1>1, <2>1, ReserveOnLedger DEF CreationTypeOK
  <2>2. CASE UNCHANGED ledgerVars
    BY <2>2 DEF ledgerVars
  <2> QED
    BY <1>2, <2>1, <2>2
<1>5. /\ UNCHANGED <<orders, intents, cart, target, overtaken>>
      /\ network' \subseteq network
  BY DEF ExecuteReserve
<1>6. m.call = "reserve"
  BY DEF ExecuteReserve
<1>7. OrderReplacesIntent' /\ NoHoldWithoutRecord'
  BY <1>1, <1>4, <1>5, <1>6
     DEF OrderReplacesIntent, NoHoldWithoutRecord, ReservesAreCovered
<1>8. /\ pc' \in {pc, [pc EXCEPT ![m.from] = "save"],
                  [pc EXCEPT ![m.from] = "recover"]}
      /\ pc' # pc => pc[m.from] = "reserving"
  BY DEF ExecuteReserve, Goto
<1>9. intentLock' \in [Orders -> Processes \cup {Nobody}]
  BY DEF ExecuteReserve, FreeIntent, CreationTypeOK
<1>10. OrdersSideOK'
  BY <1>1, <1>5, <1>8, <1>9 DEF CreationTypeOK, OrdersSideOK
<1>11. TargetsKnown'
  BY <1>1, <1>5, <1>8 DEF TargetsKnown, CreationTypeOK, Processes
<1>12. ReservesAreCovered'
  BY <1>4, <1>5 DEF ReservesAreCovered, CreationTypeOK, Calls
<1>13. ClearsAreSafe'
  BY <1>4, <1>5, <1>8 DEF ClearsAreSafe, CreationTypeOK, TargetsKnown
<1> QED
  BY <1>3, <1>7, <1>10, <1>11, <1>12, <1>13 DEF CreationTypeOK, OrdersSideOK

\* Products executes a release, in time or late. A job that waits for it may
\* clear the intent: the row is released for good.
LEMMA ExecuteReleasePreserves ==
  ASSUME CreationInvariant, NEW m \in network, ExecuteRelease(m)
  PROVE  CreationInvariant'
<1> USE DEF CreationInvariant
<1> DEFINE o == m.order
<1>1. o \in Orders /\ m.from \in Processes
  BY DEF CreationTypeOK, Calls
<1>2. Release(o, NoLegacy)
  BY DEF ExecuteRelease
<1>3. LedgerTypeOK'
  BY <1>1, <1>2, ReleaseKeepsType DEF CreationTypeOK
<1>4. /\ \A q \in Orders : q # o => ledger'[q] = ledger[q]
      /\ ledger'[o].status = "released"
  BY <1>1, <1>2, ReleaseOnLedger DEF CreationTypeOK
<1>5. UNCHANGED <<orders, intents, intentLock, cart, target, overtaken>>
      /\ network' \subseteq network
  BY DEF ExecuteRelease, tables
<1>6. \/ pc' = pc
      \/ /\ pc' = [pc EXCEPT ![m.from] = "clear"]
         /\ pc[m.from] = "releasing" /\ target[m.from] = o
  BY DEF ExecuteRelease, Goto
<1>7. OrderReplacesIntent' /\ NoHoldWithoutRecord'
  BY <1>1, <1>4, <1>5 DEF OrderReplacesIntent, NoHoldWithoutRecord
<1>8. OrdersSideOK'
  BY <1>1, <1>5, <1>6 DEF CreationTypeOK, OrdersSideOK
<1>9. TargetsKnown'
  BY <1>1, <1>5, <1>6 DEF TargetsKnown, CreationTypeOK, Processes
<1>10. ReservesAreCovered'
  BY <1>4, <1>5 DEF ReservesAreCovered, CreationTypeOK, Calls
<1>11. ClearsAreSafe'
  BY <1>4, <1>5, <1>6 DEF ClearsAreSafe, CreationTypeOK, TargetsKnown
<1> QED
  BY <1>3, <1>7, <1>8, <1>9, <1>10, <1>11 DEF CreationTypeOK, OrdersSideOK

\* A job picks an intent, or finds it gone or locked.
LEMMA PickPreserves ==
  ASSUME CreationInvariant,
         \/ \E c \in Crons, o \in Orders : PickIntent(c, o)
         \/ \E x \in Processes : SkipIntent(x)
  PROVE  CreationInvariant'
<1> USE DEF CreationInvariant, PickIntent, SkipIntent, tables
<1>1. OrderReplacesIntent' /\ NoHoldWithoutRecord' /\ LedgerTypeOK'
  BY RecordsFrame DEF CreationTypeOK
<1>2. OrdersSideOK'
  BY DEF CreationTypeOK, OrdersSideOK, Goto, Finish, Processes
<1>3. TargetsKnown'
  BY CreationAssumption
     DEF TargetsKnown, CreationTypeOK, Goto, Finish, Processes
<1>4. ReservesAreCovered' /\ ClearsAreSafe'
  BY DEF ReservesAreCovered, ClearsAreSafe, CreationTypeOK, Goto, Finish,
         ledgerVars
<1> QED
  BY <1>1, <1>2, <1>3, <1>4 DEF CreationTypeOK, OrdersSideOK

\* The intent is locked; without an order the release is sent.
LEMMA LockIntentPreserves ==
  ASSUME CreationInvariant, NEW x \in Processes, LockIntent(x)
  PROVE  CreationInvariant'
<1> USE DEF CreationInvariant, LockIntent
<1>1. target[x] \in Orders
  BY DEF TargetsKnown
<1>2. OrderReplacesIntent' /\ NoHoldWithoutRecord' /\ LedgerTypeOK'
  BY RecordsFrame DEF CreationTypeOK
<1>3. OrdersSideOK'
  BY <1>1 DEF CreationTypeOK, OrdersSideOK, Goto, ReleaseMsg, Calls
<1>4. TargetsKnown'
  BY DEF TargetsKnown, CreationTypeOK, Goto, Processes
<1>5. ReservesAreCovered' /\ ClearsAreSafe'
  BY DEF ReservesAreCovered, ClearsAreSafe, CreationTypeOK, Goto, ledgerVars,
         ReleaseMsg
<1> QED
  BY <1>2, <1>3, <1>4, <1>5 DEF CreationTypeOK, OrdersSideOK

\* The intent is deleted: its units are the order's, or are back.
LEMMA ClearIntentPreserves ==
  ASSUME CreationInvariant, NEW x \in Processes, ClearIntent(x)
  PROVE  CreationInvariant'
<1> USE DEF CreationInvariant, ClearIntent, ClearedIntents
<1>1. /\ target[x] \in Orders
      /\ target[x] \in orders \/ ledger[target[x]].status = "released"
  BY DEF TargetsKnown, ClearsAreSafe
<1>2. OrderReplacesIntent' /\ LedgerTypeOK'
  BY DEF OrderReplacesIntent, CreationTypeOK, LedgerTypeOK, ledgerVars
<1>3. NoHoldWithoutRecord'
  BY <1>1 DEF NoHoldWithoutRecord, ledgerVars
<1>4. OrdersSideOK'
  BY DEF CreationTypeOK, OrdersSideOK, Goto, Finish, FreeIntent
<1>5. TargetsKnown'
  BY DEF TargetsKnown, CreationTypeOK, Goto, Finish, Processes
<1>6. ReservesAreCovered'
  BY <1>1 DEF ReservesAreCovered, ledgerVars
<1>7. ClearsAreSafe'
  BY DEF ClearsAreSafe, CreationTypeOK, Goto, Finish, ledgerVars
<1> QED
  BY <1>2, <1>3, <1>4, <1>5, <1>6, <1>7 DEF CreationTypeOK, OrdersSideOK

\* A recovery fails or a replica dies: tables and ledger stay as they are.
LEMMA GiveUpPreserves ==
  ASSUME CreationInvariant, NEW x \in Processes, RecoveryFails(x) \/ Crash(x)
  PROVE  CreationInvariant'
<1> USE DEF CreationInvariant, RecoveryFails, Crash
<1>1. OrderReplacesIntent' /\ NoHoldWithoutRecord' /\ LedgerTypeOK'
  BY RecordsFrame DEF CreationTypeOK
<1>2. overtaken' \subseteq Orders
  BY DEF Abandon, CreationTypeOK, Calls
<1>3. OrdersSideOK'
  BY <1>2 DEF CreationTypeOK, OrdersSideOK, Goto, Finish, FreeIntent
<1>4. TargetsKnown'
  BY DEF TargetsKnown, CreationTypeOK, Goto, Finish, Processes
<1>5. ReservesAreCovered' /\ ClearsAreSafe'
  BY DEF ReservesAreCovered, ClearsAreSafe, CreationTypeOK, Goto, Finish,
         ledgerVars
<1> QED
  BY <1>1, <1>3, <1>4, <1>5 DEF CreationTypeOK, OrdersSideOK

\* Every step keeps the invariant.
LEMMA CreationStep ==
  ASSUME CreationInvariant, [CreationNext]_creationVars
  PROVE  CreationInvariant'
<1>1. ASSUME NEW o \in Orders, Create(o)
      PROVE  CreationInvariant'
  BY <1>1, ReadCartPreserves, RecordIntentPreserves, SendReservePreserves,
     CreateEndsPreserves, CommitOrderPreserves
     DEF Create
<1>2. CASE \E c \in Crons, o \in Orders : PickIntent(c, o)
  BY <1>2, PickPreserves
<1>3. ASSUME NEW x \in Processes, Recover(x) \/ Crash(x)
      PROVE  CreationInvariant'
  BY <1>3, PickPreserves, LockIntentPreserves, ClearIntentPreserves,
     GiveUpPreserves
     DEF Recover
<1>4. CASE Execute
  BY <1>4, ExecuteReservePreserves, ExecuteReleasePreserves DEF Execute
<1>5. CASE UNCHANGED creationVars
  BY <1>5
     DEF creationVars, ledgerVars, tables, control, CreationInvariant,
         CreationTypeOK, LedgerTypeOK, TargetsKnown, OrderReplacesIntent,
         NoHoldWithoutRecord, ReservesAreCovered, ClearsAreSafe
<1> QED
  BY <1>1, <1>2, <1>3, <1>4, <1>5 DEF CreationNext, Rest

\* It holds at the start, when there is neither order nor reservation.
LEMMA CreationStart == CreationInit => CreationInvariant
<1> SUFFICES ASSUME CreationInit PROVE CreationInvariant
  OBVIOUS
<1>1. LedgerTypeOK
  BY LedgerInitType DEF CreationInit
<1>2. OrdersSideOK
  BY NoItemsIsList DEF CreationInit, OrdersSideOK, Processes
<1>3. TargetsKnown /\ OrderReplacesIntent
  BY CreationAssumption
     DEF CreationInit, TargetsKnown, OrderReplacesIntent, Processes
<1>4. NoHoldWithoutRecord
  BY DEF CreationInit, LedgerInit, NoHoldWithoutRecord, AbsentRow, Row
<1>5. ReservesAreCovered /\ ClearsAreSafe
  BY DEF CreationInit, ReservesAreCovered, ClearsAreSafe
<1> QED
  BY <1>1, <1>2, <1>3, <1>4, <1>5
     DEF CreationInvariant, CreationTypeOK, OrdersSideOK

----------------------------------------------------------------------------
(* The theorems *)

\* The strengthened invariant holds in every reachable state.
THEOREM CreationInvariance == CreationSpec => []CreationInvariant
  BY CreationStart, CreationStep, PTL DEF CreationSpec

\* Tables, ledger, calls and processes keep their types.
THEOREM CreationTypeCorrect == CreationSpec => []CreationTypeOK
<1>1. CreationInvariant => CreationTypeOK
  BY DEF CreationInvariant
<1> QED
  BY <1>1, CreationInvariance, PTL

\* Order and intent never coexist, so that no recovery acts on an order.
THEOREM OrderOrIntent == CreationSpec => []OrderReplacesIntent
<1>1. CreationInvariant => OrderReplacesIntent
  BY DEF CreationInvariant
<1> QED
  BY <1>1, CreationInvariance, PTL

\* Units are only held for an order or under a record of stock_intents:
\* whatever crashed, timed out or came late, somebody will give them back.
THEOREM NoUnitsLeak == CreationSpec => []NoHoldWithoutRecord
<1>1. CreationInvariant => NoHoldWithoutRecord
  BY DEF CreationInvariant
<1> QED
  BY <1>1, CreationInvariance, PTL

----------------------------------------------------------------------------
(***************************************************************************)
(* The row lock of an intent fences creators and recovery jobs: as long as *)
(* no release outlived its sender, an order that was saved keeps exactly   *)
(* the items it was made of. FenceInvariant follows the lock: who works    *)
(* under it holds it, a release is only sent under it, and a creator only  *)
(* saves its order under it, when Products has reserved the items.         *)
(***************************************************************************)

\* What FenceInvariant adds to CreationInvariant.
Fence ==
  /\ LocksFence /\ ReleasesAreAwaited /\ SavesAreReserved
  /\ FencedOrderHoldsStock

\* The creator on its way to the lock: nothing it does is under a lock yet.
LEMMA PrepareFence ==
  ASSUME FenceInvariant, NEW o \in Orders,
         \/ \E items \in KnownBaskets : ReadCart(o, items)
         \/ RecordIntent(o) \/ IntentGone(o)
  PROVE  Fence'
<1> USE DEF FenceInvariant, CreationInvariant, ReadCart, RecordIntent,
            IntentGone, tables, Goto, CreationTypeOK
<1>1. pc[o] \in {"new", "intent", "begin"} /\ pc[o] # "begin" => o \notin orders
  BY DEF TargetsKnown
<1>2. LocksFence'
  BY DEF LocksFence, Processes
<1>3. ReleasesAreAwaited'
  BY <1>1 DEF ReleasesAreAwaited, Calls, Processes
<1>4. SavesAreReserved'
  BY <1>1 DEF SavesAreReserved, ledgerVars, Processes
<1>5. FencedOrderHoldsStock'
  BY <1>1 DEF FencedOrderHoldsStock, ledgerVars
<1> QED
  BY <1>2, <1>3, <1>4, <1>5 DEF Fence

\* The creator takes the lock, and calls Products under it.
LEMMA SendReserveFence ==
  ASSUME FenceInvariant, NEW o \in Orders, SendReserve(o)
  PROVE  Fence'
<1> USE DEF FenceInvariant, CreationInvariant, SendReserve, Goto, CreationTypeOK
<1>1. LocksFence'
  BY CreationAssumption DEF LocksFence, Processes
<1>2. ReleasesAreAwaited'
  BY DEF ReleasesAreAwaited, Calls, ReserveMsg
<1>3. SavesAreReserved'
  BY DEF SavesAreReserved, ledgerVars, ReserveMsg, Processes
<1>4. FencedOrderHoldsStock'
  BY DEF FencedOrderHoldsStock, ledgerVars
<1> QED
  BY <1>1, <1>2, <1>3, <1>4 DEF Fence

\* The order is saved by the holder of the lock, with its items reserved.
LEMMA CommitOrderFence ==
  ASSUME FenceInvariant, NEW o \in Orders, CommitOrder(o)
  PROVE  Fence'
<1> USE DEF FenceInvariant, CreationInvariant, CommitOrder, CommittedIntents,
            Goto, CreationTypeOK
<1>1. intentLock[o] = o
  BY DEF LocksFence, Processes
<1>2. LocksFence'
  BY <1>1 DEF LocksFence, FreeIntent, Processes
<1>3. ReleasesAreAwaited'
  BY DEF ReleasesAreAwaited, Calls
<1>4. SavesAreReserved'
  BY DEF SavesAreReserved, ledgerVars, Processes
<1>5. FencedOrderHoldsStock'
  BY DEF FencedOrderHoldsStock, SavesAreReserved, ledgerVars
<1> QED
  BY <1>2, <1>3, <1>4, <1>5 DEF Fence

\* The creator fails, and its lock is freed.
LEMMA CreateFailsFence ==
  ASSUME FenceInvariant, NEW o \in Orders, CreateFails(o)
  PROVE  Fence'
<1> USE DEF FenceInvariant, CreationInvariant, CreateFails, Goto, CreationTypeOK
<1>1. LocksFence'
  BY DEF LocksFence, FreeIntent, Processes
<1>2. ReleasesAreAwaited'
  BY DEF ReleasesAreAwaited, Calls
<1>3. SavesAreReserved'
  BY DEF SavesAreReserved, ledgerVars, Processes
<1>4. FencedOrderHoldsStock'
  BY DEF FencedOrderHoldsStock, ledgerVars
<1> QED
  BY <1>1, <1>2, <1>3, <1>4 DEF Fence

\* A reserve that is applied, now or before, leaves its items reserved.
LEMMA ReserveGives ==
  ASSUME LedgerTypeOK, NEW o \in Orders, NEW items, Reserve(o, items)
  PROVE  /\ ledger'[o] = Row("reserved", items)
         /\ \A q \in Orders : q # o => ledger'[q] = ledger[q]
<1>1. CASE MayReserve(o, items)
  BY <1>1 DEF Reserve, MayReserve, AlreadyReserved, LedgerTypeOK, ledgerVars, Row
<1>2. CASE AlreadyReserved(o, items)
  BY <1>2 DEF Reserve, MayReserve, AlreadyReserved, LedgerTypeOK, ledgerVars, Row
<1> QED
  BY <1>1, <1>2 DEF Reserve

\* Products executes a reserve. It touches the row of its own order alone,
\* and only makes it hold the items of that order.
LEMMA ExecuteReserveFence ==
  ASSUME FenceInvariant, NEW m \in network, ExecuteReserve(m)
  PROVE  Fence'
<1> USE DEF FenceInvariant, CreationInvariant
<1> DEFINE o == m.order
<1>1. o \in Orders /\ m.from = o /\ network \subseteq Calls /\ o \in Processes
  BY DEF CreationTypeOK, Calls, SavesAreReserved, ExecuteReserve, Processes
<1>2. /\ UNCHANGED <<orders, intents, cart, target, overtaken>>
      /\ network' \subseteq network
  BY DEF ExecuteReserve
<1>3. /\ pc' = pc \/ pc' = [pc EXCEPT ![o] = "save"]
                  \/ pc' = [pc EXCEPT ![o] = "recover"]
      /\ pc' # pc => pc[o] = "reserving"
  BY <1>1 DEF ExecuteReserve, Goto
<1>4. /\ intentLock' = intentLock \/ FreeIntent(o)
      /\ intentLock' # intentLock => pc' = [pc EXCEPT ![o] = "recover"]
  BY <1>1 DEF ExecuteReserve, Goto
<1>5. /\ \A q \in Orders : q # o => ledger'[q] = ledger[q]
      /\ \/ ledger'[o] = Row("reserved", cart[o])
         \/ ledger' = ledger /\ pc' \in {pc, [pc EXCEPT ![o] = "recover"]}
  <2>1. CASE Reserve(o, cart[o])
    BY <1>1, <2>1, ReserveGives DEF CreationTypeOK
  <2>2. CASE ~ Reserve(o, cart[o])
    BY <1>1, <2>2 DEF ExecuteReserve, Goto, ledgerVars
  <2> QED
    BY <2>1, <2>2
<1>6. LocksFence'
  BY <1>1, <1>2, <1>3, <1>4
     DEF LocksFence, FreeIntent, CreationTypeOK, Processes
<1>7. ReleasesAreAwaited'
  BY <1>1, <1>2, <1>3 DEF ReleasesAreAwaited, CreationTypeOK, Calls
<1>8. SavesAreReserved'
  BY <1>1, <1>2, <1>3, <1>5 DEF SavesAreReserved, CreationTypeOK, Processes
<1>9. FencedOrderHoldsStock'
  BY <1>1, <1>2, <1>5 DEF FencedOrderHoldsStock, CreationTypeOK
<1> QED
  BY <1>6, <1>7, <1>8, <1>9 DEF Fence

\* Products executes a release. If it is awaited, its sender holds the lock:
\* the order is not saved, and its creator is not about to save it.
LEMMA ExecuteReleaseFence ==
  ASSUME FenceInvariant, NEW m \in network, ExecuteRelease(m)
  PROVE  Fence'
<1> USE DEF FenceInvariant, CreationInvariant
<1> DEFINE o == m.order
           x == m.from
<1>1. /\ o \in Orders /\ x \in Processes /\ network \subseteq Calls
      /\ m.call = "release"
  BY DEF CreationTypeOK, Calls, ExecuteRelease
<1>2. /\ UNCHANGED <<orders, intents, intentLock, cart, target, overtaken>>
      /\ network' = network \ {m}
  BY DEF ExecuteRelease, tables
<1>3. \/ pc' = pc /\ ~ (pc[x] = "releasing" /\ target[x] = o)
      \/ /\ pc' = [pc EXCEPT ![x] = "clear"]
         /\ pc[x] = "releasing" /\ target[x] = o
  BY DEF ExecuteRelease, Goto
<1>4. \A q \in Orders : q # o => ledger'[q] = ledger[q]
  BY <1>1, ReleaseOnLedger DEF CreationTypeOK, ExecuteRelease
<1>5. o \notin overtaken => /\ o \notin orders
                            /\ pc[o] # "save"
  <2> SUFFICES ASSUME o \notin overtaken
               PROVE  o \notin orders /\ pc[o] # "save"
    OBVIOUS
  <2>1. pc[x] = "releasing" /\ target[x] = o
    BY <1>1 DEF ReleasesAreAwaited
  <2>2. o \in intents /\ intentLock[o] = x
    BY <1>1, <2>1 DEF LocksFence
  <2>3. o \notin orders
    BY <2>2 DEF OrderReplacesIntent
  <2>4. pc[o] # "save"
    BY <1>1, <2>1, <2>2 DEF LocksFence, Processes
  <2> QED
    BY <2>3, <2>4
<1>6. LocksFence'
  BY <1>1, <1>2, <1>3 DEF LocksFence, CreationTypeOK
<1>7. ReleasesAreAwaited'
  BY <1>1, <1>2, <1>3 DEF ReleasesAreAwaited, CreationTypeOK, Calls
<1>8. SavesAreReserved'
  <2>1. \A n \in network' : n.call = "reserve" => n.from = n.order
    BY <1>2 DEF SavesAreReserved
  <2>2. ASSUME NEW q \in Orders \ overtaken, pc'[q] = "save"
        PROVE  ledger'[q] = Row("reserved", cart[q])
    <3>1. pc[q] = "save"
      BY <1>1, <1>3, <2>2 DEF CreationTypeOK, Processes
    <3> QED
      BY <3>1, <1>4, <1>5 DEF SavesAreReserved
  <2> QED
    BY <1>2, <2>1, <2>2 DEF SavesAreReserved
<1>9. FencedOrderHoldsStock'
  BY <1>2, <1>4, <1>5 DEF FencedOrderHoldsStock, CreationTypeOK
<1> QED
  BY <1>6, <1>7, <1>8, <1>9 DEF Fence

\* A job picks an intent, or finds it gone or locked.
LEMMA PickFence ==
  ASSUME FenceInvariant,
         \/ \E c \in Crons, o \in Orders : PickIntent(c, o)
         \/ \E x \in Processes : SkipIntent(x)
  PROVE  Fence'
<1> USE DEF FenceInvariant, CreationInvariant, PickIntent, SkipIntent, tables,
            Goto, Finish, CreationTypeOK
<1>1. LocksFence'
  BY CreationAssumption DEF LocksFence, Processes
<1>2. ReleasesAreAwaited'
  BY DEF ReleasesAreAwaited, Calls
<1>3. SavesAreReserved'
  BY DEF SavesAreReserved, ledgerVars, Processes
<1>4. FencedOrderHoldsStock'
  BY DEF FencedOrderHoldsStock, ledgerVars
<1> QED
  BY <1>1, <1>2, <1>3, <1>4 DEF Fence

\* Recovery takes a free lock, and sends its release under it.
LEMMA LockIntentFence ==
  ASSUME FenceInvariant, NEW x \in Processes, LockIntent(x)
  PROVE  Fence'
<1> USE DEF FenceInvariant, CreationInvariant, LockIntent, Goto, CreationTypeOK
<1>1. target[x] \in intents /\ intentLock[target[x]] = Nobody
  BY DEF SkipsLocked
<1>2. LocksFence'
  BY <1>1, CreationAssumption DEF LocksFence
<1>3. ReleasesAreAwaited'
  BY DEF ReleasesAreAwaited, Calls, ReleaseMsg
<1>4. SavesAreReserved'
  BY DEF SavesAreReserved, ledgerVars, ReleaseMsg, Processes
<1>5. FencedOrderHoldsStock'
  BY DEF FencedOrderHoldsStock, ledgerVars
<1> QED
  BY <1>2, <1>3, <1>4, <1>5 DEF Fence

\* The holder of the lock deletes the intent and frees the lock.
LEMMA ClearIntentFence ==
  ASSUME FenceInvariant, NEW x \in Processes, ClearIntent(x)
  PROVE  Fence'
<1> USE DEF FenceInvariant, CreationInvariant, ClearIntent, ClearedIntents,
            Goto, Finish, CreationTypeOK
<1>1. intentLock[target[x]] = x
  BY DEF LocksFence
<1>2. LocksFence'
  BY <1>1 DEF LocksFence, FreeIntent
<1>3. ReleasesAreAwaited'
  BY DEF ReleasesAreAwaited, Calls
<1>4. SavesAreReserved'
  BY DEF SavesAreReserved, ledgerVars, Processes
<1>5. FencedOrderHoldsStock'
  BY DEF FencedOrderHoldsStock, ledgerVars
<1> QED
  BY <1>2, <1>3, <1>4, <1>5 DEF Fence

\* A worker gives up: its lock is freed, and a release it sent is on the loose.
LEMMA GiveUpFence ==
  ASSUME FenceInvariant, NEW x \in Processes, RecoveryFails(x) \/ Crash(x)
  PROVE  Fence'
<1> USE DEF FenceInvariant, CreationInvariant, RecoveryFails, Crash, Goto,
            Finish, CreationTypeOK
<1>1. LocksFence'
  BY DEF LocksFence, FreeIntent
<1>2. ReleasesAreAwaited'
  <2>1. ASSUME NEW m \in network, m.call = "release", m.order \notin overtaken'
        PROVE  m.from # x /\ m.order \notin overtaken
    BY <2>1 DEF Abandon
  <2> QED
    BY <2>1 DEF ReleasesAreAwaited, Calls
<1>3. overtaken \subseteq overtaken'
  BY DEF Abandon
<1>4. SavesAreReserved'
  BY <1>3 DEF SavesAreReserved, ledgerVars, Processes
<1>5. FencedOrderHoldsStock'
  BY <1>3 DEF FencedOrderHoldsStock, ledgerVars
<1> QED
  BY <1>1, <1>2, <1>4, <1>5 DEF Fence

\* Every step keeps the fence.
LEMMA FenceStep ==
  ASSUME FenceInvariant, [CreationNext]_creationVars
  PROVE  FenceInvariant'
<1>1. SUFFICES Fence'
  BY CreationStep DEF FenceInvariant, Fence
<1>2. ASSUME NEW o \in Orders, Create(o)
      PROVE  Fence'
  BY <1>2, PrepareFence, SendReserveFence, CommitOrderFence, CreateFailsFence
     DEF Create
<1>3. CASE \E c \in Crons, o \in Orders : PickIntent(c, o)
  BY <1>3, PickFence
<1>4. ASSUME NEW x \in Processes, Recover(x) \/ Crash(x)
      PROVE  Fence'
  BY <1>4, PickFence, LockIntentFence, ClearIntentFence, GiveUpFence
     DEF Recover
<1>5. CASE Execute
  BY <1>5, ExecuteReserveFence, ExecuteReleaseFence DEF Execute
<1>6. CASE UNCHANGED creationVars
  BY <1>6
     DEF creationVars, ledgerVars, tables, control, FenceInvariant, Fence,
         LocksFence, ReleasesAreAwaited, SavesAreReserved,
         FencedOrderHoldsStock
<1> QED
  BY <1>2, <1>3, <1>4, <1>5, <1>6 DEF CreationNext, Rest

\* At the start nobody works under a lock.
LEMMA FenceStart == CreationInit => FenceInvariant
<1> SUFFICES ASSUME CreationInit PROVE FenceInvariant
  OBVIOUS
<1>1. CreationInvariant
  BY CreationStart
<1>2. LocksFence
  BY DEF CreationInit, LocksFence, Processes
<1>3. ReleasesAreAwaited /\ SavesAreReserved /\ FencedOrderHoldsStock
  BY DEF CreationInit, ReleasesAreAwaited, SavesAreReserved,
         FencedOrderHoldsStock, Processes
<1> QED
  BY <1>1, <1>2, <1>3 DEF FenceInvariant

----------------------------------------------------------------------------
(* The theorems *)

\* The strengthened invariant holds in every reachable state.
THEOREM FenceInvariance == CreationSpec => []FenceInvariant
  BY FenceStart, FenceStep, PTL DEF CreationSpec

\* The only way to lose the stock of a saved order is a RELEASE_STOCK that
\* Products executes after its sender gave up: the row lock prevents the rest.
THEOREM FenceHolds == CreationSpec => []FencedOrderHoldsStock
<1>1. FenceInvariant => FencedOrderHoldsStock
  BY DEF FenceInvariant
<1> QED
  BY <1>1, FenceInvariance, PTL

----------------------------------------------------------------------------
(***************************************************************************)
(* OrderCreation implements OrderPlacement. Beside the fence, the proof    *)
(* needs to know that nothing precedes the record of an order, and that an *)
(* order is only saved after its RESERVE_STOCK was executed.               *)
(***************************************************************************)

\* Before its record is written, an order exists nowhere.
Fresh(o) ==
  /\ o \notin orders \cup intents /\ ledger[o].status = "absent"
  /\ \A m \in network : m.order # o
NothingPrecedesRecords ==
  \A o \in Orders : pc[o] \in {"new", "intent"} => Fresh(o)

\* Products has executed the call an order was saved on.
SavedHaveRows ==
  \A o \in Orders :
    o \in orders \/ pc[o] = "save" => ledger[o].status # "absent"

PlacementInvariant ==
  FenceInvariant /\ NothingPrecedesRecords /\ SavedHaveRows

\* Rows of the ledger only change when Products executes a call for them, and
\* are never absent again.
LEMMA LedgerMoves ==
  ASSUME FenceInvariant, [CreationNext]_creationVars, NEW o \in Orders
  PROVE  /\ ledger'[o] # ledger[o] => \E m \in network : m.order = o
         /\ ledger[o].status # "absent" => ledger'[o].status # "absent"
<1> USE DEF FenceInvariant, CreationInvariant, CreationTypeOK
<1>1. ASSUME NEW m \in network, ExecuteReserve(m)
      PROVE  /\ ledger'[o] # ledger[o] => m.order = o
             /\ ledger[o].status # "absent" => ledger'[o].status # "absent"
  <2>1. m.order \in Orders
    BY DEF Calls
  <2>2. CASE Reserve(m.order, cart[m.order])
    <3>1. /\ ledger'[m.order] = Row("reserved", cart[m.order])
          /\ \A q \in Orders : q # m.order => ledger'[q] = ledger[q]
      BY <2>1, <2>2, ReserveGives
    <3> QED
      BY <3>1 DEF Row
  <2>3. CASE ~ Reserve(m.order, cart[m.order])
    BY <1>1, <2>3 DEF ExecuteReserve, ledgerVars
  <2> QED
    BY <2>2, <2>3
<1>2. ASSUME NEW m \in network, ExecuteRelease(m)
      PROVE  /\ ledger'[o] # ledger[o] => m.order = o
             /\ ledger[o].status # "absent" => ledger'[o].status # "absent"
  BY <1>2, ReleaseOnLedger DEF Calls, ExecuteRelease
<1>3. Execute \/ UNCHANGED ledger
  BY DEF CreationNext, Create, ReadCart, RecordIntent, SendReserve, IntentGone,
         CommitOrder, CreateFails, PickIntent, Recover, SkipIntent, LockIntent,
         ClearIntent, RecoveryFails, Crash, Rest, ledgerVars, creationVars
<1> QED
  BY <1>1, <1>2, <1>3 DEF Execute

\* Whatever is sent is sent for an order on the list.
LEMMA CallsMove ==
  ASSUME FenceInvariant, [CreationNext]_creationVars, NEW m \in network'
  PROVE  m \in network \/ m.order \in intents
<1> USE DEF FenceInvariant, CreationInvariant, CreationTypeOK
<1>1. ASSUME NEW o \in Orders, SendReserve(o)
      PROVE  m \in network \/ m.order \in intents
  BY <1>1 DEF SendReserve, ReserveMsg
<1>2. ASSUME NEW x \in Processes, LockIntent(x)
      PROVE  m \in network \/ m.order \in intents
  BY <1>2 DEF LockIntent, ReleaseMsg, SkipsLocked
<1>3. \/ \E o \in Orders : SendReserve(o)
      \/ \E x \in Processes : LockIntent(x)
      \/ network' \subseteq network
  BY DEF CreationNext, Create, ReadCart, RecordIntent, SendReserve, IntentGone,
         CommitOrder, CreateFails, PickIntent, Recover, SkipIntent, LockIntent,
         ClearIntent, RecoveryFails, Crash, Rest, Execute, ExecuteReserve,
         ExecuteRelease, creationVars
<1> QED
  BY <1>1, <1>2, <1>3

\* A request never goes back to its beginning.
LEMMA BeginningsEnd ==
  ASSUME FenceInvariant, [CreationNext]_creationVars, NEW o \in Orders
  PROVE  /\ pc'[o] \in {"new", "intent"} => pc[o] \in {"new", "intent"}
         /\ pc'[o] = "save" =>
              \/ pc[o] = "save"
              \/ \E m \in network :
                   ExecuteReserve(m) /\ m.order = o /\ Reserve(o, cart[o])
<1> USE DEF FenceInvariant, CreationInvariant, CreationTypeOK
<1>1. ASSUME NEW m \in network, ExecuteReserve(m) PROVE
        /\ pc'[o] \in {"new", "intent"} => pc[o] \in {"new", "intent"}
        /\ pc'[o] = "save" =>
              pc[o] = "save" \/ (m.order = o /\ Reserve(o, cart[o]))
  <2>1. m.from = m.order /\ m.order \in Processes
    BY <1>1 DEF ExecuteReserve, SavesAreReserved, Calls, Processes
  <2>2. \/ pc' = [pc EXCEPT ![m.order] = "save"]
           /\ Reserve(m.order, cart[m.order])
        \/ pc' = [pc EXCEPT ![m.order] = "recover"]
        \/ pc' = pc
    BY <1>1, <2>1 DEF ExecuteReserve, Goto
  <2> QED
    BY <2>1, <2>2 DEF Processes
<1>2. ASSUME ~ \E m \in network : ExecuteReserve(m) PROVE
        /\ pc'[o] \in {"new", "intent"} => pc[o] \in {"new", "intent"}
        /\ pc'[o] = "save" => pc[o] = "save"
  <2>1. ASSUME NEW q \in Orders, Create(q) PROVE
          /\ pc'[o] \in {"new", "intent"} => pc[o] \in {"new", "intent"}
          /\ pc'[o] = "save" => pc[o] = "save"
    BY <2>1 DEF Create, ReadCart, RecordIntent, SendReserve, IntentGone,
                CommitOrder, CreateFails, Goto, Processes
  <2>2. ASSUME NEW x \in Processes, Recover(x) \/ Crash(x) PROVE
          /\ pc'[o] \in {"new", "intent"} => pc[o] \in {"new", "intent"}
          /\ pc'[o] = "save" => pc[o] = "save"
    BY <2>2 DEF Recover, SkipIntent, LockIntent, ClearIntent, RecoveryFails,
                Crash, Finish, Goto, Processes
  <2>3. ASSUME NEW c \in Crons, NEW q \in Orders, PickIntent(c, q) PROVE
          /\ pc'[o] \in {"new", "intent"} => pc[o] \in {"new", "intent"}
          /\ pc'[o] = "save" => pc[o] = "save"
    BY <2>3 DEF PickIntent, Goto, Processes
  <2>4. ASSUME NEW m \in network, ExecuteRelease(m) PROVE
          /\ pc'[o] \in {"new", "intent"} => pc[o] \in {"new", "intent"}
          /\ pc'[o] = "save" => pc[o] = "save"
    BY <2>4 DEF ExecuteRelease, Goto, Processes
  <2>5. CASE UNCHANGED creationVars
    BY <2>5 DEF creationVars, control
  <2> QED
    BY <1>2, <2>1, <2>2, <2>3, <2>4, <2>5 DEF CreationNext, Execute, Rest
<1> QED
  BY <1>1, <1>2

\* Who writes the two tables.
LEMMA TablesMove ==
  ASSUME FenceInvariant, [CreationNext]_creationVars, NEW o \in Orders
  PROVE  /\ o \in intents' => o \in intents \/ RecordIntent(o)
         /\ o \in orders' => o \in orders \/ CommitOrder(o)
<1> USE DEF FenceInvariant, CreationInvariant, CreationTypeOK
<1>1. ASSUME NEW q \in Orders, RecordIntent(q) \/ CommitOrder(q)
      PROVE  /\ o \in intents' => o \in intents \/ RecordIntent(o)
             /\ o \in orders' => o \in orders \/ CommitOrder(o)
  BY <1>1 DEF RecordIntent, CommitOrder, CommittedIntents
<1>2. \/ \E q \in Orders : RecordIntent(q) \/ CommitOrder(q)
      \/ orders' = orders /\ intents' \subseteq intents
  BY DEF CreationNext, Create, ReadCart, SendReserve, IntentGone,
         CreateFails, PickIntent, Recover, SkipIntent, LockIntent,
         ClearIntent, ClearedIntents, RecoveryFails, Crash, Rest, Execute,
         ExecuteReserve, ExecuteRelease, creationVars, tables
<1> QED
  BY <1>1, <1>2

LEMMA PlacementStep ==
  ASSUME PlacementInvariant, [CreationNext]_creationVars
  PROVE  PlacementInvariant'
<1> USE DEF PlacementInvariant, FenceInvariant, CreationInvariant,
            CreationTypeOK
<1>1. FenceInvariant'
  BY FenceStep
<1>2. ASSUME NEW o \in Orders, pc'[o] \in {"new", "intent"} PROVE Fresh(o)'
  <2>1. pc[o] \in {"new", "intent"} /\ Fresh(o)
    BY <1>2, BeginningsEnd DEF NothingPrecedesRecords
  <2>2. ledger'[o] = ledger[o]
    BY <2>1, LedgerMoves DEF Fresh
  <2>3. \A m \in network' : m.order # o
    BY <2>1, CallsMove DEF Fresh
  <2>4. ~ RecordIntent(o) /\ ~ CommitOrder(o)
    BY <1>2, <2>1 DEF RecordIntent, CommitOrder, Goto, Processes
  <2>5. o \notin orders' \cup intents'
    BY <2>1, <2>4, TablesMove DEF Fresh
  <2> QED
    BY <2>1, <2>2, <2>3, <2>5 DEF Fresh
<1>3. ASSUME NEW o \in Orders, o \in orders' \/ pc'[o] = "save"
      PROVE  ledger'[o].status # "absent"
  <2>1. CASE o \in orders \/ pc[o] = "save"
    BY <2>1, LedgerMoves DEF SavedHaveRows
  <2>2. CASE ~ (o \in orders \/ pc[o] = "save")
    <3>1. ~ CommitOrder(o)
      BY <2>2 DEF CommitOrder
    <3>2. Reserve(o, cart[o])
      BY <1>3, <2>2, <3>1, TablesMove, BeginningsEnd
    <3>3. ledger'[o] = Row("reserved", cart[o])
      BY <3>2, ReserveGives
    <3> QED
      BY <3>3 DEF Row
  <2> QED
    BY <2>1, <2>2
<1> QED
  BY <1>1, <1>2, <1>3 DEF NothingPrecedesRecords, SavedHaveRows

LEMMA PlacementStart == CreationInit => PlacementInvariant
<1> SUFFICES ASSUME CreationInit PROVE PlacementInvariant
  OBVIOUS
<1>1. \A o \in Orders : Fresh(o) /\ pc[o] = "new"
  BY DEF CreationInit, LedgerInit, Fresh, AbsentRow, Row, Processes
<1> QED
  BY <1>1, FenceStart
     DEF PlacementInvariant, NothingPrecedesRecords, SavedHaveRows, Fresh

THEOREM PlacementInvariance == CreationSpec => []PlacementInvariant
  BY PlacementStart, PlacementStep, PTL DEF CreationSpec

----------------------------------------------------------------------------
(* Every step is a step of an order that is placed, or hidden *)

UnitsOfOrders == [o \in Orders |-> ledger[o].status]
Placing == Placement!Next \/ UNCHANGED Placement!placementVars

LEMMA Unseen ==
  ASSUME UNCHANGED <<orders, intents, overtaken, ledger>>
  PROVE  Placing
BY DEF Placing, Placement!placementVars

\* The record comes first.
LEMMA RecordPlaces ==
  ASSUME PlacementInvariant, NEW o \in Orders, RecordIntent(o)
  PROVE  Placing
<1>1. Fresh(o)
  BY DEF PlacementInvariant, NothingPrecedesRecords, RecordIntent
<1>2. Placement!Record(o)
  BY <1>1 DEF Placement!Record, Fresh, RecordIntent, ledgerVars
<1> QED
  BY <1>2 DEF Placing, Placement!Next

\* An order is saved under the lock of its record, on units Products took.
LEMMA CommitPlaces ==
  ASSUME PlacementInvariant, NEW o \in Orders, CommitOrder(o)
  PROVE  Placing
<1> USE DEF PlacementInvariant, FenceInvariant, CreationInvariant,
            CreationTypeOK
<1>1. o \in intents /\ o \notin orders
  BY DEF LocksFence, CommitOrder, Processes, OrderReplacesIntent
<1>2. ledger[o] \in Rows /\ ledger[o].status # "absent"
  BY DEF SavedHaveRows, CommitOrder, LedgerTypeOK
<1>3. o \notin overtaken => ledger[o].status = "reserved"
  <2>1. o \notin overtaken => ledger[o] = Row("reserved", cart[o])
    BY DEF SavesAreReserved, CommitOrder
  <2> QED
    BY <2>1 DEF Row
<1>4. ledger[o].status = "reserved"
      \/ (o \in overtaken /\ ledger[o].status = "released")
  BY <1>2, <1>3 DEF Rows
<1>5. Placement!Place(o)
  BY <1>1, <1>4 DEF Placement!Place, Placement!Unsettled, CommitOrder,
                    CommittedIntents, ledgerVars
<1> QED
  BY <1>5 DEF Placing, Placement!Next

\* Units are taken while the record is there, whenever the call is executed.
LEMMA ReservePlaces ==
  ASSUME PlacementInvariant, NEW m \in network, ExecuteReserve(m)
  PROVE  Placing
<1> USE DEF PlacementInvariant, FenceInvariant, CreationInvariant,
            CreationTypeOK
<1> DEFINE o == m.order
<1>1. /\ o \in Orders /\ m.call = "reserve"
      /\ UNCHANGED <<orders, intents, overtaken>>
  BY DEF ExecuteReserve, Calls
<1>2. CASE ledger' = ledger
  BY <1>1, <1>2, Unseen
<1>3. CASE ledger' # ledger
  <2>1. Reserve(o, cart[o])
    BY <1>3 DEF ExecuteReserve, ledgerVars
  <2>2. MayReserve(o, cart[o])
    BY <1>3, <2>1 DEF Reserve, ledgerVars
  <2>3. ledger[o].status = "absent"
    BY <2>2 DEF MayReserve
  <2>4. Placement!Unsettled(o)
    BY <1>1, <2>3
       DEF ReservesAreCovered, SavedHaveRows, Placement!Unsettled
  <2>5. /\ ledger'[o].status = "reserved"
        /\ \A q \in Orders : q # o => ledger'[q] = ledger[q]
    <3>1. /\ ledger'[o] = Row("reserved", cart[o])
          /\ \A q \in Orders : q # o => ledger'[q] = ledger[q]
      BY <1>1, <2>1, ReserveGives
    <3> QED
      BY <3>1 DEF Row
  <2>6. UnitsOfOrders' = [UnitsOfOrders EXCEPT ![o] = "reserved"]
    BY <1>1, <2>5 DEF UnitsOfOrders
  <2>7. Placement!Turn(o, "reserved")
    BY <2>6 DEF UnitsOfOrders, Placement!Turn
  <2>8. Placement!Hold(o)
    BY <1>1, <2>3, <2>4, <2>7 DEF Placement!Hold
  <2> QED
    BY <1>1, <2>8 DEF Placing, Placement!Next
<1> QED
  BY <1>2, <1>3

\* Units go back for an order on the list, or by a release nobody waits for.
LEMMA ReleasePlaces ==
  ASSUME PlacementInvariant, NEW m \in network, ExecuteRelease(m)
  PROVE  Placing
<1> USE DEF PlacementInvariant, FenceInvariant, CreationInvariant,
            CreationTypeOK
<1> DEFINE o == m.order
<1>1. /\ o \in Orders /\ m.from \in Processes /\ m.call = "release"
      /\ UNCHANGED <<orders, intents, overtaken>>
  BY DEF ExecuteRelease, Calls, tables
<1>2. Placement!Unsettled(o) \/ o \in overtaken
  <2> SUFFICES ASSUME o \notin overtaken PROVE Placement!Unsettled(o)
    OBVIOUS
  <2>1. pc[m.from] = "releasing" /\ target[m.from] = o
    BY <1>1 DEF ReleasesAreAwaited
  <2>2. o \in intents
    BY <1>1, <2>1 DEF LocksFence
  <2> QED
    BY <2>2 DEF OrderReplacesIntent, Placement!Unsettled
<1>3. /\ ledger'[o].status = "released"
      /\ \A q \in Orders : q # o => ledger'[q] = ledger[q]
  BY <1>1, ReleaseOnLedger DEF ExecuteRelease
<1>4. UnitsOfOrders' = [UnitsOfOrders EXCEPT ![o] = "released"]
  BY <1>1, <1>3 DEF UnitsOfOrders
<1>5. Placement!Turn(o, "released")
  BY <1>4 DEF UnitsOfOrders, Placement!Turn
<1>6. Placement!GiveBack(o)
  BY <1>1, <1>2, <1>5 DEF Placement!GiveBack
<1> QED
  BY <1>1, <1>6 DEF Placing, Placement!Next

\* A record is only dropped, under its lock, when the units are back.
LEMMA ClearPlaces ==
  ASSUME PlacementInvariant, NEW x \in Processes, ClearIntent(x)
  PROVE  Placing
<1> USE DEF PlacementInvariant, FenceInvariant, CreationInvariant
<1> DEFINE o == target[x]
<1>1. o \in intents /\ o \in Orders /\ o \notin orders
  BY DEF LocksFence, ClearIntent, OrderReplacesIntent, CreationTypeOK
<1>2. ledger[o].status = "released"
  BY <1>1 DEF ClearsAreSafe, ClearIntent
<1>3. Placement!Settle(o)
  BY <1>1, <1>2 DEF Placement!Settle, Placement!Unsettled, ClearIntent,
                    ClearedIntents, ledgerVars
<1> QED
  BY <1>1, <1>3 DEF Placing, Placement!Next

\* A worker that gives up leaves at most the release behind that it waits for.
LEMMA GiveUpPlaces ==
  ASSUME PlacementInvariant, NEW x \in Processes, RecoveryFails(x) \/ Crash(x)
  PROVE  Placing
<1> USE DEF PlacementInvariant, FenceInvariant, CreationInvariant,
            CreationTypeOK
<1> DEFINE left == {m.order : m \in {n \in network : n.call = "release" /\ n.from = x}}
<1>1. /\ overtaken' = overtaken \cup left
      /\ UNCHANGED <<orders, intents, ledger>>
  BY DEF RecoveryFails, Crash, Abandon, ledgerVars
<1>2. ASSUME NEW o \in left, o \notin overtaken
      PROVE  o = target[x] /\ o \in Orders /\ Placement!Unsettled(o)
  <2>1. PICK m \in network : m.call = "release" /\ m.from = x /\ m.order = o
    BY <1>2
  <2>2. pc[x] = "releasing" /\ target[x] = o
    BY <1>2, <2>1 DEF ReleasesAreAwaited
  <2>3. o \in intents
    BY <2>2 DEF LocksFence
  <2> QED
    BY <2>2, <2>3 DEF OrderReplacesIntent, Placement!Unsettled
<1>3. CASE left \subseteq overtaken
  <2>1. overtaken' = overtaken
    BY <1>1, <1>3
  <2> QED
    BY <1>1, <2>1, Unseen
<1>4. CASE ~ (left \subseteq overtaken)
  <2>1. PICK o \in left : o \notin overtaken
    BY <1>4
  <2>2. o = target[x] /\ o \in Orders /\ Placement!Unsettled(o)
    BY <1>2, <2>1
  <2>3. left \ overtaken = {o}
    BY <1>2, <2>1, <2>2
  <2>4. overtaken' = overtaken \cup {o}
    BY <1>1, <2>3
  <2>5. Placement!Outlive(o)
    BY <1>1, <2>2, <2>4 DEF Placement!Outlive
  <2> QED
    BY <2>2, <2>5 DEF Placing, Placement!Next
<1> QED
  BY <1>3, <1>4

LEMMA PlacementSteps ==
  ASSUME PlacementInvariant, [CreationNext]_creationVars
  PROVE  Placing
<1>1. \/ \E o \in Orders : RecordIntent(o) \/ CommitOrder(o)
      \/ \E m \in network : ExecuteReserve(m) \/ ExecuteRelease(m)
      \/ \E x \in Processes : ClearIntent(x) \/ RecoveryFails(x) \/ Crash(x)
      \/ UNCHANGED <<orders, intents, overtaken, ledger>>
  BY DEF CreationNext, Create, ReadCart, SendReserve, IntentGone,
         CreateFails, PickIntent, Recover, SkipIntent, LockIntent, Rest,
         Execute, creationVars, tables, ledgerVars
<1> QED
  BY <1>1, Unseen, RecordPlaces, CommitPlaces, ReservePlaces, ReleasePlaces,
     ClearPlaces, GiveUpPlaces

LEMMA InitPlaces == CreationInit => Placement!Init
  BY DEF CreationInit, LedgerInit, AbsentRow, Row, Placement!Init

\* create and the recovery jobs of any number of replicas, with crashes,
\* timeouts and late calls, place every order as OrderPlacement says: its
\* record comes first, its units are taken under the record, and the record
\* only makes way for the order itself or after the units went back.
THEOREM PlacementRefinement == CreationSpec => ImplementsPlacement
<1>1. PlacementInvariant /\ [CreationNext]_creationVars
        => [Placement!Next]_(Placement!placementVars)
  BY PlacementSteps DEF Placing
<1> QED
  BY InitPlaces, PlacementInvariance, <1>1, PTL
     DEF CreationSpec, ImplementsPlacement, Placement!Spec

----------------------------------------------------------------------------
(***************************************************************************)
(* Products does nothing but what StockLedger allows, since creators only  *)
(* reserve items they read from the cart. So what is proved of the ledger  *)
(* holds while orders are placed.                                          *)
(***************************************************************************)

BasketsKnown ==
  /\ \A o \in Orders : pc[o] # "new" => cart[o] \in KnownBaskets
  /\ \A m \in network : m.call = "reserve" => pc[m.order] # "new"

LEMMA SameProducts ==
  ASSUME [CreationNext]_creationVars
  PROVE  KnownBaskets' = KnownBaskets
<1>1. UNCHANGED <<catalogue, removed>>
  BY DEF CreationNext, Create, ReadCart, RecordIntent, SendReserve, IntentGone,
         CommitOrder, CreateFails, PickIntent, Recover, SkipIntent, LockIntent,
         ClearIntent, RecoveryFails, Crash, Rest, Execute, ExecuteReserve,
         ExecuteRelease, Reserve, Release, ledgerVars, creationVars
<1> QED
  BY <1>1 DEF KnownBaskets

\* Once it has read the cart, a request is no longer new.
LEMMA NewIsLeft ==
  ASSUME FenceInvariant, [CreationNext]_creationVars, NEW o \in Orders,
         pc[o] # "new"
  PROVE  pc'[o] # "new"
<1> USE DEF FenceInvariant, CreationInvariant, CreationTypeOK
<1>1. ASSUME NEW x \in Processes, NEW label \in {"intent", "begin", "reserving",
               "save", "recover", "releasing", "clear", "idle", "done", "failed"},
             Goto(x, label)
      PROVE  pc'[o] # "new"
  BY <1>1 DEF Goto, Processes
<1>2. ASSUME NEW q \in Orders, Create(q) PROVE pc'[o] # "new"
  BY <1>1, <1>2 DEF Create, ReadCart, RecordIntent, SendReserve, IntentGone,
                    CommitOrder, CreateFails, Processes
<1>3. ASSUME NEW x \in Processes, Recover(x) \/ Crash(x) PROVE pc'[o] # "new"
  BY <1>1, <1>3 DEF Recover, SkipIntent, LockIntent, ClearIntent, RecoveryFails,
                    Crash, Finish
<1>4. ASSUME NEW c \in Crons, NEW q \in Orders, PickIntent(c, q)
      PROVE  pc'[o] # "new"
  BY <1>1, <1>4 DEF PickIntent, Processes
<1>5. ASSUME NEW m \in network, ExecuteReserve(m) \/ ExecuteRelease(m)
      PROVE  pc'[o] # "new"
  BY <1>1, <1>5 DEF ExecuteReserve, ExecuteRelease, Calls, Processes
<1>6. CASE UNCHANGED creationVars
  BY <1>6 DEF creationVars, control
<1> QED
  BY <1>2, <1>3, <1>4, <1>5, <1>6 DEF CreationNext, Execute, Rest

\* Only the request that reads its cart stops being new.
LEMMA NewStays ==
  ASSUME FenceInvariant, [CreationNext]_creationVars, NEW o \in Orders,
         ~ \E q \in Orders, items \in KnownBaskets : ReadCart(q, items),
         pc'[o] # "new"
  PROVE  pc[o] # "new"
<1> SUFFICES ASSUME pc[o] = "new" PROVE pc'[o] = "new"
  OBVIOUS
<1> USE DEF FenceInvariant, CreationInvariant, CreationTypeOK
<1>1. ASSUME NEW x \in Processes, NEW label, Goto(x, label), pc[x] # "new"
      PROVE  pc'[o] = "new"
  BY <1>1 DEF Goto, Processes
<1>2. ASSUME NEW q \in Orders, Create(q) PROVE pc'[o] = "new"
  BY <1>1, <1>2 DEF Create, RecordIntent, SendReserve, IntentGone,
                    CommitOrder, CreateFails, Processes
<1>3. ASSUME NEW x \in Processes, Recover(x) \/ Crash(x) PROVE pc'[o] = "new"
  BY <1>1, <1>3 DEF Recover, SkipIntent, LockIntent, ClearIntent, RecoveryFails,
                    Crash, Finish
<1>4. ASSUME NEW c \in Crons, NEW q \in Orders, PickIntent(c, q)
      PROVE  pc'[o] = "new"
  BY <1>1, <1>4 DEF PickIntent, Processes
<1>5. ASSUME NEW m \in network, ExecuteReserve(m) \/ ExecuteRelease(m)
      PROVE  pc'[o] = "new"
  BY <1>1, <1>5 DEF ExecuteReserve, ExecuteRelease, Calls
<1>6. CASE UNCHANGED creationVars
  BY <1>6 DEF creationVars, control
<1> QED
  BY <1>2, <1>3, <1>4, <1>5, <1>6 DEF CreationNext, Execute, Rest

LEMMA BasketsStep ==
  ASSUME PlacementInvariant, BasketsKnown, [CreationNext]_creationVars
  PROVE  BasketsKnown'
<1> USE DEF PlacementInvariant, FenceInvariant, CreationInvariant,
            CreationTypeOK
<1>1. ASSUME NEW o \in Orders, pc'[o] # "new" PROVE cart'[o] \in KnownBaskets'
  <2>1. CASE \E q \in Orders, items \in KnownBaskets : ReadCart(q, items)
    BY <1>1, <2>1, SameProducts DEF ReadCart, Goto, BasketsKnown, Processes
  <2>2. CASE ~ \E q \in Orders, items \in KnownBaskets : ReadCart(q, items)
    <3>1. cart' = cart
      BY <2>2 DEF CreationNext, Create, RecordIntent, SendReserve, IntentGone,
         CommitOrder, CreateFails, PickIntent, Recover, SkipIntent, LockIntent,
         ClearIntent, RecoveryFails, Crash, Rest, Execute, ExecuteReserve,
         ExecuteRelease, creationVars
    <3>2. pc[o] # "new"
      BY <1>1, <2>2, NewStays
    <3> QED
      BY <3>1, <3>2, SameProducts DEF BasketsKnown
  <2> QED
    BY <2>1, <2>2
<1>2. ASSUME NEW m \in network', m.call = "reserve" PROVE pc'[m.order] # "new"
  <2>1. CASE m \in network
    <3>1. m.order \in Orders /\ pc[m.order] # "new"
      BY <1>2, <2>1 DEF BasketsKnown, Calls
    <3> QED
      BY <3>1, NewIsLeft
  <2>2. CASE m \notin network
    <3>1. m.order \in intents
      BY <2>2, CallsMove
    <3>2. pc[m.order] # "new"
      BY <3>1 DEF NothingPrecedesRecords, Fresh
    <3> QED
      BY <3>1, <3>2, NewIsLeft
  <2> QED
    BY <2>1, <2>2
<1> QED
  BY <1>1, <1>2 DEF BasketsKnown

LEMMA BasketsStart == CreationInit => BasketsKnown
  BY DEF CreationInit, BasketsKnown, Processes

LEMMA LedgerSteps ==
  ASSUME PlacementInvariant, BasketsKnown, [CreationNext]_creationVars
  PROVE  [LedgerNext]_ledgerVars
<1> USE DEF PlacementInvariant, FenceInvariant, CreationInvariant,
            CreationTypeOK
<1>1. ASSUME NEW m \in network, ExecuteReserve(m)
      PROVE  [LedgerNext]_ledgerVars
  <2>1. m.order \in Orders /\ cart[m.order] \in KnownBaskets
    BY <1>1 DEF ExecuteReserve, BasketsKnown, Calls
  <2> QED
    BY <1>1, <2>1 DEF ExecuteReserve, LedgerNext
<1>2. ASSUME NEW m \in network, ExecuteRelease(m)
      PROVE  [LedgerNext]_ledgerVars
  BY <1>2 DEF ExecuteRelease, LedgerNext, Calls
<1>3. Execute \/ UNCHANGED ledgerVars
  BY DEF CreationNext, Create, ReadCart, RecordIntent, SendReserve, IntentGone,
         CommitOrder, CreateFails, PickIntent, Recover, SkipIntent, LockIntent,
         ClearIntent, RecoveryFails, Crash, Rest, creationVars
<1> QED
  BY <1>1, <1>2, <1>3 DEF Execute

\* What Products sees of order creation is a behaviour of its ledger.
THEOREM CreationUsesLedger == CreationSpec => LedgerSpec
<1>1. PlacementInvariant /\ BasketsKnown /\ [CreationNext]_creationVars =>
        BasketsKnown' /\ [LedgerNext]_ledgerVars
  BY BasketsStep, LedgerSteps
<1>2. CreationInit => LedgerInit
  BY DEF CreationInit
<1> QED
  BY <1>1, <1>2, BasketsStart, PlacementInvariance, PTL
     DEF CreationSpec, LedgerSpec

\* No interleaving of creators, recovery jobs, crashes and late calls makes or
\* loses a unit, or revives a reservation that was given back.
THEOREM CreationConservesUnits ==
  CreationSpec => []UnitsConserved /\ ReleasedIsFinal
  BY CreationUsesLedger, UnitsAreConserved, ReleasesAreFinal, PTL
=============================================================================
