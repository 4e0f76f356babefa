-------------------------- MODULE OrderOperations --------------------------
(***************************************************************************)
(* The life of orders after their creation: pay, capturePayment,           *)
(* captureByPaymentId, cancel, updateStatus, findOne and recoverOperations *)
(* of apps/orders/src/orders.service.ts, run by any number of request      *)
(* handlers and recovery jobs on several replicas.                         *)
(*                                                                         *)
(* A capture, refund or release is first recorded as the order's one row   *)
(* of order_operations; processOperation then carries it out while it      *)
(* holds the row lock of the order ACROSS the call to PayPal or Products.  *)
(* Any call can fail, or time out and still be executed later; any worker  *)
(* can crash between two steps. Order data besides the status, and the     *)
(* nextAttemptAt delay of a failed operation, are abstracted away.         *)
(***************************************************************************)
EXTENDS Naturals

CONSTANTS
  Orders,
  Payments,     \* PayPal order ids
  Handlers,     \* request handlers of all replicas
  Crons,        \* recoverOperations jobs, one per replica
  None

Workers == Handlers \cup Crons

ASSUME OperationsAssumption ==
  /\ Handlers \cap Crons = {}
  /\ None \notin Orders \cup Payments \cup Workers
  /\ None \notin {"PENDING", "PAID", "SHIPPED", "DELIVERED", "CANCELLED"}

VARIABLES
  status, paymentId, captureId,   \* columns of the orders rows
  op,           \* the order's order_operations row, or "none"
  lock,         \* holder of the order's row lock, beyond one statement
  cache,        \* status in the Redis entry order:<id>
  payOrder,     \* PayPal: the order a payment was created for
  payState,     \* PayPal: what happened to the payment
  inflight,     \* calls whose sender gave up and that may still be executed
  released,     \* orders whose reservation Products has released
  pc, job       \* where every worker is, and in which request

order == <<status, paymentId, captureId, op>>
paypal == <<payOrder, payState>>
outside == <<payOrder, payState, inflight, released>>
control == <<pc, job>>
vars == <<order, lock, cache, outside, control>>

Statuses == {"PENDING", "PAID", "SHIPPED", "DELIVERED", "CANCELLED"}
Kinds == {"capture", "refund", "release"}
NoJob == [task |-> "none", order |-> None, arg |-> None, left |-> 0]

Goto(w, label) == pc' = [pc EXCEPT ![w] = label]
Put(f, o, v) == [f EXCEPT ![o] = v]

\* End of a request or of a job's turn; a transaction still open rolls back.
End(w) == Goto(w, "idle") /\ job' = [job EXCEPT ![w] = NoJob]
Unlock(w) == lock' = [o \in Orders |-> IF lock[o] = w THEN None ELSE lock[o]]

----------------------------------------------------------------------------
Init ==
  /\ status \in [Orders -> {"PENDING", "CANCELLED"}]
  /\ paymentId = [o \in Orders |-> None]
  /\ captureId = [o \in Orders |-> None]
  /\ op = [o \in Orders |-> IF status[o] = "CANCELLED" THEN "release" ELSE "none"]
  /\ lock = [o \in Orders |-> None]
  /\ cache = [o \in Orders |-> None]
  /\ payOrder = [p \in Payments |-> None]
  /\ payState = [p \in Payments |-> "none"]
  /\ inflight = {}
  /\ released = {}
  /\ pc = [w \in Workers |-> "idle"]
  /\ job = [w \in Workers |-> NoJob]

----------------------------------------------------------------------------
(* Requests and the job's scan *)

Begin(w, task, o, arg, left, label) ==
  /\ pc[w] = "idle"
  /\ job' = [job EXCEPT ![w] = [task |-> task, order |-> o,
                                arg |-> arg, left |-> left]]
  /\ Goto(w, label)
  /\ UNCHANGED <<order, lock, cache, outside>>

CaptureRequest(w, o) == Begin(w, "capture", o, None, 1, "start")
CancelRequest(w, o) == Begin(w, "cancel", o, None, 2, "start")
PayRequest(w, o) == Begin(w, "pay", o, None, 0, "find")
ViewRequest(w, o) == Begin(w, "view", o, None, 0, "find")
StatusRequest(w, o, to) == Begin(w, to, o, None, 0, "find")

\* The browser returns from PayPal: captureByPaymentId finds the order first.
ReturnFromPaypal(w, o, p) ==
  paymentId[o] = p /\ Begin(w, "capture", o, None, 1, "start")

\* recoverOperations takes a row that is due.
PickOperation(c, o) ==
  op[o] # "none" /\ Begin(c, "recover", o, None, 1, "lock")

----------------------------------------------------------------------------
(* findOne: cache-aside read of the order *)

CacheHit(w) ==
  LET o == job[w].order IN
  /\ pc[w] = "find"
  /\ cache[o] # None
  /\ job' = [job EXCEPT ![w].arg = cache[o]]
  /\ Goto(w, "decide")
  /\ UNCHANGED <<order, lock, cache, outside>>

\* A failing Redis counts as a miss.
CacheMiss(w) ==
  /\ pc[w] = "find"
  /\ job' = [job EXCEPT ![w].arg = status[job[w].order]]
  /\ Goto(w, "fill")
  /\ UNCHANGED <<order, lock, cache, outside>>

CacheFill(w) ==
  LET o == job[w].order IN
  /\ pc[w] = "fill"
  /\ cache' \in {cache, Put(cache, o, job[w].arg)}
  /\ Goto(w, "decide")
  /\ UNCHANGED <<order, lock, outside, job>>

\* invalidate, after COMMIT; a failing Redis is only logged.
Drop(w) ==
  LET o == job[w].order IN
  /\ pc[w] = "drop"
  /\ cache' \in {cache, Put(cache, o, None)}
  /\ Goto(w, IF job[w].left > 0 THEN "lock" ELSE "reply")
  /\ UNCHANGED <<order, lock, outside, job>>

CacheExpires(o) ==
  /\ cache[o] # None
  /\ cache' = Put(cache, o, None)
  /\ UNCHANGED <<order, lock, outside, control>>

----------------------------------------------------------------------------
(* pay and updateStatus: decide on the read order, then transition *)

ManualTransitions == {<<"PAID", "SHIPPED">>, <<"SHIPPED", "DELIVERED">>}

\* The reply to a view, an unchanged status, or a refusal.
Decline(w) ==
  LET seen == job[w].arg IN
  /\ pc[w] = "decide"
  /\ \/ job[w].task = "view"
     \/ job[w].task = "pay" /\ seen # "PENDING"
     \/ job[w].task \in Statuses /\ <<seen, job[w].task>> \notin ManualTransitions
  /\ End(w)
  /\ UNCHANGED <<order, lock, cache, outside>>

DecideStatus(w) ==
  /\ pc[w] = "decide"
  /\ <<job[w].arg, job[w].task>> \in ManualTransitions
  /\ Goto(w, "write")
  /\ UNCHANGED <<order, lock, cache, outside, job>>

\* paypal.createOrder: a new payment, or the one PayPal already made for the
\* same request id, which hashes the order's id and total.
CreatePayment(w, p) ==
  LET o == job[w].order IN
  /\ pc[w] = "decide"
  /\ job[w].task = "pay" /\ job[w].arg = "PENDING"
  /\ \/ payState[p] = "none"
     \/ payOrder[p] = o
  /\ payOrder' = Put(payOrder, p, o)
  /\ payState' = IF payState[p] = "none" THEN Put(payState, p, "created")
                                         ELSE payState
  /\ job' = [job EXCEPT ![w].arg = p]
  /\ Goto(w, "write")
  /\ UNCHANGED <<order, lock, cache, inflight, released>>

\* transition: under the row lock, the order must still have the status the
\* decision was made on, and no operation may be pending.
ExpectedStatus(w) == IF job[w].task = "pay" THEN "PENDING" ELSE job[w].arg
MayTransitionUnfenced(w) == status[job[w].order] = ExpectedStatus(w)
MayTransitionUnchecked(w) == op[job[w].order] = "none"
MayTransition(w) ==
  status[job[w].order] = ExpectedStatus(w) /\ op[job[w].order] = "none"

Transition(w) ==
  LET o == job[w].order IN
  /\ pc[w] = "write"
  /\ lock[o] = None
  /\ MayTransition(w)
  /\ IF job[w].task = "pay"
     THEN paymentId' = Put(paymentId, o, job[w].arg) /\ UNCHANGED status
     ELSE status' = Put(status, o, job[w].task) /\ UNCHANGED paymentId
  /\ Goto(w, "drop")
  /\ UNCHANGED <<captureId, op, lock, cache, outside, job>>

----------------------------------------------------------------------------
(* startOperation: one short transaction under the row lock *)

\* An operation that is already pending only serves requests of its kind.
SameOperationAny(task, kind) == TRUE
SameOperation(task, kind) ==
  IF task = "capture" THEN kind = "capture" ELSE kind \in {"refund", "release"}

Starts(w, task) == pc[w] = "start" /\ job[w].task = task /\ lock[job[w].order] = None

\* The operation is pending already, or the order is already paid.
Rejoin(w) ==
  LET o == job[w].order IN
  /\ pc[w] = "start"
  /\ lock[o] = None
  /\ \/ op[o] # "none" /\ SameOperation(job[w].task, op[o])
     \/ op[o] = "none" /\ job[w].task = "capture" /\ status[o] = "PAID"
  /\ Goto(w, "drop")
  /\ UNCHANGED <<order, lock, cache, outside, job>>

MayCaptureAnyStatus(o) == op[o] = "none" /\ paymentId[o] # None
MayCapture(o) ==
  op[o] = "none" /\ status[o] = "PENDING" /\ paymentId[o] # None

StartCapture(w) ==
  LET o == job[w].order IN
  /\ Starts(w, "capture")
  /\ MayCapture(o)
  /\ op' = Put(op, o, "capture")
  /\ Goto(w, "drop")
  /\ UNCHANGED <<status, paymentId, captureId, lock, cache, outside, job>>

MayRefundBlindly(o) == op[o] = "none" /\ status[o] = "PAID"
MayRefund(o) == op[o] = "none" /\ status[o] = "PAID" /\ captureId[o] # None

StartRefund(w) ==
  LET o == job[w].order IN
  /\ Starts(w, "cancel")
  /\ MayRefund(o)
  /\ op' = Put(op, o, "refund")
  /\ Goto(w, "drop")
  /\ UNCHANGED <<status, paymentId, captureId, lock, cache, outside, job>>

\* An unpaid or already cancelled order: status and release commit together.
StartRelease(w) ==
  LET o == job[w].order IN
  /\ Starts(w, "cancel")
  /\ op[o] = "none"
  /\ status[o] \in {"PENDING", "CANCELLED"}
  /\ status' = Put(status, o, "CANCELLED")
  /\ op' = Put(op, o, "release")
  /\ Goto(w, "drop")
  /\ UNCHANGED <<paymentId, captureId, lock, cache, outside, job>>

----------------------------------------------------------------------------
(* processOperation: the row lock is held across the external call *)

OneLess(w) == job' = [job EXCEPT ![w].left = @ - 1]

NothingPending(w) ==
  LET o == job[w].order IN
  /\ pc[w] = "lock"
  /\ lock[o] = None
  /\ op[o] = "none"
  /\ OneLess(w)
  /\ Goto(w, "drop")
  /\ UNCHANGED <<order, lock, cache, outside>>

LockOrder(w) ==
  LET o == job[w].order IN
  /\ pc[w] = "lock"
  /\ lock[o] = None
  /\ op[o] # "none"
  /\ lock' = Put(lock, o, w)
  /\ Goto(w, "call")
  /\ UNCHANGED <<order, cache, outside, job>>

\* captureOrder asks PayPal for the payment before it captures it, so that a
\* capture whose answer was lost is recognised. The answer may lack the id.
Capture(w) ==
  LET o == job[w].order
      p == paymentId[o]
  IN
  /\ pc[w] = "call" /\ op[o] = "capture"
  /\ payState[p] \in {"approved", "captured", "refunded"}
  /\ payState' = IF payState[p] = "approved" THEN Put(payState, p, "captured")
                                             ELSE payState
  /\ \E id \in {p, None} : job' = [job EXCEPT ![w].arg = id]
  /\ Goto(w, "commit")
  /\ UNCHANGED <<order, lock, cache, payOrder, inflight, released>>

\* refundPayment: COMPLETED, PENDING, or refunded by an earlier attempt.
Refund(w) ==
  LET o == job[w].order
      p == captureId[o]
  IN
  /\ pc[w] = "call" /\ op[o] = "refund"
  /\ p # None
  /\ payState[p] \in {"captured", "refunded"}
  /\ payState' = Put(payState, p, "refunded")
  /\ Goto(w, "commit")
  /\ UNCHANGED <<order, lock, cache, payOrder, inflight, released, job>>

\* RELEASE_STOCK with the order's items, in case the ledger never saw it.
ReleaseStock(w) ==
  LET o == job[w].order IN
  /\ pc[w] = "call" /\ op[o] = "release"
  /\ released' = released \cup {o}
  /\ Goto(w, "commit")
  /\ UNCHANGED <<order, lock, cache, paypal, inflight, job>>

\* The call fails or times out: rollback, and the operation stays. A call
\* that timed out, or whose worker lost its connection, can still run later.
Sent(w) ==
  LET o == job[w].order IN
  [kind |-> op[o], order |-> o,
   payment |-> CASE op[o] = "capture" -> paymentId[o]
                 [] op[o] = "refund" -> captureId[o]
                 [] OTHER -> None]

CallFails(w) ==
  /\ pc[w] = "call"
  /\ inflight' \in {inflight, inflight \cup {Sent(w)}}
  /\ Unlock(w)
  /\ End(w)
  /\ UNCHANGED <<order, cache, paypal, released>>

\* The operation that follows a carried out one.
FollowUpForgotten(kind) == "none"
FollowUp(kind) == IF kind = "refund" THEN "release" ELSE "none"
OutcomeUnpaid(kind, s) == IF kind = "refund" THEN "CANCELLED" ELSE s
Outcome(kind, s) ==
  CASE kind = "capture" -> "PAID"
    [] kind = "refund" -> "CANCELLED"
    [] OTHER -> s

Commit(w) ==
  LET o == job[w].order IN
  /\ pc[w] = "commit"
  /\ status' = Put(status, o, Outcome(op[o], status[o]))
  /\ captureId' = IF op[o] = "capture" THEN Put(captureId, o, job[w].arg)
                                       ELSE captureId
  /\ op' = Put(op, o, FollowUp(op[o]))
  /\ Unlock(w)
  /\ OneLess(w)
  /\ Goto(w, "drop")
  /\ UNCHANGED <<paymentId, cache, outside>>

\* findOneByOrFail, the event and the answer.
Reply(w) ==
  /\ pc[w] = "reply"
  /\ End(w)
  /\ UNCHANGED <<order, lock, cache, outside>>

\* A refusal (somebody else's order, a conflict, a failed check), a database
\* error, or a crash: whatever committed stays, the open transaction does not.
Fail(w) ==
  /\ pc[w] \notin {"idle", "call"}
  /\ Unlock(w)
  /\ End(w)
  /\ UNCHANGED <<order, cache, outside>>

----------------------------------------------------------------------------
(* PayPal and Products *)

Approve(p) ==
  /\ payState[p] = "created"
  /\ payState' = Put(payState, p, "approved")
  /\ UNCHANGED <<order, lock, cache, payOrder, inflight, released, control>>

\* A call nobody waits for any more is executed after all.
LateCapture(m) ==
  /\ m \in inflight /\ m.kind = "capture"
  /\ payState' = IF payState[m.payment] = "approved"
                 THEN Put(payState, m.payment, "captured") ELSE payState
  /\ inflight' = inflight \ {m}
  /\ UNCHANGED <<order, lock, cache, payOrder, released, control>>

LateRefund(m) ==
  /\ m \in inflight /\ m.kind = "refund"
  /\ payState' = IF payState[m.payment] = "captured"
                 THEN Put(payState, m.payment, "refunded") ELSE payState
  /\ inflight' = inflight \ {m}
  /\ UNCHANGED <<order, lock, cache, payOrder, released, control>>

LateRelease(m) ==
  /\ m \in inflight /\ m.kind = "release"
  /\ released' = released \cup {m.order}
  /\ inflight' = inflight \ {m}
  /\ UNCHANGED <<order, lock, cache, paypal, control>>

----------------------------------------------------------------------------
Request(w, o) ==
  \/ CaptureRequest(w, o) \/ CancelRequest(w, o)
  \/ PayRequest(w, o) \/ ViewRequest(w, o)
  \/ \E to \in {"SHIPPED", "DELIVERED"} : StatusRequest(w, o, to)
  \/ \E p \in Payments : ReturnFromPaypal(w, o, p)

Find(w) == CacheHit(w) \/ CacheMiss(w) \/ CacheFill(w)
Decide(w) ==
  Decline(w) \/ DecideStatus(w) \/ (\E p \in Payments : CreatePayment(w, p))
Start(w) == Rejoin(w) \/ StartCapture(w) \/ StartRefund(w) \/ StartRelease(w)
Acquire(w) == NothingPending(w) \/ LockOrder(w)
Answered(w) == Capture(w) \/ Refund(w) \/ ReleaseStock(w)

Next ==
  \/ \E w \in Handlers, o \in Orders : Request(w, o)
  \/ \E c \in Crons, o \in Orders : PickOperation(c, o)
  \/ \E w \in Workers :
       \/ Find(w) \/ Decide(w) \/ Transition(w) \/ Start(w)
       \/ Acquire(w) \/ Answered(w) \/ CallFails(w) \/ Commit(w)
       \/ Drop(w) \/ Reply(w) \/ Fail(w)
  \/ \E o \in Orders : CacheExpires(o)
  \/ \E p \in Payments : Approve(p)
  \/ \E m \in inflight : LateCapture(m) \/ LateRefund(m) \/ LateRelease(m)

Spec == Init /\ [][Next]_vars

\* A worker that holds a row lock: its call is answered or times out, its
\* transaction ends.
Holding(w) ==
  \/ Answered(w) \/ CallFails(w) \/ Commit(w)
  \/ pc[w] = "commit" /\ Fail(w)

\* The job runs every 30 s and takes every operation that stays. It gets its
\* turn at a row lock it waits for (PostgreSQL queues the waiters, and a
\* replica does not crash in this wait for ever), and not all of its calls on
\* an order fail.
WaitsPatiently(c) == pc[c] = "lock" => pc'[c] # "idle"

FairSpec ==
  /\ Spec
  /\ \A w \in Workers : WF_vars(Holding(w))
  /\ \A c \in Crons :
       /\ WF_vars(Acquire(c) \/ Drop(c) \/ Reply(c))
       /\ <>[][WaitsPatiently(c)]_vars
  /\ \A c \in Crons, o \in Orders :
       /\ SF_vars(PickOperation(c, o))
       /\ SF_vars(job[c].order = o /\ LockOrder(c))
       /\ SF_vars(job[c].order = o /\ Answered(c))
       /\ SF_vars(job[c].order = o /\ Commit(c))

----------------------------------------------------------------------------
(* Properties *)

Tasks == {"none", "capture", "cancel", "pay", "view", "recover",
          "SHIPPED", "DELIVERED"}

OpsTypeOK ==
  /\ status \in [Orders -> Statuses]
  /\ paymentId \in [Orders -> Payments \cup {None}]
  /\ captureId \in [Orders -> Payments \cup {None}]
  /\ op \in [Orders -> Kinds \cup {"none"}]
  /\ lock \in [Orders -> Workers \cup {None}]
  /\ cache \in [Orders -> Statuses \cup {None}]
  /\ payOrder \in [Payments -> Orders \cup {None}]
  /\ payState \in [Payments ->
                  {"none", "created", "approved", "captured", "refunded"}]
  /\ inflight \subseteq [kind : Kinds, order : Orders,
                        payment : Payments \cup {None}]
  /\ released \subseteq Orders
  /\ pc \in [Workers -> {"idle", "find", "fill", "decide", "write", "start",
                         "lock", "call", "commit", "drop", "reply"}]
  /\ job \in [Workers -> [task : Tasks, order : Orders \cup {None},
                          arg : Statuses \cup Payments \cup {None},
                          left : 0..2]]

\* "One outstanding operation per order also fences conflicting commands": an
\* operation never meets an order whose row contradicts it.
OperationFitsOrder ==
  \A o \in Orders :
    /\ op[o] = "capture" => status[o] = "PENDING" /\ paymentId[o] # None
    /\ op[o] = "refund" => status[o] = "PAID" /\ captureId[o] # None
    /\ op[o] = "release" => status[o] = "CANCELLED"

\* No charge is forgotten: money PayPal took and did not give back belongs to
\* the payment the order names, and the order is paid, or a capture operation
\* is still there to find out. In particular no order is cancelled, and no
\* payment replaced, behind the back of a capture whose answer was lost.
ChargeIsAccountedFor ==
  \A p \in Payments : payState[p] = "captured" =>
    LET o == payOrder[p] IN
    /\ paymentId[o] = p
    /\ \/ status[o] \in {"PAID", "SHIPPED", "DELIVERED"}
       \/ status[o] = "PENDING" /\ op[o] = "capture"

\* Refunded goods never leave: after a refund the order is cancelled, or the
\* refund operation still fences it against being shipped.
RefundedNeverShips ==
  \A p \in Payments : payState[p] = "refunded" =>
    LET o == payOrder[p] IN
    /\ paymentId[o] = p
    /\ \/ status[o] = "CANCELLED"
       \/ status[o] = "PAID" /\ op[o] = "refund"

\* Units only go back on the shelf for an order that is cancelled for good.
ReleasedOnlyIfCancelled == \A o \in released : status[o] = "CANCELLED"

\* A cancel that answers success has done all of its work, whoever did it:
\* the order is cancelled, its units are back and no money is kept.
CancelSettles ==
  [][\A w \in Workers :
       Reply(w) /\ job[w].task = "cancel" =>
         LET o == job[w].order IN
         /\ status[o] = "CANCELLED"
         /\ o \in released
         /\ \A p \in Payments : payOrder[p] = o => payState[p] # "captured"]_vars

\* Once a capture was recorded the order's payment never changes again, so
\* that every retry and every late call is about the same payment.
PaymentFrozen ==
  [][\A o \in Orders :
       op[o] = "capture" \/ status[o] # "PENDING"
         => paymentId'[o] = paymentId[o]]_vars

\* Status, money and stock move as OrderLifecycle says.
Charged(o, s) == \E p \in Payments : payOrder[p] = o /\ payState[p] = s
MoneyOf(o) == IF Charged(o, "captured") THEN "taken"
              ELSE IF Charged(o, "refunded") THEN "refunded" ELSE "none"
StockOf(o) == IF o \in released THEN "returned" ELSE "held"

Lifecycle == INSTANCE OrderLifecycle WITH
  money <- [o \in Orders |-> MoneyOf(o)],
  stock <- [o \in Orders |-> StockOf(o)]

ImplementsLifecycle == Lifecycle!Spec

----------------------------------------------------------------------------
(* The inductive invariant behind these properties, in named parts *)

\* What a worker carries fits where it is.
JobFits(w) ==
  LET o == job[w].order  task == job[w].task  arg == job[w].arg IN
  /\ pc[w] # "idle" => o \in Orders /\ task # "none"
  /\ pc[w] \in {"find", "fill", "decide", "write"}
       => task \in {"pay", "view", "SHIPPED", "DELIVERED"} /\ job[w].left = 0
  /\ pc[w] = "start" => task \in {"capture", "cancel"}
  /\ pc[w] = "start" /\ task = "cancel" => job[w].left = 2
  /\ pc[w] \in {"start", "lock", "call", "commit"}
       => task \in {"capture", "cancel", "recover"} /\ job[w].left > 0
  /\ pc[w] = "drop" /\ job[w].left > 0
       => task \in {"capture", "cancel", "recover"}
  /\ pc[w] = "reply" => job[w].left = 0
  /\ pc[w] \in {"fill", "decide"} => arg \in Statuses
  /\ pc[w] = "write" => \/ task = "pay" /\ arg \in Payments
                        \/ <<arg, task>> \in ManualTransitions
JobsFit == \A w \in Workers : JobFits(w)

\* A payment on its way to an order, or named by one, was made for it.
PaymentsBelong ==
  /\ \A o \in Orders : paymentId[o] # None =>
       payOrder[paymentId[o]] = o /\ payState[paymentId[o]] # "none"
  /\ \A w \in Workers : pc[w] = "write" /\ job[w].task = "pay" =>
       payOrder[job[w].arg] = job[w].order /\ payState[job[w].arg] # "none"
  /\ \A p \in Payments : payState[p] # "none" => payOrder[p] \in Orders

\* Paid orders were charged, and the capture id names that charge.
PaidIsCharged ==
  \A o \in Orders :
    /\ status[o] \in {"PAID", "SHIPPED", "DELIVERED"} =>
         /\ paymentId[o] # None
         /\ payState[paymentId[o]] \in {"captured", "refunded"}
    /\ captureId[o] # None =>
         captureId[o] = paymentId[o] /\ status[o] # "PENDING"

\* The row lock fences: whoever is inside processOperation holds it.
LockFences ==
  \A w \in Workers : pc[w] \in {"call", "commit"} =>
    lock[job[w].order] = w /\ op[job[w].order] # "none"

\* A transaction about to commit has its external effect behind it.
EffectBeforeCommit ==
  \A w \in Workers : pc[w] = "commit" =>
    LET o == job[w].order IN
    /\ op[o] = "capture" =>
         /\ payState[paymentId[o]] \in {"captured", "refunded"}
         /\ job[w].arg \in {paymentId[o], None}
    /\ op[o] = "refund" => payState[captureId[o]] = "refunded"
    /\ op[o] = "release" => o \in released

\* A late call repeats something done, or something still to be done.
LateIsHarmless ==
  \A m \in inflight :
    LET o == m.order  p == m.payment IN
    /\ m.kind = "capture" =>
         /\ p \in Payments /\ payOrder[p] = o
         /\ \/ payState[p] \in {"captured", "refunded"}
            \/ op[o] = "capture" /\ paymentId[o] = p
    /\ m.kind = "refund" =>
         /\ p \in Payments /\ payOrder[p] = o
         /\ \/ payState[p] = "refunded"
            \/ op[o] = "refund" /\ captureId[o] = p
    /\ m.kind = "release" => status[o] = "CANCELLED"

\* Cancelled orders have their units back, or the release recorded.
CancelledIsReleased ==
  \A o \in Orders : status[o] = "CANCELLED" => op[o] = "release" \/ o \in released

\* How far a cancel request has come.
CancelProgress ==
  \A w \in Workers :
    LET o == job[w].order IN
    job[w].task = "cancel" /\ pc[w] \notin {"idle", "start"} =>
      /\ job[w].left = 2 => op[o] = "refund" \/ status[o] = "CANCELLED"
      /\ job[w].left = 1 => status[o] = "CANCELLED"
      /\ job[w].left = 0 => status[o] = "CANCELLED" /\ o \in released

InductiveInvariant ==
  /\ OpsTypeOK
  /\ OperationFitsOrder /\ ChargeIsAccountedFor /\ RefundedNeverShips
  /\ ReleasedOnlyIfCancelled
  /\ JobsFit /\ PaymentsBelong /\ PaidIsCharged
  /\ LockFences /\ EffectBeforeCommit /\ LateIsHarmless
  /\ CancelledIsReleased /\ CancelProgress

----------------------------------------------------------------------------
(* What eventually happens, and what the documentation claims *)

\* A cancellation that was accepted is carried out, whatever failed meanwhile.
CancellationCompletes ==
  \A o \in Orders :
    op[o] \in {"refund", "release"} ~> status[o] = "CANCELLED" /\ o \in released

\* A recorded capture of a payment the buyer approved gets the order paid.
CaptureCompletes ==
  \A o \in Orders :
    op[o] = "capture" /\ payState[paymentId[o]] = "approved"
      ~> status[o] # "PENDING"

\* "Payment was cancelled. You can restart it for your order at any time":
\* no operation fences an order whose buyer has not approved the payment.
PaymentCanRestart ==
  \A o \in Orders :
    op[o] = "capture" => payState[paymentId[o]] # "created"
============================================================================
