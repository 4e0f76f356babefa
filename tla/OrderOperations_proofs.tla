----------------------- MODULE OrderOperations_proofs -----------------------
(***************************************************************************)
(* InductiveInvariant of OrderOperations is an invariant for every set of  *)
(* orders, payments, handlers and jobs, and with it the safety properties, *)
(* the properties of steps, and the refinement of OrderLifecycle.          *)
(***************************************************************************)
EXTENDS OrderOperations, TLAPS

\* The part of the invariant that is about rows and the outside world only.
RowsFit ==
  /\ OperationFitsOrder /\ ChargeIsAccountedFor /\ RefundedNeverShips
  /\ ReleasedOnlyIfCancelled /\ PaidIsCharged
  /\ LateIsHarmless /\ CancelledIsReleased

\* Steps that touch neither rows nor the outside world keep that part.
LEMMA RowsFrame ==
  RowsFit /\ UNCHANGED <<order, outside>> => RowsFit'
  BY DEF RowsFit, order, outside, OperationFitsOrder, ChargeIsAccountedFor,
     RefundedNeverShips, ReleasedOnlyIfCancelled, PaidIsCharged,
     LateIsHarmless, CancelledIsReleased

\* The rows a deployment starts from satisfy the invariant.
LEMMA InitEstablishes == Init => InductiveInvariant
<1> SUFFICES ASSUME Init PROVE InductiveInvariant
  OBVIOUS
<1> USE OperationsAssumption DEF Init
<1>1. OpsTypeOK
  BY DEF OpsTypeOK, Statuses, Kinds, NoJob, Tasks
<1>2. OperationFitsOrder /\ ReleasedOnlyIfCancelled /\ CancelledIsReleased
  BY DEF OperationFitsOrder, ReleasedOnlyIfCancelled, CancelledIsReleased
<1>3. ChargeIsAccountedFor /\ RefundedNeverShips /\ PaidIsCharged
  BY DEF ChargeIsAccountedFor, RefundedNeverShips, PaidIsCharged
<1>4. JobsFit /\ LockFences /\ EffectBeforeCommit /\ CancelProgress
  BY DEF JobsFit, JobFits, LockFences, EffectBeforeCommit, CancelProgress
<1>5. PaymentsBelong /\ LateIsHarmless
  BY DEF PaymentsBelong, LateIsHarmless
<1> QED
  BY <1>1, <1>2, <1>3, <1>4, <1>5 DEF InductiveInvariant

\* A worker finds the order in the cache.
LEMMA CacheHitPreserves ==
  ASSUME InductiveInvariant, NEW w \in Workers, CacheHit(w)
  PROVE  InductiveInvariant'
<1> USE DEF InductiveInvariant
<1>1. RowsFit /\ UNCHANGED <<order, outside>>
  BY DEF RowsFit, CacheHit
<1>2. RowsFit'
  BY <1>1, RowsFrame
<1>3. OpsTypeOK'
  BY <1>1
     DEF CacheHit, Goto, OpsTypeOK, JobsFit, JobFits, ManualTransitions, order,
        outside
<1>4. JobsFit'
  BY <1>1 DEF CacheHit, Goto, JobsFit, JobFits, OpsTypeOK
<1>5. PaymentsBelong'
  BY <1>1 DEF CacheHit, Goto, PaymentsBelong, order, outside
<1>6. LockFences'
  BY <1>1 DEF CacheHit, Goto, LockFences, order
<1>7. EffectBeforeCommit'
  BY <1>1 DEF CacheHit, Goto, EffectBeforeCommit, order, outside
<1>8. CancelProgress'
  BY <1>1 DEF CacheHit, Goto, CancelProgress, order, outside
<1> QED
  BY <1>2, <1>3, <1>4, <1>5, <1>6, <1>7, <1>8 DEF RowsFit

\* A worker reads the order row.
LEMMA CacheMissPreserves ==
  ASSUME InductiveInvariant, NEW w \in Workers, CacheMiss(w)
  PROVE  InductiveInvariant'
<1> USE DEF InductiveInvariant
<1>1. RowsFit /\ UNCHANGED <<order, outside>>
  BY DEF RowsFit, CacheMiss
<1>2. RowsFit'
  BY <1>1, RowsFrame
<1>3. OpsTypeOK'
  BY <1>1
     DEF CacheMiss, Goto, OpsTypeOK, JobsFit, JobFits, ManualTransitions,
        order, outside
<1>4. JobsFit'
  BY <1>1 DEF CacheMiss, Goto, JobsFit, JobFits, OpsTypeOK
<1>5. PaymentsBelong'
  BY <1>1 DEF CacheMiss, Goto, PaymentsBelong, order, outside
<1>6. LockFences'
  BY <1>1 DEF CacheMiss, Goto, LockFences, order
<1>7. EffectBeforeCommit'
  BY <1>1 DEF CacheMiss, Goto, EffectBeforeCommit, order, outside
<1>8. CancelProgress'
  BY <1>1 DEF CacheMiss, Goto, CancelProgress, order, outside
<1> QED
  BY <1>2, <1>3, <1>4, <1>5, <1>6, <1>7, <1>8 DEF RowsFit

\* A worker stores what it read.
LEMMA CacheFillPreserves ==
  ASSUME InductiveInvariant, NEW w \in Workers, CacheFill(w)
  PROVE  InductiveInvariant'
<1> USE DEF InductiveInvariant
<1>1. RowsFit /\ UNCHANGED <<order, outside>>
  BY DEF RowsFit, CacheFill
<1>2. RowsFit'
  BY <1>1, RowsFrame
<1>3. OpsTypeOK'
  BY <1>1
     DEF CacheFill, Put, Goto, OpsTypeOK, JobsFit, JobFits, ManualTransitions,
        order, outside
<1>4. JobsFit'
  BY <1>1 DEF CacheFill, Goto, JobsFit, JobFits
<1>5. PaymentsBelong'
  BY <1>1 DEF CacheFill, Goto, PaymentsBelong, order, outside
<1>6. LockFences'
  BY <1>1 DEF CacheFill, Goto, LockFences, order
<1>7. EffectBeforeCommit'
  BY <1>1 DEF CacheFill, Goto, EffectBeforeCommit, order, outside
<1>8. CancelProgress'
  BY <1>1 DEF CacheFill, Goto, CancelProgress, order, outside
<1> QED
  BY <1>2, <1>3, <1>4, <1>5, <1>6, <1>7, <1>8 DEF RowsFit

\* A worker invalidates the cache.
LEMMA DropPreserves ==
  ASSUME InductiveInvariant, NEW w \in Workers, Drop(w)
  PROVE  InductiveInvariant'
<1> USE DEF InductiveInvariant
<1>1. RowsFit /\ UNCHANGED <<order, outside>>
  BY DEF RowsFit, Drop
<1>2. RowsFit'
  BY <1>1, RowsFrame
<1>3. OpsTypeOK'
  BY <1>1 DEF Drop, Put, Goto, OpsTypeOK, order, outside
<1>4. JobsFit'
  BY <1>1 DEF Drop, Goto, JobsFit, JobFits, OpsTypeOK
<1>5. PaymentsBelong'
  BY <1>1 DEF Drop, Goto, PaymentsBelong, order, outside
<1>6. LockFences'
  BY <1>1 DEF Drop, Goto, LockFences, order
<1>7. EffectBeforeCommit'
  BY <1>1 DEF Drop, Goto, EffectBeforeCommit, order, outside
<1>8. CancelProgress'
  BY <1>1 DEF Drop, Goto, CancelProgress, order, outside
<1> QED
  BY <1>2, <1>3, <1>4, <1>5, <1>6, <1>7, <1>8 DEF RowsFit

\* A worker ends without a change.
LEMMA DeclinePreserves ==
  ASSUME InductiveInvariant, NEW w \in Workers, Decline(w)
  PROVE  InductiveInvariant'
<1> USE DEF InductiveInvariant
<1>1. RowsFit /\ UNCHANGED <<order, outside>>
  BY DEF RowsFit, Decline
<1>2. RowsFit'
  BY <1>1, RowsFrame
<1>3. OpsTypeOK'
  BY <1>1 DEF Decline, End, NoJob, Goto, OpsTypeOK, Tasks, order, outside
<1>4. JobsFit'
  BY <1>1 DEF Decline, End, Goto, JobsFit, JobFits, OpsTypeOK
<1>5. PaymentsBelong'
  BY <1>1 DEF Decline, End, Goto, PaymentsBelong, order, outside
<1>6. LockFences'
  BY <1>1 DEF Decline, End, Goto, LockFences, order
<1>7. EffectBeforeCommit'
  BY <1>1 DEF Decline, End, Goto, EffectBeforeCommit, order, outside
<1>8. CancelProgress'
  BY <1>1 DEF Decline, End, Goto, CancelProgress, OpsTypeOK, order, outside
<1> QED
  BY <1>2, <1>3, <1>4, <1>5, <1>6, <1>7, <1>8 DEF RowsFit

\* A worker goes on to change the status.
LEMMA DecideStatusPreserves ==
  ASSUME InductiveInvariant, NEW w \in Workers, DecideStatus(w)
  PROVE  InductiveInvariant'
<1> USE DEF InductiveInvariant
<1>1. RowsFit /\ UNCHANGED <<order, outside>>
  BY DEF RowsFit, DecideStatus
<1>2. RowsFit'
  BY <1>1, RowsFrame
<1>3. OpsTypeOK'
  BY <1>1 DEF DecideStatus, Goto, OpsTypeOK, order, outside
<1>4. JobsFit'
  BY <1>1 DEF DecideStatus, Goto, JobsFit, JobFits
<1>5. PaymentsBelong'
  BY <1>1
     DEF DecideStatus, Goto, PaymentsBelong, ManualTransitions, order, outside
<1>6. LockFences'
  BY <1>1 DEF DecideStatus, Goto, LockFences, order
<1>7. EffectBeforeCommit'
  BY <1>1 DEF DecideStatus, Goto, EffectBeforeCommit, order, outside
<1>8. CancelProgress'
  BY <1>1 DEF DecideStatus, Goto, CancelProgress, order, outside
<1> QED
  BY <1>2, <1>3, <1>4, <1>5, <1>6, <1>7, <1>8 DEF RowsFit

\* A worker joins a pending operation.
LEMMA RejoinPreserves ==
  ASSUME InductiveInvariant, NEW w \in Workers, Rejoin(w)
  PROVE  InductiveInvariant'
<1> USE DEF InductiveInvariant
<1>1. RowsFit /\ UNCHANGED <<order, outside>>
  BY DEF RowsFit, Rejoin
<1>2. RowsFit'
  BY <1>1, RowsFrame
<1>3. OpsTypeOK'
  BY <1>1 DEF Rejoin, Goto, OpsTypeOK, order, outside
<1>4. JobsFit'
  BY <1>1 DEF Rejoin, Goto, JobsFit, JobFits
<1>5. PaymentsBelong'
  BY <1>1 DEF Rejoin, Goto, PaymentsBelong, order, outside
<1>6. LockFences'
  BY <1>1 DEF Rejoin, Goto, LockFences, order
<1>7. EffectBeforeCommit'
  BY <1>1 DEF Rejoin, Goto, EffectBeforeCommit, order, outside
<1>8. CancelProgress'
  <2>1. ASSUME job[w].task = "cancel"
        PROVE  /\ job[w].order \in Orders /\ job[w].left = 2
               /\ op[job[w].order] = "refund" \/ status[job[w].order] = "CANCELLED"
    BY <2>1 DEF Rejoin, SameOperation, JobsFit, JobFits, OperationFitsOrder
  <2>2. ASSUME NEW v \in Workers, v # w PROVE pc'[v] = pc[v]
    BY <2>2 DEF Rejoin, Goto
  <2> QED
    BY <1>1, <2>1, <2>2 DEF Rejoin, CancelProgress, order, outside
<1> QED
  BY <1>2, <1>3, <1>4, <1>5, <1>6, <1>7, <1>8 DEF RowsFit

\* A worker finds no operation.
LEMMA NothingPendingPreserves ==
  ASSUME InductiveInvariant, NEW w \in Workers, NothingPending(w)
  PROVE  InductiveInvariant'
<1> USE DEF InductiveInvariant
<1>1. RowsFit /\ UNCHANGED <<order, outside>>
  BY DEF RowsFit, NothingPending
<1>2. RowsFit'
  BY <1>1, RowsFrame
<1>0. job[w].left \in 1..2
  <2>1. job[w].left \in 0..2
    BY DEF OpsTypeOK
  <2>2. job[w].left > 0
    BY DEF NothingPending, JobsFit, JobFits
  <2> QED
    BY <2>1, <2>2
<1>3. OpsTypeOK'
  BY <1>1, <1>0 DEF NothingPending, OneLess, Goto, OpsTypeOK, order, outside
<1>4. JobsFit'
  BY <1>1 DEF NothingPending, OneLess, Goto, JobsFit, JobFits, OpsTypeOK
<1>5. PaymentsBelong'
  BY <1>1 DEF NothingPending, OneLess, Goto, PaymentsBelong, order, outside
<1>6. LockFences'
  BY <1>1 DEF NothingPending, OneLess, Goto, LockFences, order
<1>7. EffectBeforeCommit'
  BY <1>1 DEF NothingPending, OneLess, Goto, EffectBeforeCommit, order, outside
<1>8. CancelProgress'
  <2>1. job'[w].left = job[w].left - 1 /\ job'[w].task = job[w].task /\ job'[w].order = job[w].order
    BY <1>0 DEF NothingPending, OneLess, OpsTypeOK
  <2>2. ASSUME NEW v \in Workers, v # w PROVE job'[v] = job[v] /\ pc'[v] = pc[v]
    BY <2>2 DEF NothingPending, OneLess, Goto
  <2>3. job[w].order \in Orders /\ op[job[w].order] = "none" /\ pc[w] = "lock"
    BY DEF NothingPending, JobsFit, JobFits
  <2> QED
    BY <1>1, <1>0, <2>1, <2>2, <2>3
       DEF CancelProgress, CancelledIsReleased, order, outside
<1> QED
  BY <1>2, <1>3, <1>4, <1>5, <1>6, <1>7, <1>8 DEF RowsFit

\* A worker takes the row lock.
LEMMA LockOrderPreserves ==
  ASSUME InductiveInvariant, NEW w \in Workers, LockOrder(w)
  PROVE  InductiveInvariant'
<1> USE DEF InductiveInvariant
<1>1. RowsFit /\ UNCHANGED <<order, outside>>
  BY DEF RowsFit, LockOrder
<1>2. RowsFit'
  BY <1>1, RowsFrame
<1>3. OpsTypeOK'
  BY <1>1
     DEF LockOrder, Put, Goto, OpsTypeOK, ManualTransitions, order, outside
<1>4. JobsFit'
  BY <1>1 DEF LockOrder, Goto, JobsFit, JobFits
<1>5. PaymentsBelong'
  BY <1>1 DEF LockOrder, Goto, PaymentsBelong, order, outside
<1>6. LockFences'
  <2>1. job[w].order \in Orders /\ lock[job[w].order] = None /\ op[job[w].order] # "none"
    BY DEF LockOrder, JobsFit, JobFits
  <2>2. ASSUME NEW v \in Workers, v # w, pc'[v] \in {"call", "commit"}
        PROVE  lock'[job'[v].order] = v /\ op'[job'[v].order] # "none"
    <3>1. pc[v] \in {"call", "commit"} /\ job'[v] = job[v] /\ job[v].order \in Orders
      BY <2>2 DEF LockOrder, Goto, OpsTypeOK, JobsFit, JobFits
    <3> QED
      BY <1>1, <2>1, <3>1, OperationsAssumption
         DEF LockOrder, LockFences, Put, order
  <2> QED
    BY <1>1, <2>1, <2>2 DEF LockOrder, LockFences, Put, OpsTypeOK, order
<1>7. EffectBeforeCommit'
  BY <1>1 DEF LockOrder, Goto, EffectBeforeCommit, order, outside
<1>8. CancelProgress'
  BY <1>1 DEF LockOrder, Goto, CancelProgress, order, outside
<1> QED
  BY <1>2, <1>3, <1>4, <1>5, <1>6, <1>7, <1>8 DEF RowsFit

\* A worker answers.
LEMMA ReplyPreserves ==
  ASSUME InductiveInvariant, NEW w \in Workers, Reply(w)
  PROVE  InductiveInvariant'
<1> USE DEF InductiveInvariant
<1>1. RowsFit /\ UNCHANGED <<order, outside>>
  BY DEF RowsFit, Reply
<1>2. RowsFit'
  BY <1>1, RowsFrame
<1>3. OpsTypeOK'
  BY <1>1 DEF Reply, End, NoJob, Goto, OpsTypeOK, Tasks, order, outside
<1>4. JobsFit'
  BY <1>1 DEF Reply, End, Goto, JobsFit, JobFits, OpsTypeOK
<1>5. PaymentsBelong'
  BY <1>1 DEF Reply, End, Goto, PaymentsBelong, order, outside
<1>6. LockFences'
  BY <1>1 DEF Reply, End, Goto, LockFences, order
<1>7. EffectBeforeCommit'
  BY <1>1 DEF Reply, End, Goto, EffectBeforeCommit, order, outside
<1>8. CancelProgress'
  BY <1>1 DEF Reply, End, Goto, CancelProgress, OpsTypeOK, order, outside
<1> QED
  BY <1>2, <1>3, <1>4, <1>5, <1>6, <1>7, <1>8 DEF RowsFit

\* A worker gives up.
LEMMA FailPreserves ==
  ASSUME InductiveInvariant, NEW w \in Workers, Fail(w)
  PROVE  InductiveInvariant'
<1> USE DEF InductiveInvariant
<1>1. RowsFit /\ UNCHANGED <<order, outside>>
  BY DEF RowsFit, Fail
<1>2. RowsFit'
  BY <1>1, RowsFrame
<1>3. OpsTypeOK'
  BY <1>1 DEF Fail, Unlock, End, NoJob, Goto, OpsTypeOK, Tasks, order, outside
<1>4. JobsFit'
  BY <1>1 DEF Fail, End, Goto, JobsFit, JobFits, OpsTypeOK
<1>5. PaymentsBelong'
  BY <1>1 DEF Fail, End, Goto, PaymentsBelong, OpsTypeOK, order, outside
<1>6. LockFences'
  <2>1. SUFFICES ASSUME NEW v \in Workers, pc'[v] \in {"call", "commit"}
                 PROVE  lock'[job'[v].order] = v /\ op'[job'[v].order] # "none"
    BY DEF LockFences
  <2>2. v # w /\ pc[v] \in {"call", "commit"} /\ job'[v] = job[v] /\ job[v].order \in Orders
    BY <2>1 DEF Fail, End, Goto, OpsTypeOK, JobsFit, JobFits
  <2> QED
    BY <1>1, <2>2 DEF Fail, Unlock, LockFences, order
<1>7. EffectBeforeCommit'
  BY <1>1 DEF Fail, End, Goto, EffectBeforeCommit, OpsTypeOK, order, outside
<1>8. CancelProgress'
  BY <1>1 DEF Fail, End, Goto, CancelProgress, OpsTypeOK, order, outside
<1> QED
  BY <1>2, <1>3, <1>4, <1>5, <1>6, <1>7, <1>8 DEF RowsFit

\* A payment is created at PayPal, or found again.
LEMMA CreatePaymentPreserves ==
  ASSUME InductiveInvariant, NEW w \in Workers, NEW p \in Payments, CreatePayment(w, p)
  PROVE  InductiveInvariant'
<1> USE DEF InductiveInvariant
<1>1. OpsTypeOK'
  BY DEF CreatePayment, Put, Goto, order, OpsTypeOK, JobsFit, JobFits
<1>2. OperationFitsOrder'
  BY DEF CreatePayment, order, OperationFitsOrder
<1>3. PaidIsCharged'
  BY DEF CreatePayment, Put, order, PaidIsCharged
<1>4. CancelledIsReleased' /\ ReleasedOnlyIfCancelled'
  BY DEF CreatePayment, order, CancelledIsReleased, ReleasedOnlyIfCancelled
<1>5. ChargeIsAccountedFor'
  BY DEF CreatePayment, Put, order, ChargeIsAccountedFor
<1>6. RefundedNeverShips'
  BY DEF CreatePayment, Put, order, RefundedNeverShips
<1>7. JobsFit'
  BY DEF CreatePayment, Goto, OpsTypeOK, JobsFit, JobFits
<1>8. PaymentsBelong'
  BY DEF CreatePayment, Put, Goto, outside, order, PaymentsBelong,
     ManualTransitions, OpsTypeOK, JobsFit, JobFits
<1>9. LockFences'
  BY DEF CreatePayment, Goto, order, LockFences
<1>10. EffectBeforeCommit'
  BY DEF CreatePayment, Put, Goto, order, EffectBeforeCommit
<1>11. LateIsHarmless'
  BY DEF CreatePayment, Put, order, LateIsHarmless, OperationFitsOrder,
     PaidIsCharged, PaymentsBelong, OpsTypeOK
<1>12. CancelProgress'
  BY DEF CreatePayment, Goto, order, CancelProgress
<1> QED
  BY <1>1, <1>2, <1>3, <1>4, <1>5, <1>6, <1>7, <1>8, <1>9, <1>10, <1>11, <1>12

\* pay or updateStatus writes the row.
LEMMA TransitionPreserves ==
  ASSUME InductiveInvariant, NEW w \in Workers, Transition(w)
  PROVE  InductiveInvariant'
<1> USE DEF InductiveInvariant
<1>1. OpsTypeOK'
  <2>1. pc[w] = "write" /\ JobFits(w)
    BY DEF Transition, JobsFit
  <2>2. \/ job[w].task = "pay" /\ job[w].arg \in Payments
        \/ <<job[w].arg, job[w].task>> \in ManualTransitions
    BY <2>1 DEF JobFits
  <2>3. job[w].task # "pay" => job[w].task \in Statuses
    BY <2>2 DEF ManualTransitions, Statuses
  <2>4. status' \in [Orders -> Statuses]
        /\ paymentId' \in [Orders -> Payments \cup {None}]
    BY <2>2, <2>3 DEF Transition, Put, OpsTypeOK, ManualTransitions
  <2>5. pc' = [pc EXCEPT ![w] = "drop"]
    BY DEF Transition, Goto
  <2> QED
    BY <2>4, <2>5 DEF Transition, outside, OpsTypeOK
<1>2. OperationFitsOrder'
  BY DEF Transition, MayTransition, Put, OperationFitsOrder, OpsTypeOK
<1>3. PaidIsCharged'
  BY DEF Transition, MayTransition, ExpectedStatus, Put, outside,
     PaidIsCharged, ManualTransitions, OpsTypeOK, JobsFit, JobFits
<1>4. CancelledIsReleased' /\ ReleasedOnlyIfCancelled'
  BY DEF Transition, MayTransition, ExpectedStatus, Put, outside,
     CancelledIsReleased, ReleasedOnlyIfCancelled, ManualTransitions,
     OpsTypeOK, JobsFit, JobFits
<1>5. ChargeIsAccountedFor'
  BY DEF Transition, MayTransition, ExpectedStatus, Put, outside,
     ChargeIsAccountedFor, ManualTransitions, PaymentsBelong, OpsTypeOK,
     JobsFit, JobFits
<1>6. RefundedNeverShips'
  BY DEF Transition, MayTransition, ExpectedStatus, Put, outside,
     RefundedNeverShips, ManualTransitions, PaymentsBelong, OpsTypeOK, JobsFit,
     JobFits
<1>7. JobsFit'
  BY DEF Transition, Goto, JobsFit, JobFits
<1>8. PaymentsBelong'
  BY DEF Transition, Put, Goto, outside, PaymentsBelong, ManualTransitions,
     OpsTypeOK, JobsFit
<1>9. LockFences'
  BY DEF Transition, Goto, LockFences
<1>10. EffectBeforeCommit'
  BY DEF Transition, MayTransition, Put, Goto, outside, EffectBeforeCommit,
     ManualTransitions, OpsTypeOK, JobsFit, JobFits
<1>11. LateIsHarmless'
  BY DEF Transition, MayTransition, ExpectedStatus, Put, outside,
     LateIsHarmless, ManualTransitions, OpsTypeOK, JobsFit, JobFits
<1>12. CancelProgress'
  BY DEF Transition, MayTransition, ExpectedStatus, Put, Goto, outside,
     CancelProgress, ManualTransitions, OpsTypeOK, JobsFit, JobFits
<1> QED
  BY <1>1, <1>2, <1>3, <1>4, <1>5, <1>6, <1>7, <1>8, <1>9, <1>10, <1>11, <1>12

\* A capture is recorded.
LEMMA StartCapturePreserves ==
  ASSUME InductiveInvariant, NEW w \in Workers, StartCapture(w)
  PROVE  InductiveInvariant'
<1> USE DEF InductiveInvariant
<1>1. OpsTypeOK'
  BY DEF StartCapture, Put, Goto, outside, Kinds, OpsTypeOK
<1>2. OperationFitsOrder'
  BY DEF StartCapture, MayCapture, Put, OperationFitsOrder
<1>3. PaidIsCharged'
  BY DEF StartCapture, outside, PaidIsCharged
<1>4. CancelledIsReleased' /\ ReleasedOnlyIfCancelled'
  BY DEF StartCapture, MayCapture, Put, outside, CancelledIsReleased,
     ReleasedOnlyIfCancelled
<1>5. ChargeIsAccountedFor'
  BY DEF StartCapture, Put, outside, ChargeIsAccountedFor
<1>6. RefundedNeverShips'
  BY DEF StartCapture, MayCapture, Put, outside, RefundedNeverShips
<1>7. JobsFit'
  BY DEF StartCapture, Starts, Goto, JobsFit, JobFits
<1>8. PaymentsBelong'
  BY DEF StartCapture, Goto, outside, PaymentsBelong
<1>9. LockFences'
  BY DEF StartCapture, Put, Goto, LockFences
<1>10. EffectBeforeCommit'
  BY DEF StartCapture, MayCapture, Put, Goto, outside, LockFences,
     EffectBeforeCommit
<1>11. LateIsHarmless'
  BY DEF StartCapture, MayCapture, Put, outside, LateIsHarmless
<1>12. CancelProgress'
  BY DEF StartCapture, Starts, MayCapture, Put, Goto, outside, CancelProgress
<1> QED
  BY <1>1, <1>2, <1>3, <1>4, <1>5, <1>6, <1>7, <1>8, <1>9, <1>10, <1>11, <1>12

\* A refund is recorded.
LEMMA StartRefundPreserves ==
  ASSUME InductiveInvariant, NEW w \in Workers, StartRefund(w)
  PROVE  InductiveInvariant'
<1> USE DEF InductiveInvariant
<1>1. OpsTypeOK'
  BY DEF StartRefund, Put, Goto, outside, Kinds, OpsTypeOK
<1>2. OperationFitsOrder'
  BY DEF StartRefund, MayRefund, Put, OperationFitsOrder
<1>3. PaidIsCharged'
  BY DEF StartRefund, outside, PaidIsCharged
<1>4. CancelledIsReleased' /\ ReleasedOnlyIfCancelled'
  BY DEF StartRefund, MayRefund, Put, outside, CancelledIsReleased,
     ReleasedOnlyIfCancelled
<1>5. ChargeIsAccountedFor'
  BY DEF StartRefund, MayRefund, Put, outside, ChargeIsAccountedFor
<1>6. RefundedNeverShips'
  BY DEF StartRefund, Put, outside, RefundedNeverShips
<1>7. JobsFit'
  BY DEF StartRefund, Starts, Goto, JobsFit, JobFits
<1>8. PaymentsBelong'
  BY DEF StartRefund, Goto, outside, PaymentsBelong
<1>9. LockFences'
  BY DEF StartRefund, Put, Goto, LockFences
<1>10. EffectBeforeCommit'
  BY DEF StartRefund, MayRefund, Put, Goto, outside, LockFences,
     EffectBeforeCommit
<1>11. LateIsHarmless'
  BY DEF StartRefund, MayRefund, Put, outside, LateIsHarmless
<1>12. CancelProgress'
  BY DEF StartRefund, Starts, Put, Goto, outside, CancelProgress,
     ManualTransitions, OpsTypeOK, JobsFit, JobFits
<1> QED
  BY <1>1, <1>2, <1>3, <1>4, <1>5, <1>6, <1>7, <1>8, <1>9, <1>10, <1>11, <1>12

\* An order is cancelled and its release recorded.
LEMMA StartReleasePreserves ==
  ASSUME InductiveInvariant, NEW w \in Workers, StartRelease(w)
  PROVE  InductiveInvariant'
<1> USE DEF InductiveInvariant
<1>1. OpsTypeOK'
  BY DEF StartRelease, Put, Goto, outside, Kinds, Statuses, OpsTypeOK
<1>2. OperationFitsOrder'
  BY DEF StartRelease, Put, OperationFitsOrder, OpsTypeOK
<1>3. PaidIsCharged'
  BY DEF StartRelease, Put, outside, PaidIsCharged
<1>4. CancelledIsReleased' /\ ReleasedOnlyIfCancelled'
  BY DEF StartRelease, Put, outside, CancelledIsReleased,
     ReleasedOnlyIfCancelled, OpsTypeOK
<1>5. ChargeIsAccountedFor'
  BY DEF StartRelease, Put, outside, ChargeIsAccountedFor
<1>6. RefundedNeverShips'
  BY DEF StartRelease, Put, outside, RefundedNeverShips
<1>7. JobsFit'
  BY DEF StartRelease, Starts, Goto, JobsFit, JobFits
<1>8. PaymentsBelong'
  BY DEF StartRelease, Goto, outside, PaymentsBelong
<1>9. LockFences'
  BY DEF StartRelease, Put, Goto, LockFences
<1>10. EffectBeforeCommit'
  BY DEF StartRelease, Put, Goto, outside, LockFences, EffectBeforeCommit
<1>11. LateIsHarmless'
  BY DEF StartRelease, Put, outside, LateIsHarmless
<1>12. CancelProgress'
  BY DEF StartRelease, Starts, Put, Goto, outside, CancelProgress,
     ManualTransitions, OpsTypeOK, JobsFit, JobFits
<1> QED
  BY <1>1, <1>2, <1>3, <1>4, <1>5, <1>6, <1>7, <1>8, <1>9, <1>10, <1>11, <1>12

\* PayPal captures the payment and answers.
LEMMA CapturePreserves ==
  ASSUME InductiveInvariant, NEW w \in Workers, Capture(w)
  PROVE  InductiveInvariant'
<1> USE DEF InductiveInvariant
<1>1. OpsTypeOK'
  BY DEF Capture, Put, Goto, order, Kinds, ManualTransitions, OpsTypeOK,
     JobsFit, JobFits, OperationFitsOrder
<1>2. OperationFitsOrder'
  BY DEF Capture, order, OperationFitsOrder
<1>3. PaidIsCharged'
  BY DEF Capture, Put, order, PaidIsCharged
<1>4. CancelledIsReleased' /\ ReleasedOnlyIfCancelled'
  BY DEF Capture, order, CancelledIsReleased, ReleasedOnlyIfCancelled
<1>5. ChargeIsAccountedFor'
  BY DEF Capture, Put, order, OperationFitsOrder, ChargeIsAccountedFor,
     ManualTransitions, PaymentsBelong, JobsFit, JobFits
<1>6. RefundedNeverShips'
  BY DEF Capture, Put, order, RefundedNeverShips
<1>7. JobsFit'
  BY DEF Capture, Goto, OpsTypeOK, JobsFit, JobFits
<1>8. PaymentsBelong'
  BY DEF Capture, Put, Goto, order, PaymentsBelong
<1>9. LockFences'
  BY DEF Capture, Goto, order, LockFences
<1>10. EffectBeforeCommit'
  BY DEF Capture, Put, Goto, order, EffectBeforeCommit, OperationFitsOrder,
     ManualTransitions, OpsTypeOK, JobsFit, JobFits
<1>11. LateIsHarmless'
  BY DEF Capture, Put, order, LateIsHarmless
<1>12. CancelProgress'
  BY DEF Capture, Goto, order, CancelProgress
<1> QED
  BY <1>1, <1>2, <1>3, <1>4, <1>5, <1>6, <1>7, <1>8, <1>9, <1>10, <1>11, <1>12

\* PayPal refunds the capture and answers.
LEMMA RefundPreserves ==
  ASSUME InductiveInvariant, NEW w \in Workers, Refund(w)
  PROVE  InductiveInvariant'
<1> USE DEF InductiveInvariant
<1>1. OpsTypeOK'
  BY DEF Refund, Put, Goto, order, OpsTypeOK
<1>2. OperationFitsOrder'
  BY DEF Refund, order, OperationFitsOrder
<1>3. PaidIsCharged'
  BY DEF Refund, Put, order, PaidIsCharged
<1>4. CancelledIsReleased' /\ ReleasedOnlyIfCancelled'
  BY DEF Refund, order, CancelledIsReleased, ReleasedOnlyIfCancelled
<1>5. ChargeIsAccountedFor'
  BY DEF Refund, Put, order, ChargeIsAccountedFor
<1>6. RefundedNeverShips'
  BY DEF Refund, Put, order, OperationFitsOrder, PaidIsCharged,
     RefundedNeverShips, ManualTransitions, PaymentsBelong, JobsFit, JobFits
<1>7. JobsFit'
  BY DEF Refund, Goto, JobsFit, JobFits
<1>8. PaymentsBelong'
  BY DEF Refund, Put, Goto, order, PaymentsBelong
<1>9. LockFences'
  BY DEF Refund, Goto, order, LockFences
<1>10. EffectBeforeCommit'
  BY DEF Refund, Put, Goto, order, EffectBeforeCommit, ManualTransitions,
     OpsTypeOK, JobsFit, JobFits
<1>11. LateIsHarmless'
  BY DEF Refund, Put, order, LateIsHarmless
<1>12. CancelProgress'
  BY DEF Refund, Goto, order, CancelProgress
<1> QED
  BY <1>1, <1>2, <1>3, <1>4, <1>5, <1>6, <1>7, <1>8, <1>9, <1>10, <1>11, <1>12

\* Products releases the reservation and answers.
LEMMA ReleaseStockPreserves ==
  ASSUME InductiveInvariant, NEW w \in Workers, ReleaseStock(w)
  PROVE  InductiveInvariant'
<1> USE DEF InductiveInvariant
<1>1. OpsTypeOK'
  BY DEF ReleaseStock, Goto, order, paypal, OpsTypeOK, JobsFit, JobFits
<1>2. OperationFitsOrder'
  BY DEF ReleaseStock, order, OperationFitsOrder
<1>3. PaidIsCharged'
  BY DEF ReleaseStock, order, paypal, PaidIsCharged
<1>4. CancelledIsReleased' /\ ReleasedOnlyIfCancelled'
  BY DEF ReleaseStock, order, CancelledIsReleased, ReleasedOnlyIfCancelled,
     OperationFitsOrder, JobsFit, JobFits
<1>5. ChargeIsAccountedFor'
  BY DEF ReleaseStock, order, paypal, ChargeIsAccountedFor
<1>6. RefundedNeverShips'
  BY DEF ReleaseStock, order, paypal, RefundedNeverShips
<1>7. JobsFit'
  BY DEF ReleaseStock, Goto, JobsFit, JobFits
<1>8. PaymentsBelong'
  BY DEF ReleaseStock, Goto, order, paypal, PaymentsBelong
<1>9. LockFences'
  BY DEF ReleaseStock, Goto, order, LockFences
<1>10. EffectBeforeCommit'
  BY DEF ReleaseStock, Goto, order, paypal, EffectBeforeCommit
<1>11. LateIsHarmless'
  BY DEF ReleaseStock, order, paypal, LateIsHarmless
<1>12. CancelProgress'
  BY DEF ReleaseStock, Goto, order, CancelProgress
<1> QED
  BY <1>1, <1>2, <1>3, <1>4, <1>5, <1>6, <1>7, <1>8, <1>9, <1>10, <1>11, <1>12

\* The external call fails or times out.
LEMMA CallFailsPreserves ==
  ASSUME InductiveInvariant, NEW w \in Workers, CallFails(w)
  PROVE  InductiveInvariant'
<1> USE DEF InductiveInvariant
<1>1. OpsTypeOK'
  BY DEF CallFails, Sent, Unlock, End, NoJob, Goto, order, paypal, Tasks,
     ManualTransitions, OpsTypeOK, JobsFit, JobFits, LockFences
<1>2. OperationFitsOrder'
  BY DEF CallFails, order, OperationFitsOrder
<1>3. PaidIsCharged'
  BY DEF CallFails, order, paypal, PaidIsCharged
<1>4. CancelledIsReleased' /\ ReleasedOnlyIfCancelled'
  BY DEF CallFails, order, CancelledIsReleased, ReleasedOnlyIfCancelled
<1>5. ChargeIsAccountedFor'
  BY DEF CallFails, order, paypal, ChargeIsAccountedFor
<1>6. RefundedNeverShips'
  BY DEF CallFails, order, paypal, RefundedNeverShips
<1>7. JobsFit'
  BY DEF CallFails, End, Goto, OpsTypeOK, JobsFit, JobFits
<1>8. PaymentsBelong'
  BY DEF CallFails, End, Goto, order, paypal, PaymentsBelong
<1>9. LockFences'
  <2>1. SUFFICES ASSUME NEW v \in Workers, pc'[v] \in {"call", "commit"}
                 PROVE  lock'[job'[v].order] = v /\ op'[job'[v].order] # "none"
    BY DEF LockFences
  <2>2. v # w /\ pc[v] \in {"call", "commit"} /\ job'[v] = job[v] /\ job[v].order \in Orders
    BY <2>1 DEF CallFails, End, Goto, OpsTypeOK, JobsFit, JobFits
  <2> QED
    BY <2>2 DEF CallFails, Unlock, LockFences, order
<1>10. EffectBeforeCommit'
  BY DEF CallFails, End, Goto, order, paypal, EffectBeforeCommit
<1>11. LateIsHarmless'
  BY DEF CallFails, Sent, order, paypal, LateIsHarmless, OperationFitsOrder,
     PaidIsCharged, PaymentsBelong, ManualTransitions, OpsTypeOK, JobsFit,
     JobFits
<1>12. CancelProgress'
  BY DEF CallFails, End, Goto, order, CancelProgress, OpsTypeOK
<1> QED
  BY <1>1, <1>2, <1>3, <1>4, <1>5, <1>6, <1>7, <1>8, <1>9, <1>10, <1>11, <1>12

\* The outcome of the external call commits.
LEMMA CommitPreserves ==
  ASSUME InductiveInvariant, NEW w \in Workers, Commit(w)
  PROVE  InductiveInvariant'
<1> USE DEF InductiveInvariant
<1>1. OpsTypeOK'
  <2> DEFINE o == job[w].order
  <2>1. /\ pc[w] = "commit" /\ o \in Orders /\ job[w].left \in 1..2
        /\ op[o] = "capture" => job[w].arg \in Payments \cup {None}
    <3>1. pc[w] = "commit"
      BY DEF Commit
    <3>2. JobFits(w)
      BY DEF JobsFit
    <3>3. o \in Orders /\ job[w].left > 0
      BY <3>1, <3>2 DEF JobFits
    <3>4. job[w].left \in 0..2 /\ paymentId[o] \in Payments \cup {None}
      BY <3>3 DEF OpsTypeOK
    <3>5. op[o] = "capture" => job[w].arg \in {paymentId[o], None}
      BY <3>1 DEF EffectBeforeCommit
    <3> HIDE DEF o
    <3> QED
      BY <3>1, <3>3, <3>4, <3>5
  <2>2. Outcome(op[o], status[o]) \in Statuses
    BY <2>1 DEF Outcome, Statuses, OpsTypeOK
  <2>3. FollowUp(op[o]) \in Kinds \cup {"none"}
    BY DEF FollowUp, Kinds
  <2>4. status' \in [Orders -> Statuses] /\ op' \in [Orders -> Kinds \cup {"none"}]
        /\ captureId' \in [Orders -> Payments \cup {None}]
    BY <2>1, <2>2, <2>3 DEF Commit, Put, OpsTypeOK
  <2>5. lock' \in [Orders -> Workers \cup {None}]
    BY DEF Commit, Unlock, Put, OpsTypeOK
  <2>6. job' \in [Workers -> [task : Tasks, order : Orders \cup {None},
                             arg : Statuses \cup Payments \cup {None},
                             left : 0..2]]
    BY <2>1 DEF Commit, OneLess, OpsTypeOK
  <2>7. pc' = [pc EXCEPT ![w] = "drop"]
    BY DEF Commit, Goto
  <2> QED
    BY <2>4, <2>5, <2>6, <2>7 DEF Commit, outside, OpsTypeOK
<1>2. OperationFitsOrder'
  BY DEF Commit, Outcome, FollowUp, Put, OperationFitsOrder, OpsTypeOK
<1>3. PaidIsCharged'
  BY DEF Commit, Outcome, Put, outside, PaidIsCharged, EffectBeforeCommit,
     OpsTypeOK, OperationFitsOrder
<1>4. CancelledIsReleased' /\ ReleasedOnlyIfCancelled'
  BY DEF Commit, Outcome, FollowUp, Put, outside, CancelledIsReleased,
     ReleasedOnlyIfCancelled, OperationFitsOrder, EffectBeforeCommit, OpsTypeOK
<1>5. ChargeIsAccountedFor'
  BY DEF Commit, Outcome, Put, outside, OperationFitsOrder, PaidIsCharged,
     ChargeIsAccountedFor, EffectBeforeCommit, OpsTypeOK
<1>6. RefundedNeverShips'
  BY DEF Commit, Outcome, Put, outside, OperationFitsOrder, RefundedNeverShips,
     OpsTypeOK
<1>7. JobsFit'
  BY DEF Commit, OneLess, Goto, OpsTypeOK, JobsFit, JobFits
<1>8. PaymentsBelong'
  BY DEF Commit, OneLess, Goto, outside, PaymentsBelong
<1>9. LockFences'
  <2>1. SUFFICES ASSUME NEW v \in Workers, pc'[v] \in {"call", "commit"}
                 PROVE  lock'[job'[v].order] = v /\ op'[job'[v].order] # "none"
    BY DEF LockFences
  <2>2. v # w /\ pc[v] \in {"call", "commit"} /\ job'[v] = job[v] /\ job[v].order \in Orders
    BY <2>1 DEF Commit, OneLess, Goto, OpsTypeOK, JobsFit, JobFits
  <2>3. job[v].order # job[w].order
    BY <2>2 DEF Commit, LockFences
  <2> QED
    BY <2>2, <2>3 DEF Commit, Unlock, LockFences, Put
<1>10. EffectBeforeCommit'
  BY DEF Commit, OneLess, Put, Goto, outside, LockFences, EffectBeforeCommit,
     OpsTypeOK
<1>11. LateIsHarmless'
  BY DEF Commit, Outcome, Put, outside, LateIsHarmless, OperationFitsOrder,
     EffectBeforeCommit, OpsTypeOK
<1>12. CancelProgress'
  BY DEF Commit, Outcome, OneLess, Put, Goto, outside, CancelProgress,
     OperationFitsOrder, CancelledIsReleased, EffectBeforeCommit,
     ManualTransitions, OpsTypeOK, JobsFit, JobFits
<1> QED
  BY <1>1, <1>2, <1>3, <1>4, <1>5, <1>6, <1>7, <1>8, <1>9, <1>10, <1>11, <1>12

\* A request or a job begins.
LEMMA BeginPreserves ==
  ASSUME InductiveInvariant, NEW w \in Workers, NEW o \in Orders,
         NEW task \in Tasks, NEW left \in 0..2, NEW label,
         Begin(w, task, o, None, left, label),
         \/ /\ label = "find" /\ left = 0
            /\ task \in {"pay", "view", "SHIPPED", "DELIVERED"}
         \/ label = "start" /\ task = "capture" /\ left = 1
         \/ label = "start" /\ task = "cancel" /\ left = 2
         \/ label = "lock" /\ task = "recover" /\ left = 1
  PROVE  InductiveInvariant'
<1> USE DEF InductiveInvariant
<1>1. RowsFit /\ UNCHANGED <<order, outside>>
  BY DEF RowsFit, Begin
<1>2. RowsFit'
  BY <1>1, RowsFrame
<1>3. OpsTypeOK'
  BY <1>1 DEF Begin, Goto, OpsTypeOK, order, outside
<1>4. JobsFit'
  BY DEF Begin, Goto, JobsFit, JobFits, OpsTypeOK
<1>5. PaymentsBelong'
  BY <1>1 DEF Begin, Goto, PaymentsBelong, order, outside
<1>6. LockFences' /\ EffectBeforeCommit'
  BY <1>1 DEF Begin, Goto, LockFences, EffectBeforeCommit, order, outside
<1>7. CancelProgress'
  BY <1>1 DEF Begin, Goto, CancelProgress, OpsTypeOK, order, outside
<1> QED
  BY <1>2, <1>3, <1>4, <1>5, <1>6, <1>7 DEF RowsFit

\* The cache only holds copies; nothing depends on them.
LEMMA CacheExpiresPreserves ==
  ASSUME InductiveInvariant, NEW o \in Orders, CacheExpires(o)
  PROVE  InductiveInvariant'
<1> USE DEF InductiveInvariant
<1>1. OpsTypeOK'
  BY DEF CacheExpires, Put, OpsTypeOK, order, outside, control
<1>2. RowsFit'
  BY RowsFrame DEF RowsFit, CacheExpires
<1>3. JobsFit' /\ PaymentsBelong' /\ LockFences' /\ EffectBeforeCommit' /\ CancelProgress'
  BY DEF CacheExpires, order, outside, control, JobsFit, JobFits,
     PaymentsBelong, LockFences, EffectBeforeCommit, CancelProgress
<1> QED
  BY <1>1, <1>2, <1>3 DEF RowsFit

\* Steps of PayPal alone: payments only move forward.
LEMMA PaypalPreserves ==
  ASSUME InductiveInvariant,
         NEW p \in Payments, NEW s \in {"approved", "captured", "refunded"},
         payState' = Put(payState, p, s),
         \/ payState[p] = "created" /\ s = "approved"
         \/ /\ payState[p] = "approved" /\ s = "captured"
            /\ op[payOrder[p]] = "capture" /\ paymentId[payOrder[p]] = p
         \/ /\ payState[p] = "captured" /\ s = "refunded"
            /\ op[payOrder[p]] = "refund" /\ captureId[payOrder[p]] = p,
         inflight' \in SUBSET inflight,
         UNCHANGED <<order, lock, cache, payOrder, released, control>>
  PROVE  InductiveInvariant'
<1> USE DEF InductiveInvariant
<1>1. OpsTypeOK'
  BY DEF Put, OpsTypeOK, order, control
<1>2. OperationFitsOrder' /\ ReleasedOnlyIfCancelled' /\ CancelledIsReleased'
  BY DEF OperationFitsOrder, ReleasedOnlyIfCancelled, CancelledIsReleased,
     order
<1>3. PaidIsCharged' /\ ChargeIsAccountedFor' /\ RefundedNeverShips'
  BY DEF Put, order, PaidIsCharged, ChargeIsAccountedFor, RefundedNeverShips,
     OperationFitsOrder, PaymentsBelong
<1>4. JobsFit' /\ LockFences' /\ CancelProgress'
  BY DEF order, control, JobsFit, JobFits, LockFences, CancelProgress
<1>5. PaymentsBelong'
  BY DEF Put, order, control, PaymentsBelong
<1>6. EffectBeforeCommit'
  BY DEF Put, order, control, EffectBeforeCommit
<1>7. LateIsHarmless'
  BY DEF Put, order, LateIsHarmless
<1> QED
  BY <1>1, <1>2, <1>3, <1>4, <1>5, <1>6, <1>7

\* A late call that only repeats what was done, or releases a cancelled order.
LEMMA LateRepeatPreserves ==
  ASSUME InductiveInvariant,
         inflight' \in SUBSET inflight,
         \/ released' = released
         \/ \E o \in Orders : status[o] = "CANCELLED" /\ released' = released \cup {o},
         UNCHANGED <<order, lock, cache, paypal, control>>
  PROVE  InductiveInvariant'
<1> USE DEF InductiveInvariant, order, paypal, control
<1>1. OpsTypeOK'
  BY DEF OpsTypeOK
<1>2. RowsFit'
  BY DEF RowsFit, OperationFitsOrder, ChargeIsAccountedFor, RefundedNeverShips,
     ReleasedOnlyIfCancelled, PaidIsCharged, LateIsHarmless,
     CancelledIsReleased
<1>3. JobsFit' /\ LockFences' /\ PaymentsBelong'
  BY DEF JobsFit, JobFits, LockFences, PaymentsBelong
<1>4. EffectBeforeCommit' /\ CancelProgress'
  BY DEF EffectBeforeCommit, CancelProgress
<1> QED
  BY <1>1, <1>2, <1>3, <1>4 DEF RowsFit

\* The buyer approves a payment.
LEMMA ApprovePreserves ==
  ASSUME InductiveInvariant, NEW p \in Payments, Approve(p)
  PROVE  InductiveInvariant'
  BY PaypalPreserves DEF Approve

\* PayPal executes a capture whose sender gave up: either it repeats the
\* capture, or the operation that sent it is still pending.
LEMMA LateCapturePreserves ==
  ASSUME InductiveInvariant, NEW m \in inflight, LateCapture(m)
  PROVE  InductiveInvariant'
<1> DEFINE p == m.payment
<1>1. p \in Payments /\ payOrder[p] = m.order
  BY DEF InductiveInvariant, LateIsHarmless, LateCapture
<1>2. CASE payState[p] = "approved"
  <2>1. op[payOrder[p]] = "capture" /\ paymentId[payOrder[p]] = p
    BY <1>1, <1>2 DEF InductiveInvariant, LateIsHarmless, LateCapture
  <2> QED
    BY <1>1, <1>2, <2>1, PaypalPreserves DEF LateCapture
<1>3. CASE payState[p] # "approved"
  BY <1>3, LateRepeatPreserves DEF LateCapture, paypal
<1> QED
  BY <1>2, <1>3

\* A refund whose sender gave up is executed after all.
LEMMA LateRefundPreserves ==
  ASSUME InductiveInvariant, NEW m \in inflight, LateRefund(m)
  PROVE  InductiveInvariant'
<1> DEFINE p == m.payment
<1>1. p \in Payments /\ payOrder[p] = m.order
  BY DEF InductiveInvariant, LateIsHarmless, LateRefund
<1>2. CASE payState[p] = "captured"
  <2>1. op[payOrder[p]] = "refund" /\ captureId[payOrder[p]] = p
    BY <1>1, <1>2 DEF InductiveInvariant, LateIsHarmless, LateRefund
  <2> QED
    BY <1>1, <1>2, <2>1, PaypalPreserves DEF LateRefund
<1>3. CASE payState[p] # "captured"
  BY <1>3, LateRepeatPreserves DEF LateRefund, paypal
<1> QED
  BY <1>2, <1>3

\* A release whose sender gave up is executed after all.
LEMMA LateReleasePreserves ==
  ASSUME InductiveInvariant, NEW m \in inflight, LateRelease(m)
  PROVE  InductiveInvariant'
<1>1. m.order \in Orders /\ status[m.order] = "CANCELLED"
  BY DEF InductiveInvariant, OpsTypeOK, LateIsHarmless, LateRelease
<1> QED
  BY <1>1, LateRepeatPreserves DEF LateRelease

----------------------------------------------------------------------------
\* A request or a job begins.
LEMMA RequestPreserves ==
  ASSUME InductiveInvariant, NEW w \in Workers, NEW o \in Orders,
         Request(w, o) \/ PickOperation(w, o)
  PROVE  InductiveInvariant'
  BY BeginPreserves
     DEF Request, PickOperation, CaptureRequest, CancelRequest, PayRequest,
        ViewRequest, StatusRequest, ReturnFromPaypal, Tasks

\* A step of something else.
LEMMA StutterPreserves ==
  InductiveInvariant /\ UNCHANGED vars => InductiveInvariant'
<1> SUFFICES ASSUME InductiveInvariant, UNCHANGED vars
             PROVE  InductiveInvariant'
  OBVIOUS
<1> USE DEF InductiveInvariant, vars, order, outside, paypal, control
<1>1. OpsTypeOK' /\ RowsFit'
  BY RowsFrame DEF OpsTypeOK, RowsFit
<1>2. JobsFit' /\ LockFences' /\ PaymentsBelong'
  BY DEF JobsFit, JobFits, LockFences, PaymentsBelong
<1>3. EffectBeforeCommit' /\ CancelProgress'
  BY DEF EffectBeforeCommit, CancelProgress
<1> QED
  BY <1>1, <1>2, <1>3 DEF RowsFit

\* Every step preserves the invariant: one lemma per action.
LEMMA NextPreserves ==
  InductiveInvariant /\ [Next]_vars => InductiveInvariant'
<1> SUFFICES ASSUME InductiveInvariant, [Next]_vars
             PROVE  InductiveInvariant'
  OBVIOUS
<1>1. CASE \E w \in Handlers, o \in Orders : Request(w, o)
  BY <1>1, RequestPreserves DEF Workers
<1>2. CASE \E c \in Crons, o \in Orders : PickOperation(c, o)
  BY <1>2, RequestPreserves DEF Workers
<1>3. ASSUME NEW w \in Workers, Find(w) \/ Decide(w) \/ Transition(w)
      PROVE  InductiveInvariant'
  BY <1>3, CacheHitPreserves, CacheMissPreserves, CacheFillPreserves,
     DeclinePreserves, DecideStatusPreserves, CreatePaymentPreserves,
     TransitionPreserves
     DEF Find, Decide
<1>4. ASSUME NEW w \in Workers, Start(w)
      PROVE  InductiveInvariant'
  BY <1>4, RejoinPreserves, StartCapturePreserves, StartRefundPreserves,
     StartReleasePreserves
     DEF Start
<1>5. ASSUME NEW w \in Workers,
             Acquire(w) \/ Answered(w) \/ CallFails(w) \/ Commit(w)
      PROVE  InductiveInvariant'
  BY <1>5, NothingPendingPreserves, LockOrderPreserves, CapturePreserves,
     RefundPreserves, ReleaseStockPreserves, CallFailsPreserves,
     CommitPreserves
     DEF Acquire, Answered
<1>6. ASSUME NEW w \in Workers, Drop(w) \/ Reply(w) \/ Fail(w)
      PROVE  InductiveInvariant'
  BY <1>6, DropPreserves, ReplyPreserves, FailPreserves
<1>7. CASE \E o \in Orders : CacheExpires(o)
  BY <1>7, CacheExpiresPreserves
<1>8. CASE \E p \in Payments : Approve(p)
  BY <1>8, ApprovePreserves
<1>9. CASE \E m \in inflight : LateCapture(m) \/ LateRefund(m) \/ LateRelease(m)
  BY <1>9, LateCapturePreserves, LateRefundPreserves, LateReleasePreserves
<1> QED
  BY <1>1, <1>2, <1>3, <1>4, <1>5, <1>6, <1>7, <1>8, <1>9, StutterPreserves
     DEF Next

----------------------------------------------------------------------------
(* The theorems *)

\* The strengthened invariant holds in every reachable state.
THEOREM Invariance == Spec => []InductiveInvariant
  BY InitEstablishes, NextPreserves, PTL DEF Spec

\* Every variable keeps its type; in particular the columns of the tables.
THEOREM TypeCorrect == Spec => []OpsTypeOK
<1>1. InductiveInvariant => OpsTypeOK
  BY DEF InductiveInvariant
<1> QED
  BY Invariance, <1>1, PTL

\* For any number of orders, payments, handlers and replicas: an operation
\* row never contradicts its order row.
THEOREM OperationsFit == Spec => []OperationFitsOrder
<1>1. InductiveInvariant => OperationFitsOrder
  BY DEF InductiveInvariant
<1> QED
  BY Invariance, <1>1, PTL

\* No charge PayPal made is ever lost track of.
THEOREM NoChargeIsLost == Spec => []ChargeIsAccountedFor
<1>1. InductiveInvariant => ChargeIsAccountedFor
  BY DEF InductiveInvariant
<1> QED
  BY Invariance, <1>1, PTL

\* A refunded order is never shipped.
THEOREM NoRefundedOrderShips == Spec => []RefundedNeverShips
<1>1. InductiveInvariant => RefundedNeverShips
  BY DEF InductiveInvariant
<1> QED
  BY Invariance, <1>1, PTL

\* Only cancelled orders have their stock released.
THEOREM ReleaseNeedsCancel == Spec => []ReleasedOnlyIfCancelled
<1>1. InductiveInvariant => ReleasedOnlyIfCancelled
  BY DEF InductiveInvariant
<1> QED
  BY Invariance, <1>1, PTL

\* A cancel that answers success left nothing undone.
THEOREM CancelIsComplete == Spec => CancelSettles
<1> DEFINE Settled(w) ==
      Reply(w) /\ job[w].task = "cancel" =>
        LET o == job[w].order IN
        /\ status[o] = "CANCELLED"
        /\ o \in released
        /\ \A p \in Payments : payOrder[p] = o => payState[p] # "captured"
<1>1. ASSUME InductiveInvariant, NEW w \in Workers PROVE Settled(w)
  <2>1. SUFFICES ASSUME Reply(w), job[w].task = "cancel" PROVE Settled(w)
    OBVIOUS
  <2>2. status[job[w].order] = "CANCELLED" /\ job[w].order \in released
    BY <1>1, <2>1
       DEF InductiveInvariant, JobsFit, JobFits, CancelProgress, Reply
  <2> QED
    BY <1>1, <2>2 DEF InductiveInvariant, ChargeIsAccountedFor
<1>2. InductiveInvariant /\ [Next]_vars => [\A w \in Workers : Settled(w)]_vars
  BY <1>1
<1> QED
  BY Invariance, <1>2, PTL DEF Spec, CancelSettles

\* The payment of an order is settled once its capture was recorded.
THEOREM PaymentNeverChanges == Spec => PaymentFrozen
<1> DEFINE Frozen ==
      \A o \in Orders :
        op[o] = "capture" \/ status[o] # "PENDING" => paymentId'[o] = paymentId[o]
<1>1. ASSUME InductiveInvariant, Next PROVE Frozen
  <2>1. ASSUME NEW w \in Workers, Transition(w) PROVE Frozen
    <3>1. CASE job[w].task = "pay"
      <4>1. status[job[w].order] = "PENDING" /\ op[job[w].order] = "none"
        BY <2>1, <3>1 DEF Transition, MayTransition, ExpectedStatus
      <4>2. \A o \in Orders : o # job[w].order => paymentId'[o] = paymentId[o]
        BY <1>1, <2>1, <3>1 DEF InductiveInvariant, OpsTypeOK, Transition, Put
      <4> QED
        BY <4>1, <4>2
    <3>2. CASE job[w].task # "pay"
      BY <2>1, <3>2 DEF Transition
    <3> QED
      BY <3>1, <3>2
  <2>2. ASSUME NEW w \in Workers,
               Find(w) \/ Decide(w) \/ Start(w) \/ Acquire(w) \/ Answered(w)
               \/ CallFails(w) \/ Commit(w) \/ Drop(w) \/ Reply(w) \/ Fail(w)
        PROVE  paymentId' = paymentId
    <3>1. CASE Find(w) \/ Decide(w)
      BY <3>1 DEF Find, CacheHit, CacheMiss, CacheFill, Decide, Decline,
              DecideStatus, CreatePayment, order
    <3>2. CASE Start(w)
      BY <3>2 DEF Start, Rejoin, StartCapture, StartRefund, StartRelease, order
    <3>3. CASE Acquire(w) \/ Answered(w) \/ CallFails(w) \/ Commit(w)
      BY <3>3 DEF Acquire, NothingPending, LockOrder, Answered, Capture, Refund,
              ReleaseStock, CallFails, Commit, order
    <3>4. CASE Drop(w) \/ Reply(w) \/ Fail(w)
      BY <3>4 DEF Drop, Reply, Fail, order
    <3> QED
      BY <2>2, <3>1, <3>2, <3>3, <3>4
  <2>3. ASSUME \/ \E w \in Handlers, q \in Orders : Request(w, q)
               \/ \E c \in Crons, q \in Orders : PickOperation(c, q)
        PROVE  paymentId' = paymentId
    BY <2>3 DEF Request, CaptureRequest, CancelRequest, PayRequest, ViewRequest,
            StatusRequest, ReturnFromPaypal, PickOperation, Begin, order
  <2>4. ASSUME \/ \E q \in Orders : CacheExpires(q)
               \/ \E p \in Payments : Approve(p)
               \/ \E m \in inflight : LateCapture(m) \/ LateRefund(m) \/ LateRelease(m)
        PROVE  paymentId' = paymentId
    BY <2>4 DEF CacheExpires, Approve, LateCapture, LateRefund, LateRelease, order
  <2> QED
    BY <1>1, <2>1, <2>2, <2>3, <2>4 DEF Next
<1>2. InductiveInvariant /\ [Next]_vars => [Frozen]_vars
  BY <1>1
<1> QED
  BY Invariance, <1>2, PTL DEF Spec, PaymentFrozen

\* The safe half of CancellationCompletes and CaptureCompletes: the row of an
\* accepted operation is never withdrawn or replaced by anybody. It only goes,
\* or gives way to the release, when PayPal or Products have carried it out.
OperationsEndInTheirEffect ==
  [][\A o \in Orders : op[o] # "none" /\ op'[o] # op[o] =>
       \/ /\ op[o] = "capture" /\ op'[o] = "none"
          /\ status'[o] = "PAID" /\ payState[paymentId[o]] = "captured"
       \/ /\ op[o] = "refund" /\ op'[o] = "release"
          /\ status'[o] = "CANCELLED" /\ payState[paymentId[o]] = "refunded"
       \/ /\ op[o] = "release" /\ op'[o] = "none"
          /\ status'[o] = "CANCELLED" /\ o \in released]_vars

\* Only the transaction that made the external call ends an operation.
LEMMA OnlyCommitsEndOperations ==
  ASSUME InductiveInvariant, Next, NEW o \in Orders,
         op[o] # "none", op'[o] # op[o]
  PROVE  \E w \in Workers : Commit(w) /\ job[w].order = o
<1>1. ASSUME NEW w \in Workers,
             StartCapture(w) \/ StartRefund(w) \/ StartRelease(w)
      PROVE  op'[o] = op[o]
  BY <1>1 DEF InductiveInvariant, OpsTypeOK, StartCapture, StartRefund,
          StartRelease, MayCapture, MayRefund, Put
<1>2. ASSUME NEW w \in Workers, Commit(w), job[w].order # o
      PROVE  op'[o] = op[o]
  BY <1>2 DEF InductiveInvariant, OpsTypeOK, Commit, Put
<1>3. ASSUME NEW w \in Workers,
             \/ Find(w) \/ Decide(w) \/ Transition(w) \/ Acquire(w)
             \/ Answered(w) \/ CallFails(w) \/ Drop(w) \/ Reply(w) \/ Fail(w)
             \/ Rejoin(w)
      PROVE  op' = op
  <2>1. CASE Find(w) \/ Decide(w) \/ Transition(w)
    BY <2>1 DEF Find, CacheHit, CacheMiss, CacheFill, Decide, Decline,
            DecideStatus, CreatePayment, Transition, order
  <2>2. CASE Acquire(w) \/ Answered(w) \/ CallFails(w)
    BY <2>2 DEF Acquire, NothingPending, LockOrder, Answered, Capture, Refund,
            ReleaseStock, CallFails, order
  <2>3. CASE Drop(w) \/ Reply(w) \/ Fail(w) \/ Rejoin(w)
    BY <2>3 DEF Drop, Reply, Fail, Rejoin, order
  <2> QED
    BY <1>3, <2>1, <2>2, <2>3
<1>4. ASSUME \/ \E w \in Handlers, q \in Orders : Request(w, q)
             \/ \E c \in Crons, q \in Orders : PickOperation(c, q)
      PROVE  op' = op
  BY <1>4 DEF Request, CaptureRequest, CancelRequest, PayRequest, ViewRequest,
          StatusRequest, ReturnFromPaypal, PickOperation, Begin, order
<1>5. ASSUME \/ \E q \in Orders : CacheExpires(q)
             \/ \E p \in Payments : Approve(p)
             \/ \E m \in inflight : LateCapture(m) \/ LateRefund(m) \/ LateRelease(m)
      PROVE  op' = op
  BY <1>5 DEF CacheExpires, Approve, LateCapture, LateRefund, LateRelease, order
<1> QED
  BY <1>1, <1>2, <1>3, <1>4, <1>5 DEF Next, Start

\* What a commit finds done, by EffectBeforeCommit, is what it records.
LEMMA CommitsRecordEffects ==
  ASSUME InductiveInvariant, NEW w \in Workers, NEW o \in Orders,
         Commit(w), job[w].order = o
  PROVE  \/ /\ op[o] = "capture" /\ op'[o] = "none"
            /\ status'[o] = "PAID" /\ payState[paymentId[o]] = "captured"
         \/ /\ op[o] = "refund" /\ op'[o] = "release"
            /\ status'[o] = "CANCELLED" /\ payState[paymentId[o]] = "refunded"
         \/ /\ op[o] = "release" /\ op'[o] = "none"
            /\ status'[o] = "CANCELLED" /\ o \in released
<1>1. pc[w] = "commit" /\ op[o] # "none"
  BY DEF Commit, InductiveInvariant, LockFences
<1>2. op'[o] = FollowUp(op[o]) /\ status'[o] = Outcome(op[o], status[o])
  BY DEF Commit, InductiveInvariant, OpsTypeOK, Put
<1>3. CASE op[o] = "capture"
  <2>1. paymentId[o] \in Payments /\ payOrder[paymentId[o]] = o
        /\ status[o] = "PENDING"
    BY <1>3 DEF InductiveInvariant, OpsTypeOK, OperationFitsOrder, PaymentsBelong
  <2>2. payState[paymentId[o]] \in {"captured", "refunded"}
    BY <1>1, <1>3 DEF InductiveInvariant, EffectBeforeCommit
  <2> QED
    BY <1>2, <1>3, <2>1, <2>2
       DEF InductiveInvariant, RefundedNeverShips, FollowUp, Outcome
<1>4. CASE op[o] = "refund"
  <2>1. captureId[o] = paymentId[o]
    BY <1>4 DEF InductiveInvariant, OperationFitsOrder, PaidIsCharged
  <2>2. payState[captureId[o]] = "refunded"
    BY <1>1, <1>4 DEF InductiveInvariant, EffectBeforeCommit
  <2> QED
    BY <1>2, <1>4, <2>1, <2>2 DEF FollowUp, Outcome
<1>5. CASE op[o] = "release"
  BY <1>1, <1>2, <1>5
     DEF InductiveInvariant, EffectBeforeCommit, OperationFitsOrder, FollowUp,
         Outcome
<1> QED
  BY <1>1, <1>3, <1>4, <1>5 DEF InductiveInvariant, OpsTypeOK, Kinds

\* Whatever crashed, timed out or ran twice, no accepted operation is dropped.
THEOREM AcceptedWorkIsKept == Spec => OperationsEndInTheirEffect
<1>1. InductiveInvariant /\ [Next]_vars =>
        [\A o \in Orders : op[o] # "none" /\ op'[o] # op[o] =>
           \/ /\ op[o] = "capture" /\ op'[o] = "none"
              /\ status'[o] = "PAID" /\ payState[paymentId[o]] = "captured"
           \/ /\ op[o] = "refund" /\ op'[o] = "release"
              /\ status'[o] = "CANCELLED" /\ payState[paymentId[o]] = "refunded"
           \/ /\ op[o] = "release" /\ op'[o] = "none"
              /\ status'[o] = "CANCELLED" /\ o \in released]_vars
  BY OnlyCommitsEndOperations, CommitsRecordEffects
<1> QED
  BY Invariance, <1>1, PTL DEF Spec, OperationsEndInTheirEffect

----------------------------------------------------------------------------
(***************************************************************************)
(* OrderOperations implements OrderLifecycle: every step of a worker, of   *)
(* PayPal or of Products is one step of the abstract order, or none.       *)
(***************************************************************************)
Abstract == Lifecycle!Next \/ UNCHANGED Lifecycle!lifecycleVars

----------------------------------------------------------------------------
(* What the invariant says of an order's money *)

\* All money of an order is on the payment the order names.
LEMMA MoneyIsOnPaymentId ==
  ASSUME InductiveInvariant, NEW o \in Orders, NEW p \in Payments,
         payOrder[p] = o, payState[p] \in {"captured", "refunded"}
  PROVE  /\ paymentId[o] = p
         /\ payState[p] = "captured" => MoneyOf(o) = "taken"
         /\ payState[p] = "refunded" => MoneyOf(o) = "refunded"
<1>1. \A q \in Payments : payOrder[q] = o /\ payState[q] \in {"captured", "refunded"}
                            => paymentId[o] = q
  BY DEF InductiveInvariant, ChargeIsAccountedFor, RefundedNeverShips
<1> QED
  BY <1>1 DEF MoneyOf, Charged

\* Without money on its payment, an order has none.
LEMMA NoMoney ==
  ASSUME InductiveInvariant, NEW o \in Orders,
         \A p \in Payments : payOrder[p] = o /\ paymentId[o] = p
                               => payState[p] \notin {"captured", "refunded"}
  PROVE  MoneyOf(o) = "none"
  BY DEF InductiveInvariant, ChargeIsAccountedFor, RefundedNeverShips, MoneyOf, Charged

\* An order that was paid, and has no refund running, has its money.
LEMMA PaidHasMoney ==
  ASSUME InductiveInvariant, NEW o \in Orders,
         status[o] \in {"PAID", "SHIPPED", "DELIVERED"}, op[o] # "refund"
  PROVE  MoneyOf(o) = "taken" /\ StockOf(o) = "held"
<1> DEFINE p == paymentId[o]
<1>1. p \in Payments /\ payOrder[p] = o /\ payState[p] \in {"captured", "refunded"}
  BY DEF InductiveInvariant, OpsTypeOK, PaidIsCharged, PaymentsBelong
<1>2. payState[p] = "captured"
  BY <1>1 DEF InductiveInvariant, RefundedNeverShips
<1>3. MoneyOf(o) = "taken"
  BY <1>1, <1>2, MoneyIsOnPaymentId
<1> QED
  BY <1>3 DEF InductiveInvariant, ReleasedOnlyIfCancelled, StockOf

----------------------------------------------------------------------------
(* Abstract stutters *)

\* A step that leaves status, payments and releases alone is not visible.
LEMMA Hidden ==
  ASSUME UNCHANGED <<status, payOrder, payState, released>>
  PROVE  UNCHANGED Lifecycle!lifecycleVars
  BY DEF Lifecycle!lifecycleVars, MoneyOf, StockOf, Charged

\* A step that only moves one payment, and not from or to captured.
LEMMA HiddenPayment ==
  ASSUME UNCHANGED <<status, released>>,
         \A o \in Orders : MoneyOf(o)' = MoneyOf(o)
  PROVE  UNCHANGED Lifecycle!lifecycleVars
  BY DEF Lifecycle!lifecycleVars, StockOf

----------------------------------------------------------------------------
(* Abstract steps *)

\* A new status of one order, with money and stock as they were.
LEMMA StatusStep ==
  ASSUME InductiveInvariant, NEW o \in Orders, NEW s,
         status' = Put(status, o, s), UNCHANGED <<payOrder, payState, released>>
  PROVE  /\ Lifecycle!Become(o, s)
         /\ UNCHANGED <<[x \in Orders |-> MoneyOf(x)], [x \in Orders |-> StockOf(x)]>>
  BY DEF Lifecycle!Become, Put, MoneyOf, StockOf, Charged

\* One payment of an order moves on: the order's money follows it.
LEMMA MoneyStep ==
  ASSUME InductiveInvariant, InductiveInvariant',
         NEW p \in Payments, NEW s \in {"captured", "refunded"},
         payState' = Put(payState, p, s),
         payState[p] = IF s = "captured" THEN "approved" ELSE "captured",
         payOrder[p] \in Orders, paymentId[payOrder[p]] = p,
         status[payOrder[p]] = IF s = "captured" THEN "PENDING" ELSE "PAID",
         UNCHANGED <<status, paymentId, payOrder, released>>
  PROVE  Lifecycle!Next
<1> DEFINE o == payOrder[p]
<1>1. MoneyOf(o)' = IF s = "captured" THEN "taken" ELSE "refunded"
  <2>1. payOrder'[p] = o /\ payState'[p] = s
    BY DEF InductiveInvariant, OpsTypeOK, Put
  <2>2. \A q \in Payments : payOrder'[q] = o /\ payState'[q] \in {"captured", "refunded"}
                              => q = p
    BY DEF InductiveInvariant, ChargeIsAccountedFor, RefundedNeverShips
  <2> QED
    BY <2>1, <2>2 DEF MoneyOf, Charged
<1>2. MoneyOf(o) = IF s = "captured" THEN "none" ELSE "taken"
  BY NoMoney, MoneyIsOnPaymentId
<1>3. \A x \in Orders \ {o} : MoneyOf(x)' = MoneyOf(x)
  BY DEF MoneyOf, Charged, Put, InductiveInvariant, OpsTypeOK
<1>4. \A x \in Orders : StockOf(x)' = StockOf(x)
  BY DEF StockOf
<1>5. CASE s = "captured"
  <2>1. Lifecycle!Charge(o)
    BY <1>1, <1>2, <1>3, <1>4, <1>5 DEF Lifecycle!Charge
  <2> QED
    BY <2>1 DEF Lifecycle!Next
<1>6. CASE s = "refunded"
  <2>1. Lifecycle!Refund(o)
    BY <1>1, <1>2, <1>3, <1>4, <1>6 DEF Lifecycle!Refund
  <2> QED
    BY <2>1 DEF Lifecycle!Next
<1> QED
  BY <1>5, <1>6

\* The reservation of a cancelled order is released, perhaps once more.
LEMMA StockStep ==
  ASSUME NEW o \in Orders, status[o] = "CANCELLED",
         released' = released \cup {o}, UNCHANGED <<status, payOrder, payState>>
  PROVE  Abstract
<1>1. \A x \in Orders : MoneyOf(x)' = MoneyOf(x)
  BY DEF MoneyOf, Charged
<1>2. CASE o \in released
  <2>1. released' = released
    BY <1>2
  <2> QED
    BY <2>1, Hidden DEF Abstract
<1>3. CASE o \notin released
  <2>1. \A x \in Orders : StockOf(x)' = IF x = o THEN "returned" ELSE StockOf(x)
    BY DEF StockOf
  <2>2. StockOf(o) = "held"
    BY <1>3 DEF StockOf
  <2>3. Lifecycle!ReturnStock(o)
    BY <1>1, <2>1, <2>2 DEF Lifecycle!ReturnStock
  <2> QED
    BY <2>3 DEF Abstract, Lifecycle!Next
<1> QED
  BY <1>2, <1>3

----------------------------------------------------------------------------
(* Every step of OrderOperations *)

\* updateStatus ships or delivers; pay only writes the payment.
LEMMA TransitionImplements ==
  ASSUME InductiveInvariant, NEW w \in Workers, Transition(w)
  PROVE  Abstract
<1> DEFINE o == job[w].order
           s == job[w].task
<1>1. o \in Orders /\ op[o] = "none"
  BY DEF InductiveInvariant, JobsFit, JobFits, Transition, MayTransition
<1>2. CASE s = "pay"
  BY <1>2, Hidden DEF Transition, outside, Abstract
<1>3. CASE s # "pay"
  <2>1. <<status[o], s>> \in ManualTransitions
    BY <1>3 DEF InductiveInvariant, JobsFit, JobFits, Transition, MayTransition,
       ExpectedStatus
  <2>2. MoneyOf(o) = "taken" /\ StockOf(o) = "held"
    BY <1>1, <2>1, PaidHasMoney DEF ManualTransitions
  <2>3. /\ Lifecycle!Become(o, s)
        /\ UNCHANGED <<[x \in Orders |-> MoneyOf(x)], [x \in Orders |-> StockOf(x)]>>
    BY <1>1, <1>3, StatusStep DEF Transition, outside
  <2>4. CASE status[o] = "PAID" /\ s = "SHIPPED"
    <3>1. Lifecycle!Ship(o)
      BY <1>1, <2>2, <2>3, <2>4 DEF Lifecycle!Ship
    <3> QED
      BY <1>1, <3>1 DEF Abstract, Lifecycle!Next
  <2>5. CASE status[o] = "SHIPPED" /\ s = "DELIVERED"
    <3>1. Lifecycle!Deliver(o)
      BY <2>3, <2>5 DEF Lifecycle!Deliver
    <3> QED
      BY <1>1, <3>1 DEF Abstract, Lifecycle!Next
  <2> QED
    BY <2>1, <2>4, <2>5 DEF ManualTransitions
<1> QED
  BY <1>2, <1>3

\* Cancelling an unpaid order; cancelling again changes nothing.
LEMMA StartReleaseImplements ==
  ASSUME InductiveInvariant, NEW w \in Workers, StartRelease(w)
  PROVE  Abstract
<1> DEFINE o == job[w].order
<1>1. o \in Orders /\ op[o] = "none" /\ status[o] \in {"PENDING", "CANCELLED"}
  BY DEF InductiveInvariant, JobsFit, JobFits, StartRelease, Starts
<1>2. CASE status[o] = "CANCELLED"
  <2>1. status' = status
    BY <1>1, <1>2 DEF StartRelease, Put, InductiveInvariant, OpsTypeOK
  <2> QED
    BY <2>1, Hidden DEF StartRelease, outside, Abstract
<1>3. CASE status[o] = "PENDING"
  <2>1. MoneyOf(o) = "none"
    BY <1>1, <1>3 DEF InductiveInvariant, ChargeIsAccountedFor,
       RefundedNeverShips, MoneyOf, Charged
  <2>2. /\ Lifecycle!Become(o, "CANCELLED")
        /\ UNCHANGED <<[x \in Orders |-> MoneyOf(x)], [x \in Orders |-> StockOf(x)]>>
    BY <1>1, StatusStep DEF StartRelease, outside
  <2>3. Lifecycle!Cancel(o)
    BY <1>1, <1>3, <2>1, <2>2 DEF Lifecycle!Cancel
  <2> QED
    BY <1>1, <2>3 DEF Abstract, Lifecycle!Next
<1> QED
  BY <1>1, <1>2, <1>3

\* PayPal makes or finds a payment: no money moves yet.
LEMMA CreatePaymentImplements ==
  ASSUME InductiveInvariant, NEW w \in Workers, NEW p \in Payments,
         CreatePayment(w, p)
  PROVE  Abstract
<1>1. CASE payState[p] = "none"
  <2>1. \A q \in Payments, s \in {"captured", "refunded"} :
          payState'[q] = s <=> payState[q] = s
    BY <1>1 DEF CreatePayment, Put, InductiveInvariant, OpsTypeOK
  <2>2. \A q \in Payments : q # p => payOrder'[q] = payOrder[q]
    BY DEF CreatePayment, Put, InductiveInvariant, OpsTypeOK
  <2>3. \A x \in Orders : MoneyOf(x)' = MoneyOf(x)
    BY <1>1, <2>1, <2>2 DEF MoneyOf, Charged
  <2> QED
    BY <2>3, HiddenPayment DEF CreatePayment, order, Abstract
<1>2. CASE payState[p] # "none"
  <2>1. payOrder' = payOrder /\ payState' = payState
    BY <1>2 DEF CreatePayment, Put, InductiveInvariant, OpsTypeOK
  <2> QED
    BY <2>1, Hidden DEF CreatePayment, order, Abstract
<1> QED
  BY <1>1, <1>2

\* PayPal takes the money, or finds it taken.
LEMMA CaptureImplements ==
  ASSUME InductiveInvariant, InductiveInvariant', NEW w \in Workers, Capture(w)
  PROVE  Abstract
<1> DEFINE o == job[w].order
           p == paymentId[o]
<1>1. /\ o \in Orders /\ p \in Payments /\ payOrder[p] = o
      /\ status[o] = "PENDING"
  <2>1. w \in Workers /\ pc[w] = "call" /\ op[o] = "capture"
    BY DEF Capture
  <2>2. o \in Orders
    BY <2>1 DEF InductiveInvariant, JobsFit, JobFits
  <2>3. status[o] = "PENDING" /\ p # None
    BY <2>1, <2>2 DEF InductiveInvariant, OperationFitsOrder
  <2>4. p \in Payments /\ payOrder[p] = o
    BY <2>2, <2>3 DEF InductiveInvariant, OpsTypeOK, PaymentsBelong
  <2> QED
    BY <2>2, <2>3, <2>4
<1>2. CASE payState[p] = "approved"
  BY <1>1, <1>2, MoneyStep DEF Capture, order, Abstract
<1>3. CASE payState[p] # "approved"
  BY <1>3, Hidden DEF Capture, order, Abstract
<1> QED
  BY <1>2, <1>3

\* PayPal gives the money back, or has done so.
LEMMA RefundImplements ==
  ASSUME InductiveInvariant, InductiveInvariant', NEW w \in Workers, Refund(w)
  PROVE  Abstract
<1> DEFINE o == job[w].order
           p == captureId[o]
<1>1. /\ o \in Orders /\ p \in Payments /\ payOrder[p] = o
      /\ paymentId[o] = p /\ status[o] = "PAID"
  <2>1. w \in Workers /\ pc[w] = "call" /\ op[o] = "refund"
    BY DEF Refund
  <2>2. o \in Orders
    BY <2>1 DEF InductiveInvariant, JobsFit, JobFits
  <2>3. status[o] = "PAID" /\ p # None
    BY <2>1, <2>2 DEF InductiveInvariant, OperationFitsOrder
  <2>4. paymentId[o] = p
    BY <2>2, <2>3 DEF InductiveInvariant, PaidIsCharged
  <2>5. p \in Payments /\ payOrder[p] = o
    BY <2>2, <2>3, <2>4 DEF InductiveInvariant, OpsTypeOK, PaymentsBelong
  <2> QED
    BY <2>2, <2>3, <2>4, <2>5
<1>2. CASE payState[p] = "captured"
  BY <1>1, <1>2, MoneyStep DEF Refund, order, Abstract
<1>3. CASE payState[p] # "captured"
  <2>1. payState' = payState
    BY <1>1, <1>3 DEF Refund, Put, InductiveInvariant, OpsTypeOK
  <2> QED
    BY <2>1, Hidden DEF Refund, order, Abstract
<1> QED
  BY <1>2, <1>3

\* Products gives the units of a cancelled order back.
LEMMA ReleaseStockImplements ==
  ASSUME InductiveInvariant, NEW w \in Workers, ReleaseStock(w)
  PROVE  Abstract
<1>1. job[w].order \in Orders /\ status[job[w].order] = "CANCELLED"
  BY DEF InductiveInvariant, JobsFit, JobFits, OperationFitsOrder, ReleaseStock
<1> QED
  BY <1>1, StockStep DEF ReleaseStock, order, paypal

\* The commit that confirms a payment or completes a refund.
LEMMA CommitImplements ==
  ASSUME InductiveInvariant, NEW w \in Workers, Commit(w)
  PROVE  Abstract
<1> DEFINE o == job[w].order
<1>1. o \in Orders /\ op[o] \in Kinds /\ pc[w] = "commit"
  <2>1. w \in Workers /\ pc[w] = "commit"
    BY DEF Commit
  <2>2. o \in Orders
    BY <2>1 DEF InductiveInvariant, JobsFit, JobFits
  <2>3. op[o] # "none"
    BY <2>1 DEF InductiveInvariant, LockFences
  <2>4. op[o] \in Kinds
    BY <2>2, <2>3 DEF InductiveInvariant, OpsTypeOK
  <2> QED
    BY <2>1, <2>2, <2>4
<1>2. CASE op[o] = "capture"
  <2>1. /\ status[o] = "PENDING" /\ paymentId[o] \in Payments
        /\ payOrder[paymentId[o]] = o
        /\ payState[paymentId[o]] \in {"captured", "refunded"}
    BY <1>1, <1>2 DEF InductiveInvariant, OpsTypeOK, OperationFitsOrder,
       PaymentsBelong, EffectBeforeCommit
  <2>2. MoneyOf(o) = "taken"
    <3>1. payState[paymentId[o]] = "captured"
      BY <1>1, <2>1 DEF InductiveInvariant, RefundedNeverShips
    <3> QED
      BY <1>1, <2>1, <3>1, MoneyIsOnPaymentId
  <2>3. /\ Lifecycle!Become(o, "PAID")
        /\ UNCHANGED <<[x \in Orders |-> MoneyOf(x)], [x \in Orders |-> StockOf(x)]>>
    BY <1>1, <1>2, StatusStep DEF Commit, Outcome, outside
  <2>4. Lifecycle!ConfirmPayment(o)
    BY <1>1, <2>1, <2>2, <2>3 DEF Lifecycle!ConfirmPayment
  <2> QED
    BY <1>1, <2>4 DEF Abstract, Lifecycle!Next
<1>3. CASE op[o] = "refund"
  <2>1. /\ status[o] = "PAID" /\ captureId[o] \in Payments
        /\ payOrder[captureId[o]] = o /\ payState[captureId[o]] = "refunded"
    BY <1>1, <1>3 DEF InductiveInvariant, OpsTypeOK, OperationFitsOrder,
       PaidIsCharged, PaymentsBelong, EffectBeforeCommit
  <2>2. MoneyOf(o) = "refunded"
    BY <1>1, <2>1, MoneyIsOnPaymentId
  <2>3. /\ Lifecycle!Become(o, "CANCELLED")
        /\ UNCHANGED <<[x \in Orders |-> MoneyOf(x)], [x \in Orders |-> StockOf(x)]>>
    BY <1>1, <1>3, StatusStep DEF Commit, Outcome, outside
  <2>4. Lifecycle!Cancel(o)
    BY <1>1, <2>1, <2>2, <2>3 DEF Lifecycle!Cancel
  <2> QED
    BY <1>1, <2>4 DEF Abstract, Lifecycle!Next
<1>4. CASE op[o] = "release"
  <2>1. status' = status
    BY <1>1, <1>4 DEF Commit, Outcome, Put, InductiveInvariant, OpsTypeOK
  <2> QED
    BY <2>1, Hidden DEF Commit, outside, Abstract
<1> QED
  BY <1>1, <1>2, <1>3, <1>4 DEF Kinds

\* A call nobody waits for any more still is a step of the lifecycle.
LEMMA LateImplements ==
  ASSUME InductiveInvariant, InductiveInvariant', NEW m \in inflight,
         LateCapture(m) \/ LateRefund(m) \/ LateRelease(m)
  PROVE  Abstract
<1> DEFINE p == m.payment
<1>1. CASE LateCapture(m)
  <2>1. CASE payState[p] = "approved"
    <3>1. /\ p \in Payments /\ payOrder[p] \in Orders
          /\ paymentId[payOrder[p]] = p /\ status[payOrder[p]] = "PENDING"
      BY <1>1, <2>1 DEF InductiveInvariant, OpsTypeOK, LateIsHarmless,
         OperationFitsOrder, LateCapture
    <3> QED
      BY <1>1, <2>1, <3>1, MoneyStep DEF LateCapture, order, Abstract
  <2>2. CASE payState[p] # "approved"
    BY <1>1, <2>2, Hidden DEF LateCapture, order, Abstract
  <2> QED
    BY <2>1, <2>2
<1>2. CASE LateRefund(m)
  <2>1. CASE payState[p] = "captured"
    <3>1. /\ p \in Payments /\ payOrder[p] \in Orders
          /\ paymentId[payOrder[p]] = p /\ status[payOrder[p]] = "PAID"
      BY <1>2, <2>1 DEF InductiveInvariant, OpsTypeOK, LateIsHarmless,
         OperationFitsOrder, PaidIsCharged, LateRefund
    <3> QED
      BY <1>2, <2>1, <3>1, MoneyStep DEF LateRefund, order, Abstract
  <2>2. CASE payState[p] # "captured"
    BY <1>2, <2>2, Hidden DEF LateRefund, order, Abstract
  <2> QED
    BY <2>1, <2>2
<1>3. CASE LateRelease(m)
  <2>1. m.order \in Orders /\ status[m.order] = "CANCELLED"
    BY <1>3 DEF InductiveInvariant, OpsTypeOK, LateIsHarmless, LateRelease
  <2> QED
    BY <1>3, <2>1, StockStep DEF LateRelease, order, paypal
<1> QED
  BY <1>1, <1>2, <1>3

\* The buyer's approval moves no money.
LEMMA ApproveImplements ==
  ASSUME InductiveInvariant, NEW p \in Payments, Approve(p)
  PROVE  Abstract
<1>1. \A q \in Payments, s \in {"captured", "refunded"} :
        payState'[q] = s <=> payState[q] = s
  BY DEF Approve, Put, InductiveInvariant, OpsTypeOK
<1>2. \A x \in Orders : MoneyOf(x)' = MoneyOf(x)
  BY <1>1 DEF MoneyOf, Charged, Approve
<1> QED
  BY <1>2, HiddenPayment DEF Approve, order, Abstract

\* Every step is a step of the abstract order, or none of its own.
LEMMA StepImplements ==
  ASSUME InductiveInvariant, InductiveInvariant', [Next]_vars
  PROVE  Abstract
<1>1. CASE UNCHANGED <<status, payOrder, payState, released>>
  BY <1>1, Hidden DEF Abstract
<1>2. CASE ~ UNCHANGED <<status, payOrder, payState, released>>
  <2>1. \/ \E w \in Workers :
              \/ Transition(w) \/ StartRelease(w) \/ Commit(w)
              \/ Capture(w) \/ Refund(w) \/ ReleaseStock(w)
              \/ \E p \in Payments : CreatePayment(w, p)
        \/ \E p \in Payments : Approve(p)
        \/ \E m \in inflight : LateCapture(m) \/ LateRefund(m) \/ LateRelease(m)
    BY <1>2 DEF Next, Request, CaptureRequest, CancelRequest, PayRequest,
       ViewRequest, StatusRequest, ReturnFromPaypal, PickOperation, Begin,
       Find, CacheHit, CacheMiss, CacheFill, Decide, Decline, DecideStatus,
       Start, Rejoin, StartCapture, StartRefund, Acquire, NothingPending,
       LockOrder, Answered, CallFails, Drop, Reply, Fail, CacheExpires,
       vars, order, outside, paypal
  <2> QED
    BY <2>1, TransitionImplements, StartReleaseImplements, CommitImplements,
       CaptureImplements, RefundImplements, ReleaseStockImplements,
       CreatePaymentImplements, ApproveImplements, LateImplements
<1> QED
  BY <1>1, <1>2

\* The initial rows are initial abstract orders.
LEMMA InitImplements == Init => Lifecycle!Init
<1> SUFFICES ASSUME Init PROVE Lifecycle!Init
  OBVIOUS
<1>1. \A o \in Orders : MoneyOf(o) = "none" /\ StockOf(o) = "held"
  BY DEF Init, MoneyOf, StockOf, Charged
<1> QED
  BY <1>1 DEF Init, Lifecycle!Init

\* Whatever fails, repeats or arrives late: status, money and stock of every
\* order move as OrderLifecycle says, for any number of workers and orders.
THEOREM Refinement == Spec => ImplementsLifecycle
<1>1. InductiveInvariant /\ InductiveInvariant' /\ [Next]_vars
        => [Lifecycle!Next]_(Lifecycle!lifecycleVars)
  BY StepImplements DEF Abstract
<1> QED
  BY InitImplements, Invariance, <1>1, PTL
     DEF Spec, ImplementsLifecycle, Lifecycle!Spec
============================================================================
