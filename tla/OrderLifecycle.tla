-------------------------- MODULE OrderLifecycle ---------------------------
(***************************************************************************)
(* What the Orders service promises about one order once it exists: its    *)
(* status, the customer's money and the reserved stock move together. The  *)
(* statuses and the manual transitions are those of orders.service.ts; the *)
(* jobs, locks, retries and lost answers by which OrderOperations keeps    *)
(* the promise are not visible here.                                       *)
(***************************************************************************)
CONSTANT Orders

VARIABLES
  status,   \* orders.status
  money,    \* "none", "taken" from the customer, or "refunded"
  stock     \* "held" by the order's reservation, or "returned"

lifecycleVars == <<status, money, stock>>

Statuses == {"PENDING", "PAID", "SHIPPED", "DELIVERED", "CANCELLED"}

\* A row can also stem from a deployment without order_operations, in which
\* case the migration queued the release of a cancelled order.
Init ==
  /\ status \in [Orders -> {"PENDING", "CANCELLED"}]
  /\ money = [o \in Orders |-> "none"]
  /\ stock = [o \in Orders |-> "held"]

Become(o, s) == status' = [status EXCEPT ![o] = s]

\* PayPal takes the money before the order can say so.
Charge(o) ==
  /\ status[o] = "PENDING" /\ money[o] = "none"
  /\ money' = [money EXCEPT ![o] = "taken"]
  /\ UNCHANGED <<status, stock>>

ConfirmPayment(o) ==
  /\ status[o] = "PENDING" /\ money[o] = "taken"
  /\ Become(o, "PAID")
  /\ UNCHANGED <<money, stock>>

\* Goods only leave while the money is there and the units are held.
Ship(o) ==
  /\ status[o] = "PAID" /\ money[o] = "taken" /\ stock[o] = "held"
  /\ Become(o, "SHIPPED")
  /\ UNCHANGED <<money, stock>>

Deliver(o) ==
  /\ status[o] = "SHIPPED"
  /\ Become(o, "DELIVERED")
  /\ UNCHANGED <<money, stock>>

Refund(o) ==
  /\ status[o] = "PAID" /\ money[o] = "taken"
  /\ money' = [money EXCEPT ![o] = "refunded"]
  /\ UNCHANGED <<status, stock>>

\* An order is cancelled unpaid, or after its refund: never with the money.
Cancel(o) ==
  /\ \/ status[o] = "PENDING" /\ money[o] = "none"
     \/ status[o] = "PAID" /\ money[o] = "refunded"
  /\ Become(o, "CANCELLED")
  /\ UNCHANGED <<money, stock>>

ReturnStock(o) ==
  /\ status[o] = "CANCELLED" /\ stock[o] = "held"
  /\ stock' = [stock EXCEPT ![o] = "returned"]
  /\ UNCHANGED <<status, money>>

Next ==
  \E o \in Orders :
    \/ Charge(o) \/ ConfirmPayment(o) \/ Ship(o) \/ Deliver(o)
    \/ Refund(o) \/ Cancel(o) \/ ReturnStock(o)

Spec == Init /\ [][Next]_lifecycleVars

============================================================================
