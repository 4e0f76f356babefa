--------------------------- MODULE OrderPlacement ---------------------------
(***************************************************************************)
(* What create and the recovery jobs of the Orders service promise about   *)
(* an order that is being placed: its row, the record of stock_intents and *)
(* the units Products keeps for it change hands in a fixed order. Calls,   *)
(* locks, timeouts and replicas, by which OrderCreation keeps the promise, *)
(* are not visible here.                                                   *)
(***************************************************************************)
CONSTANT Orders

VARIABLES
  placed,     \* orders that were saved
  recorded,   \* orders on the list of stock to recover
  units,      \* "absent", "reserved" or "released": the units of an order
  late        \* orders with a release that nobody waits for any more

placementVars == <<placed, recorded, units, late>>

Init ==
  /\ placed = {} /\ recorded = {} /\ late = {}
  /\ units = [o \in Orders |-> "absent"]

Unsettled(o) == o \in recorded /\ o \notin placed
Turn(o, status) == units' = [units EXCEPT ![o] = status]

\* An order is recorded once, before anything is reserved for it.
Record(o) ==
  /\ o \notin placed \cup recorded
  /\ units[o] = "absent"
  /\ recorded' = recorded \cup {o}
  /\ UNCHANGED <<placed, units, late>>

\* Units are only taken for an order on the list.
Hold(o) ==
  /\ Unsettled(o) /\ units[o] = "absent"
  /\ Turn(o, "reserved")
  /\ UNCHANGED <<placed, recorded, late>>

\* The order takes over from the record, and with it the units.
Place(o) ==
  /\ Unsettled(o)
  /\ units[o] = "reserved" \/ (o \in late /\ units[o] = "released")
  /\ placed' = placed \cup {o}
  /\ recorded' = recorded \ {o}
  /\ UNCHANGED <<units, late>>

\* Units go back while the order is on the list, or by a late release.
GiveBack(o) ==
  /\ Unsettled(o) \/ o \in late
  /\ Turn(o, "released")
  /\ UNCHANGED <<placed, recorded, late>>

\* Without an order, a record is only dropped when its units are back.
Settle(o) ==
  /\ Unsettled(o) /\ units[o] = "released"
  /\ recorded' = recorded \ {o}
  /\ UNCHANGED <<placed, units, late>>

\* A worker stops waiting for the release it sent.
Outlive(o) ==
  /\ Unsettled(o)
  /\ late' = late \cup {o}
  /\ UNCHANGED <<placed, recorded, units>>

Next ==
  \E o \in Orders :
    \/ Record(o) \/ Hold(o) \/ Place(o)
    \/ GiveBack(o) \/ Settle(o) \/ Outlive(o)

Spec == Init /\ [][Next]_placementVars
=============================================================================
