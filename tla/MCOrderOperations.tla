------------------------- MODULE MCOrderOperations -------------------------
(* One order, two payments for it, and workers of two replicas. Payments    *)
(* and workers of one sort are interchangeable, which safety runs use.      *)
EXTENDS OrderOperations, TLC

Interchangeable ==
  Permutations(Payments) \cup Permutations(Handlers) \cup Permutations(Crons)
============================================================================
