-------------------------- MODULE MCOrderCreation --------------------------
(* Two orders compete for one product; one or two replicas run the job.     *)
EXTENDS OrderCreation, TLC

CONSTANTS p1

MCProducts == {p1}
MCBaskets == {[p \in {p1} |-> 1]}

\* Orders differ in nothing, nor do replicas: sound for safety properties.
MCSymmetry == Permutations(Orders) \cup Permutations(Crons)
============================================================================
