---------------------------- MODULE MCCatalogue ----------------------------
(* Two reservations of one product, int4 shrunk to 0..2 so that both the    *)
(* empty shelf and the overflowing increment are reached, and one reader.   *)
EXTENDS Catalogue

CONSTANT p1

MCProducts == {p1}
MCBaskets == {[p \in {p1} |-> 1], [p \in {p1} |-> 2]}
============================================================================
