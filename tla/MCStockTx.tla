----------------------------- MODULE MCStockTx -----------------------------
(* Two products that a basket lists both, so that lock order matters, and   *)
(* a second basket, so that a repeated reserve may list other items.        *)
EXTENDS StockTx

CONSTANTS p1, p2

MCProducts == {p1, p2}
MCRank == [p \in {p1, p2} |-> IF p = p1 THEN 1 ELSE 2]
MCBaskets == {[p \in {p1, p2} |-> 1],
              [p \in {p1, p2} |-> IF p = p1 THEN 0 ELSE 1]}
============================================================================
