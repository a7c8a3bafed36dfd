----------------------------- MODULE MCPurchases -----------------------------
(* Values for the constants of Purchases: two orders of the same variants,  *)
(* listed in opposite orders, one of which has never been stocked.          *)
EXTENDS Purchases

CONSTANTS v1, v2, p1, p2

Item(v, n) == [variant |-> v, quantity |-> n]

Orders ==
    [p \in {p1, p2} |-> IF p = p1 THEN << Item(v1, 1), Item(v2, 1) >>
                                  ELSE << Item(v2, 2), Item(v1, 1) >>]

Stock == [v \in {v1, v2} |-> IF v = v1 THEN 1 ELSE None]
=============================================================================
