------------------------------ MODULE MCFigures ------------------------------
(* Values for the constants of Figures: two branches, of which one sells    *)
(* everything it has, and days of two ticks.                                *)
EXTENDS Figures

CONSTANTS b1, b2, u1, v1, x1, s1, s2

Products == [v \in {v1} |-> x1]
Prices == [v \in {v1} |-> 3]

OrderOf(b, n, price, discount, status) ==
    [branch |-> b, user |-> u1, variant |-> v1, quantity |-> n, unitPrice |-> price,
     itemDiscount |-> 1, discount |-> discount, tax |-> 1, status |-> status]

\* At, above and below the list price; the second one's discount exceeds it.
Orders == {OrderOf(b1, 1, 3, 2, "paid"), OrderOf(b2, 2, 4, 10, "paid"),
           OrderOf(b2, 1, 2, 0, "refunded")}

Calendar == [unit \in Unit |->
                IF unit = "year" THEN 2 ELSE 1]

Thresholds == {-1, 0, 1}

Row == [quantity |-> 2, minThreshold |-> 1]

\* The names of the sales say nothing.
Alike == Permutations({s1, s2})
=============================================================================
