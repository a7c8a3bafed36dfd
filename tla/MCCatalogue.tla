----------------------------- MODULE MCCatalogue -----------------------------
(* Values for the constants of Catalogue: a category with a product that has *)
(* a variant.                                                                *)
EXTENDS Catalogue, TLC

CONSTANTS c1, p1, v1, n1, n2

Filled(k, n, up, c) == [kind |-> k, name |-> n, up |-> up, cost |-> c, removed |-> FALSE]

Rows == [i \in {c1, p1, v1} |->
            CASE i = c1 -> Filled("category", n1, None, None)
              [] i = p1 -> Filled("product", n1, c1, None)
              [] i = v1 -> Filled("variant", n1, p1, 1)]

\* No property tells one request from another.
Alike == Permutations(Request)
=============================================================================
