------------------------------ MODULE MCInvoices ------------------------------
(* Values for the constants of Invoices: two sales that compete for the     *)
(* last piece of v1, one of them with a second item.                        *)
EXTENDS Invoices, TLC

CONSTANTS v1, v2, s1, s2, c1, c2, w1, w2

Dtos ==
    [r \in {s1, s2} |->
        IF r = s1
        THEN [items |-> << [variant |-> v1, quantity |-> 1],
                           [variant |-> v2, quantity |-> 1] >>,
              status |-> None]
        ELSE [items |-> << [variant |-> v1, quantity |-> 1] >>, status |-> "cancelled"]]

\* One sale of the last piece of v1.
OneSale == [r \in {s1} |-> [items |-> << [variant |-> v1, quantity |-> 1] >>, status |-> None]]

Stock == [v \in Variant |-> IF v = v1 THEN 1 ELSE 2]

\* Workers are alike, and so are two requests that cancel.
Alike == Permutations({w1, w2}) \cup Permutations({c1, c2})
=============================================================================
