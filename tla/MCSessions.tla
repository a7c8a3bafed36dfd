------------------------------ MODULE MCSessions ------------------------------
(* Values for the constants of Sessions: an administrator and a clerk, one   *)
(* free e-mail, and updates that change a role, the e-mail or neither.       *)
EXTENDS Sessions, TLC

CONSTANTS boss, clerk, m1, m2, m3

Rows == [u \in {boss, clerk} |->
            [email |-> IF u = boss THEN m1 ELSE m2,
             role |-> IF u = boss THEN "admin" ELSE "cashier",
             removed |-> FALSE]]

Changes == { [role |-> "manager", email |-> None],
             [role |-> None, email |-> m3] }

\* No property tells one request from another.
Alike == Permutations(Request)
=============================================================================
