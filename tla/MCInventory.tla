----------------------------- MODULE MCInventory -----------------------------
(* Values for the constants of Inventory: two branches, one variant.        *)
EXTENDS Inventory

CONSTANTS b1, b2, v1

At(op, role, home, system, branch, to, qty, min) ==
    [op |-> op, role |-> role, home |-> home, system |-> system, branch |-> branch,
     to |-> to, variant |-> v1, qty |-> qty, min |-> min]

Calls ==
    { At("create", "manager", b2, FALSE, b2, b2, 1, None),
      At("adjust", "admin", b2, FALSE, b1, b1, 1, None),
      At("adjust", "cashier", b1, TRUE, b1, b1, -3, None),
      At("transfer", "manager", b1, FALSE, b1, b2, 1, None),
      At("transfer", "admin", b1, FALSE, b2, b1, 1, None),
      At("update", "manager", b1, FALSE, b1, b1, 2, None),
      At("lowStockCheck", "admin", b1, TRUE, b1, b2, None, None),
      At("resetAlerts", "admin", b1, TRUE, b1, b2, None, None) }

\* Only manual adjustments: an administrator adds one piece to b1.
Adjustments == { c \in Calls : c.op = "adjust" /\ ~c.system }

\* b1 is below its threshold, b2 has never stocked the variant.
Stock == [k \in Key |->
    IF k[1] = b1 THEN [quantity |-> 1, minThreshold |-> 2, lowStockAlertSent |-> FALSE]
    ELSE None]

OnePod == [r \in Request |-> "api"]
=============================================================================
