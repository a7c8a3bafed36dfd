-------------------------- MODULE MCSchedulerQueue --------------------------
(* Values for the constants of SchedulerQueue: one of two rows that can be  *)
(* low is of a product without a supplier.                                  *)
EXTENDS SchedulerQueue

CONSTANTS r1, r2, sup

Suppliers == [r \in {r1, r2} |-> IF r = r1 THEN sup ELSE None]
=============================================================================
