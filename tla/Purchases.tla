------------------------------ MODULE Purchases ------------------------------
(***************************************************************************)
(* Purchase orders: src/module/purchases/purchases.service.ts with the     *)
(* consumer of PURCHASES_QUEUE.  createPurchase writes the order and the   *)
(* cost prices of its variants in one transaction.  completePurchase,      *)
(* cancelPurchase and remove read the order, check what they read and save *)
(* later; complete saves before it adds its job, cancel adds before it     *)
(* saves.                                                                  *)
(***************************************************************************)
EXTENDS StockJobs

CONSTANTS
    Create,     \* requests that create a purchase, which bears their name
    Decide,     \* requests that complete, cancel or remove one
    Items       \* the items of each purchase

Status == {"pending", "completed", "cancelled"}
Op == {"complete", "cancel", "remove"}

ASSUME PurchasesAssumption ==
    /\ Create \cap Decide = {}
    /\ Request = Create \cup Decide
    /\ None \notin Request \cup Status \cup [op : Op, purchase : Create]
    /\ \A r \in Create :
          Items[r] \in Seq([variant : Variant, quantity : Nat \ {0}]) \ {<<>>}

VARIABLES
    status,     \* status column of the committed purchases
    deleted,    \* purchases with a deletedAt
    costPrice,  \* the purchase whose unit cost a variant bears
    rowLock,    \* the transaction that updated a variant's row
    updated,    \* items whose variants a create has updated
    pc,         \* where each request is
    decision,   \* what a request does to which purchase
    stale       \* history: requests whose purchase changed since they read it

purchaseVars == <<status, deleted, costPrice, rowLock, updated, pc, decision, stale>>
vars == <<stockJobVars, purchaseVars>>
orders == <<status, deleted>>
costs == <<costPrice, rowLock, updated>>

Ended == {"done", "rejected", "failed"}
Deciding == {"save", "add"}
InFlight == {"update"} \cup Deciding

TypeOK ==
    /\ StockJobsTypeOK
    /\ status \in [Create -> Status \cup {None}]
    /\ deleted \in SUBSET Create
    /\ costPrice \in [Variant -> Create \cup {None}]
    /\ rowLock \in [Variant -> Create \cup {None}]
    /\ updated \in [Create -> Nat]
    /\ \A r \in Create : updated[r] <= Len(Items[r])
    /\ pc \in [Request -> {"new"} \cup InFlight \cup Ended]
    /\ decision \in [Decide -> [op : Op, purchase : Create] \cup {None}]
    /\ stale \in SUBSET Decide

Init ==
    /\ StockJobsInit
    /\ status = [r \in Create |-> None]
    /\ deleted = {}
    /\ costPrice = [v \in Variant |-> None]
    /\ rowLock = [v \in Variant |-> None]
    /\ updated = [r \in Create |-> 0]
    /\ pc = [r \in Request |-> "new"]
    /\ decision = [r \in Decide |-> None]
    /\ stale = {}

Goto(r, l) == pc' = [pc EXCEPT ![r] = l]

\* Mutated form: a transaction that ends keeps its rows locked.
StillLocked(r) == rowLock

Unlocked(r) == [v \in Variant |-> IF rowLock[v] = r THEN None ELSE rowLock[v]]

Receipt(p) == [n \in DOMAIN Items[p] |->
                  [variant |-> Items[p][n].variant, change |-> Items[p][n].quantity]]

\* Mutated form: the cancelled job's quantities lose their minus sign.
WithdrawalUnsigned(p) == Receipt(p)

Withdrawal(p) == [n \in DOMAIN Items[p] |->
                  [variant |-> Items[p][n].variant, change |-> -Items[p][n].quantity]]
-----------------------------------------------------------------------------
(* createPurchase *)

\* Access, supplier, branch and variants are looked up, and the order and its
\* items inserted.
Begin(r) ==
    /\ pc[r] = "new"
    /\ \E found \in BOOLEAN :
          Goto(r, IF found /\ IsInjective([n \in DOMAIN Items[r] |-> Items[r][n].variant])
                  THEN "update" ELSE "rejected")
    /\ UNCHANGED <<stockJobVars, orders, costs, decision, stale>>

\* Mutated form: every cost price is updated outside of the transaction.
UpdateCostPriceAtOnce(r) ==
    LET v == Items[r][updated[r] + 1].variant
    IN  /\ pc[r] = "update" /\ updated[r] < Len(Items[r]) /\ rowLock[v] = None
        /\ costPrice' = [costPrice EXCEPT ![v] = r]
        /\ updated' = [updated EXCEPT ![r] = @ + 1]
        /\ UNCHANGED <<stockJobVars, orders, rowLock, pc, decision, stale>>

\* The next item's variant gets its unit cost, and stays locked until the end.
UpdateCostPrice(r) ==
    LET v == Items[r][updated[r] + 1].variant
    IN  /\ pc[r] = "update" /\ updated[r] < Len(Items[r]) /\ rowLock[v] = None
        /\ rowLock' = [rowLock EXCEPT ![v] = r]
        /\ updated' = [updated EXCEPT ![r] = @ + 1]
        /\ UNCHANGED <<stockJobVars, orders, costPrice, pc, decision, stale>>

CommitPurchase(r) ==
    /\ pc[r] = "update" /\ updated[r] = Len(Items[r])
    /\ status' = [status EXCEPT ![r] = "pending"]
    /\ costPrice' = [v \in Variant |-> IF rowLock[v] = r THEN r ELSE costPrice[v]]
    /\ rowLock' = Unlocked(r)
    /\ Goto(r, "done")
    /\ UNCHANGED <<stockJobVars, deleted, updated, decision, stale>>

Waits(r, q) ==
    /\ pc[r] = "update" /\ updated[r] < Len(Items[r])
    /\ rowLock[Items[r][updated[r] + 1].variant] = q

\* Postgres aborts a transaction to break a circle of waiting creates.
CreateDeadlocked(r) ==
    \E S \in SUBSET Create :
        /\ r \in S
        /\ \A x \in S : \E y \in S : Waits(x, y)
        /\ \A y \in S : \E x \in S : Waits(x, y)
-----------------------------------------------------------------------------
(* completePurchase, cancelPurchase, remove *)

\* Mutated form: a completed purchase can be cancelled.
AllowedToCancelAny(op, s) ==
    CASE op = "complete" -> s = "pending"
      [] op = "cancel" -> s # "cancelled"
      [] op = "remove" -> s # "completed"

Allowed(op, s) ==
    CASE op \in {"complete", "cancel"} -> s = "pending"
      [] op = "remove" -> s # "completed"

FirstStep(op) == IF op = "cancel" THEN "add" ELSE "save"

\* The purchase is read and checked; the caller may be of another branch.
Load(r) ==
    /\ pc[r] = "new"
    /\ \E op \in Op, p \in Create, access \in BOOLEAN :
        /\ status[p] # None /\ p \notin deleted
        /\ decision' = [decision EXCEPT ![r] = [op |-> op, purchase |-> p]]
        /\ Goto(r, IF access /\ Allowed(op, status[p]) THEN FirstStep(op) ELSE "rejected")
    /\ UNCHANGED <<stockJobVars, orders, costs, stale>>

\* The other requests that act on what they read of the same purchase.
Others(r) ==
    {q \in Decide \ {r} :
        pc[q] \in Deciding /\ decision[q].purchase = decision[r].purchase}

\* The whole entity is saved, its null deletedAt included, whatever the row has
\* become since it was read: a purchase removed meanwhile comes back.
SaveStatus(r) ==
    LET op == decision[r].op
        p == decision[r].purchase
    IN  /\ pc[r] = "save" /\ op # "remove"
        /\ status' = [status EXCEPT ![p] = IF op = "complete" THEN "completed" ELSE "cancelled"]
        /\ deleted' = deleted \ {p}
        /\ Goto(r, IF op = "complete" THEN "add" ELSE "done")
        /\ stale' = stale \cup Others(r)
        /\ UNCHANGED <<stockJobVars, costs, decision>>

SoftRemove(r) ==
    /\ pc[r] = "save" /\ decision[r].op = "remove"
    /\ deleted' = deleted \cup {decision[r].purchase}
    /\ Goto(r, "done")
    /\ stale' = stale \cup Others(r)
    /\ UNCHANGED <<stockJobVars, status, costs, decision>>

Add(r) ==
    LET op == decision[r].op
        p == decision[r].purchase
    IN  /\ pc[r] = "add"
        /\ AddJob(r, IF op = "complete" THEN Receipt(p) ELSE Withdrawal(p))
        /\ Goto(r, IF op = "complete" THEN "done" ELSE "save")
        /\ UNCHANGED <<stock, active, todo, loaded, seen, stalls, inexact,
                       orders, costs, decision, stale>>
-----------------------------------------------------------------------------
\* Anything a request awaits throws, or its process dies.  What it has saved
\* or added stays; a transaction rolls back.
Fail(r) ==
    /\ pc[r] \in InFlight
    /\ Goto(r, "failed")
    /\ rowLock' = Unlocked(r)
    /\ UNCHANGED <<stockJobVars, orders, costPrice, updated, decision, stale>>

CreateAborted(r) == CreateDeadlocked(r) /\ Fail(r)

Quiet == Idle /\ \A r \in Request : pc[r] \in {"new"} \cup Ended

CreateStep(r) == Begin(r) \/ UpdateCostPrice(r) \/ CommitPurchase(r) \/ CreateAborted(r)
DecideStep(r) == SaveStatus(r) \/ SoftRemove(r) \/ Add(r)

Next ==
    \/ \E r \in Create : CreateStep(r)
    \/ \E r \in Decide : Load(r) \/ DecideStep(r)
    \/ \E r \in Request : Fail(r)
    \/ \E w \in Worker : (WorkerStep(w) \/ Stalled(w)) /\ UNCHANGED purchaseVars
    \/ Quiet /\ UNCHANGED vars

Spec == Init /\ [][Next]_vars

\* Node resumes settled awaits, Postgres breaks deadlocks, workers keep polling.
FairSpec ==
    /\ Spec
    /\ \A r \in Create : WF_vars(CreateStep(r))
    /\ \A r \in Decide : WF_vars(DecideStep(r))
    /\ \A w \in Worker : WF_vars(WorkerStep(w) /\ UNCHANGED purchaseVars)
-----------------------------------------------------------------------------
QuantityIn(p, v) == Change(Receipt(p), v)
Deciders(op, labels) ==
    {r \in Decide : decision[r] # None /\ decision[r].op = op /\ pc[r] \in labels}
Moved(op, labels, v) ==
    SumFunction([r \in Deciders(op, labels) |-> QuantityIn(decision[r].purchase, v)])

(***************************************************************************)
(* When all is quiet, a row that no stale save, clamp, skipped line or     *)
(* redelivery touched holds its initial quantity plus what completed       *)
(* purchases received minus what cancelled ones withdrew, though a         *)
(* cancelled purchase had never been received; only a cancellation that    *)
(* failed half-way may have withdrawn or not.                              *)
(***************************************************************************)
StockExplained ==
    Quiet =>
        \A v \in Variant \ inexact :
            \/ \E r \in Deciders("cancel", {"failed"}) :
                   QuantityIn(decision[r].purchase, v) > 0
            \/ QuantityOf(stock[v]) = QuantityOf(Stock0[v])
                 + Moved("complete", {"done"}, v) - Moved("cancel", {"done"}, v)

(***************************************************************************)
(* The cost prices two purchases both set are never a mixture of the two:  *)
(* the transaction keeps the variants' rows locked, so the later purchase  *)
(* sets all of them.                                                       *)
(***************************************************************************)
CostPricesOfOnePurchase ==
    \A u, v \in Variant :
        costPrice[u] # None /\ costPrice[v] # None /\ costPrice[u] # costPrice[v] =>
            \E x \in {u, v}, p \in {costPrice[u], costPrice[v]} : x \notin VariantsOf(Items[p])

(***************************************************************************)
(* A decision on a purchase is final unless requests overlap: completed    *)
(* and cancelled purchases only change, completed ones are only removed,   *)
(* and removed ones only come back, by a request that read the purchase    *)
(* before it was decided.                                                  *)
(***************************************************************************)
FinalUnlessRaced ==
    \A p \in Create :
        \/ status[p] \in {"completed", "cancelled"} /\ status'[p] # status[p]
        \/ status[p] = "completed" /\ p \in deleted' \ deleted
        \/ p \in deleted \ deleted'
        => \E r \in stale : pc[r] = "save" /\ decision[r].purchase = p

DecisionsFinalUnlessRaced == [][FinalUnlessRaced]_vars

(***************************************************************************)
(* Every request that started comes to an end: creates that update the     *)
(* same variants in different orders block each other only until one of    *)
(* them is aborted.                                                        *)
(***************************************************************************)
EveryRequestEnds == \A r \in Request : pc[r] \in InFlight ~> pc[r] \in Ended
=============================================================================
