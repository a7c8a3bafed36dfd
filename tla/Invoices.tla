------------------------------- MODULE Invoices -------------------------------
(***************************************************************************)
(* Sales: src/module/invoices/invoices.service.ts with the consumer of     *)
(* INVOICES_QUEUE.  createInvoice checks the stock in a transaction that   *)
(* does not lock it, adds the job that will decrease it before committing, *)
(* and waits for second connections while it holds the transaction's own.  *)
(* cancelInvoice restores the stock itself and then adds a job that        *)
(* restores it again.                                                      *)
(***************************************************************************)
EXTENDS StockJobs

CONSTANTS
    Create,     \* requests that create an invoice, which bears their name
    Cancel,     \* requests that cancel one
    Dto,        \* what each create asks for: items and an optional status
    PoolSize    \* database connections of the API process

ASSUME InvoicesAssumption ==
    /\ Create \cap Cancel = {}
    /\ Request = Create \cup Cancel
    /\ None \notin Request
    /\ PoolSize \in Nat \ {0}
    /\ \A r \in Create :
          /\ Dto[r].items \in Seq([variant : Variant, quantity : Nat \ {0}]) \ {<<>>}
          /\ Dto[r].status \in {"pending", "paid", "cancelled", "refunded", None}

VARIABLES
    status,     \* status of the committed invoices
    pc,         \* where each request is
    checked,    \* items of a create whose stock has been checked
    adding,     \* the queue.add a create has fired without awaiting it
    target      \* the invoice a request cancels

invoiceVars == <<status, pc, checked, adding, target>>
vars == <<stockJobVars, invoiceVars>>

Status == {"pending", "paid", "cancelled", "refunded"}
Ended == {"done", "rejected", "failed"}
InTransaction == {"check", "lookup", "respond", "commit"}
Cancelling == {"save", "restore"}
PC == {"new"} \cup InTransaction \cup Cancelling \cup Ended

TypeOK ==
    /\ StockJobsTypeOK
    /\ status \in [Create -> Status \cup {None}]
    /\ pc \in [Request -> PC]
    /\ checked \in [Create -> Nat]
    /\ \A r \in Create : checked[r] <= Len(Dto[r].items)
    /\ adding \in [Create -> {"not yet", "pending", "landed", "lost"}]
    /\ target \in [Cancel -> Create \cup {None}]

Init ==
    /\ StockJobsInit
    /\ status = [r \in Create |-> None]
    /\ pc = [r \in Request |-> "new"]
    /\ checked = [r \in Create |-> 0]
    /\ adding = [r \in Create |-> "not yet"]
    /\ target = [r \in Cancel |-> None]

Goto(r, l) == pc' = [pc EXCEPT ![r] = l]

HoldsConnection(r) == pc[r] \in InTransaction

\* Mutated form: one connection of the pool was never given back.
FreeConnAfterLeak == Cardinality({r \in Create : HoldsConnection(r)}) < PoolSize - 1

FreeConn == Cardinality({r \in Create : HoldsConnection(r)}) < PoolSize

Items(r) == Dto[r].items
Sale(r) == [n \in DOMAIN Items(r) |->
               [variant |-> Items(r)[n].variant, change |-> -Items(r)[n].quantity]]
Return(r) == [n \in DOMAIN Items(r) |->
               [variant |-> Items(r)[n].variant, change |-> Items(r)[n].quantity]]
-----------------------------------------------------------------------------
(* createInvoice *)

Begin(r) ==
    /\ pc[r] = "new" /\ FreeConn
    /\ Goto(r, "check")
    /\ UNCHANGED <<stockJobVars, status, checked, adding, target>>

\* The stock of one item is read over a connection of the pool.
CheckStock(r) ==
    LET item == Items(r)[checked[r] + 1]
        row == stock[item.variant]
    IN  /\ pc[r] = "check" /\ FreeConn
        /\ \/ /\ row # None /\ row >= item.quantity
              /\ checked' = [checked EXCEPT ![r] = @ + 1]
              /\ Goto(r, IF checked[r] + 1 = Len(Items(r)) THEN "lookup" ELSE "check")
           \/ /\ row = None \/ row < item.quantity
              /\ Goto(r, "rejected")
              /\ UNCHANGED checked
        /\ UNCHANGED <<stockJobVars, status, adding, target>>

\* Invoice and items are saved, visible to nobody yet; once the user is looked
\* up over a second connection, a microtask fires queue.add.
LookUpUser(r) ==
    /\ pc[r] = "lookup" /\ FreeConn
    /\ adding' = [adding EXCEPT ![r] = "pending"]
    /\ Goto(r, "respond")
    /\ UNCHANGED <<stockJobVars, status, checked, target>>

\* The user is looked up again, for the response.
Respond(r) ==
    /\ pc[r] = "respond" /\ FreeConn
    /\ Goto(r, "commit")
    /\ UNCHANGED <<stockJobVars, status, checked, adding, target>>

Commit(r) ==
    /\ pc[r] = "commit"
    /\ status' = [status EXCEPT ![r] = IF Dto[r].status = None THEN "paid" ELSE Dto[r].status]
    /\ Goto(r, "done")
    /\ UNCHANGED <<stockJobVars, checked, adding, target>>

\* The job reaches Redis, before or after the transaction ends either way.
Added(r) ==
    /\ adding[r] = "pending"
    /\ adding' = [adding EXCEPT ![r] = "landed"]
    /\ AddJob(r, Sale(r))
    /\ UNCHANGED <<stock, active, todo, loaded, seen, stalls, inexact,
                   status, pc, checked, target>>

\* The process dies first, or Redis refuses: nobody awaits the promise.
AddLost(r) ==
    /\ adding[r] = "pending"
    /\ adding' = [adding EXCEPT ![r] = "lost"]
    /\ UNCHANGED <<stockJobVars, status, pc, checked, target>>
-----------------------------------------------------------------------------
(* cancelInvoice *)

CancelLoad(r) ==
    /\ pc[r] = "new" /\ FreeConn
    /\ \E i \in Create, access \in BOOLEAN :
        /\ status[i] # None
        /\ target' = [target EXCEPT ![r] = i]
        /\ Goto(r, IF status[i] # "cancelled" /\ access THEN "save" ELSE "rejected")
    /\ UNCHANGED <<stockJobVars, status, checked, adding>>

CancelSave(r) ==
    /\ pc[r] = "save" /\ FreeConn
    /\ status' = [status EXCEPT ![target[r]] = "cancelled"]
    /\ todo' = [todo EXCEPT ![r] = Return(target[r])]
    /\ Goto(r, "restore")
    /\ UNCHANGED <<stock, queue, active, loaded, seen, stalls, inexact,
                   checked, adding, target>>

\* The request calls adjustStock for every item itself.
CancelRestore(r) ==
    /\ pc[r] = "restore" /\ FreeConn
    /\ AdjustLoad(r) \/ AdjustSave(r)
    /\ UNCHANGED invoiceVars

\* Mutated form: queues the sale's own lines instead of the return's.
CancelAddSale(r) ==
    /\ pc[r] = "restore" /\ todo[r] = <<>>
    /\ AddJob(r, Sale(target[r]))
    /\ Goto(r, "done")
    /\ UNCHANGED <<stock, active, todo, loaded, seen, stalls, inexact,
                   status, checked, adding, target>>

\* When every item is restored, a job is added that restores them.
CancelAdd(r) ==
    /\ pc[r] = "restore" /\ todo[r] = <<>>
    /\ AddJob(r, Return(target[r]))
    /\ Goto(r, "done")
    /\ UNCHANGED <<stock, active, todo, loaded, seen, stalls, inexact,
                   status, checked, adding, target>>
-----------------------------------------------------------------------------
\* Anything a request awaits throws, or its process dies: an open transaction
\* rolls back; what a cancellation has saved stays, and so does a fired add.
Fail(r) ==
    /\ pc[r] \in InTransaction \cup Cancelling
    /\ Goto(r, "failed")
    /\ Abandon(r)
    /\ UNCHANGED <<stock, queue, active, stalls, inexact, status, checked, adding, target>>

Quiet ==
    /\ Idle
    /\ \A r \in Request : pc[r] \in {"new"} \cup Ended
    /\ \A r \in Create : adding[r] # "pending"

CreateStep(r) == Begin(r) \/ CheckStock(r) \/ LookUpUser(r) \/ Respond(r) \/ Commit(r)
CancelStep(r) == CancelSave(r) \/ CancelRestore(r) \/ CancelAdd(r)

\* An insert that loses the race for a new row makes the cancellation throw.
CancelRefused(r) == r \in loaded /\ DuplicateRow(r) /\ Fail(r)

Next ==
    \/ \E r \in Create : CreateStep(r) \/ Added(r) \/ AddLost(r)
    \/ \E r \in Cancel : CancelLoad(r) \/ CancelStep(r)
    \/ \E r \in Request : Fail(r)
    \/ \E w \in Worker : (WorkerStep(w) \/ Stalled(w)) /\ UNCHANGED invoiceVars
    \/ Quiet /\ UNCHANGED vars

Spec == Init /\ [][Next]_vars

\* Node resumes settled awaits; workers keep polling.  Nothing is assumed of
\* failures, of stalls, or of a cancellation ever being asked for.
FairSpec ==
    /\ Spec
    /\ \A r \in Create : WF_vars(CreateStep(r)) /\ WF_vars(Added(r) \/ AddLost(r))
    /\ \A r \in Cancel : WF_vars(CancelStep(r) \/ CancelRefused(r))
    /\ \A w \in Worker : WF_vars(WorkerStep(w) /\ UNCHANGED invoiceVars)
-----------------------------------------------------------------------------
QuantityIn(i, v) == Change(Return(i), v)
Landed == {r \in Create : adding[r] = "landed"}
Saved == {r \in Cancel : pc[r] \in {"restore", "done", "failed"}}
Deliveries(r) == 1 + (IF stalls[r] > MaxStalled THEN MaxStalled ELSE stalls[r])

(***************************************************************************)
(* Lost updates, redeliveries and half-failed loops never create stock: a  *)
(* quantity stays between the initial one minus what delivered sale jobs   *)
(* took, and the initial one plus what cancellations gave, each of which   *)
(* gives once by itself and once per delivery of its job.                  *)
(***************************************************************************)
StockWithinDeliveries ==
    \A v \in Variant :
        /\ QuantityOf(stock[v]) >= QuantityOf(Stock0[v])
             - SumFunction([r \in Landed |-> QuantityIn(r, v) * Deliveries(r)])
        /\ QuantityOf(stock[v]) <= QuantityOf(Stock0[v])
             + SumFunction([r \in Saved |-> QuantityIn(target[r], v) * (1 + Deliveries(r))])

(***************************************************************************)
(* When all is quiet, a row that no stale save, clamp, skipped line or     *)
(* redelivery touched, and whose cancellations did not fail, has changed   *)
(* by exactly this: every sale job that reached Redis took its items once, *)
(* though its invoice may have rolled back, and every cancellation gave    *)
(* them back twice.                                                        *)
(***************************************************************************)
StockExplained ==
    Quiet =>
        \A v \in Variant \ inexact :
            \/ \E r \in Saved : pc[r] = "failed" /\ QuantityIn(target[r], v) > 0
            \/ QuantityOf(stock[v]) = QuantityOf(Stock0[v])
                 - SumFunction([r \in Landed |-> QuantityIn(r, v)])
                 + SumFunction([r \in Saved |-> 2 * QuantityIn(target[r], v)])

(***************************************************************************)
(* What cancelInvoice says of itself: it restores the stock.  When all is  *)
(* quiet and nothing failed, exactly the invoices that are not cancelled   *)
(* have taken their items.                                                 *)
(***************************************************************************)
CancelRestoresStock ==
    (/\ Quiet /\ inexact = {}
     /\ \A r \in Request : pc[r] # "failed"
     /\ \A r \in Create : adding[r] # "lost") =>
        \A v \in Variant :
            QuantityOf(stock[v]) = QuantityOf(Stock0[v])
              - SumFunction([r \in {i \in Create : status[i] \in Status \ {"cancelled"}} |->
                                QuantityIn(r, v)])

(***************************************************************************)
(* Every request that started comes to an end: concurrent creates, each    *)
(* holding a connection and waiting for a second one, do not starve each   *)
(* other as long as the pool exceeds their number.                         *)
(***************************************************************************)
EveryRequestEnds ==
    \A r \in Request : pc[r] \in InTransaction \cup Cancelling ~> pc[r] \in Ended

(***************************************************************************)
(* Every job that reached Redis is settled: workers that stall or die hand *)
(* it on at most MaxStalled times.                                         *)
(***************************************************************************)
EveryJobSettles == \A r \in Request : Unsettled(r) ~> ~Unsettled(r)
=============================================================================
