------------------------------ MODULE Inventory ------------------------------
(***************************************************************************)
(* The stock levels: src/module/inventory/inventory.service.ts and the two *)
(* scheduled jobs that write the same table.                               *)
(*                                                                         *)
(* Every request runs its handler one await at a time, so other requests   *)
(* run between a read of a row and the save that follows it.  TypeORM's    *)
(* save writes the whole in-memory entity back.  A transfer runs in a      *)
(* database transaction: its rows stay locked and invisible until it       *)
(* commits, and it holds a pooled connection while the repositories it     *)
(* calls for the movements take connections of their own.                  *)
(***************************************************************************)
EXTENDS Integers, FiniteSets

CONSTANTS
    Branch,     \* branches
    Variant,    \* product variants
    Request,    \* handler executions, each serving one call
    Pod,        \* Node processes, each with a connection pool of its own
    PodOf,      \* the process a request runs in
    PoolSize,   \* connections of a pool
    Call,       \* the calls a request may carry
    Stock0,     \* the inventory table to begin with
    None        \* null: no row, no lock owner, no call, an omitted dto field

Key == Branch \X Variant
Role == {"admin", "manager", "cashier"}
Op == {"create", "adjust", "update", "transfer", "lowStockCheck", "resetAlerts"}
Row == [quantity : Nat, minThreshold : Int, lowStockAlertSent : BOOLEAN]

\* What validated DTOs allow: see create-, adjust-, update- and transfer-stock dto.
CallType ==
    [op : Op, role : Role, home : Branch, system : BOOLEAN, branch : Branch,
     to : Branch, variant : Variant, qty : Int \cup {None}, min : Int \cup {None}]

ValidCall(c) ==
    /\ c \in CallType
    /\ c.op = "create" => c.qty \in Nat
    /\ c.op = "adjust" => c.qty \in Int
    /\ c.op = "transfer" => c.qty \in Nat \ {0}
    /\ c.op = "update" => c.qty \in Nat \cup {None} /\ c.min \in Nat \cup {None}

ASSUME StockAssumption == Stock0 \in [Key -> Row \cup {None}]
ASSUME CallAssumption == \A c \in Call : ValidCall(c)
ASSUME PoolAssumption == PoolSize \in Nat \ {0} /\ PodOf \in [Request -> Pod]
ASSUME NoneAssumption ==
    None \notin Int /\ None \notin Row /\ None \notin Request /\ None \notin Call
-----------------------------------------------------------------------------
VARIABLES
    rows,       \* committed inventory rows
    lock,       \* transaction that holds a row (or its unique index entry)
    conns,      \* requests that hold a pooled connection from step to step
    audit,      \* net of quantityAfter - quantityBefore over the movement rows
    pc,         \* where each handler is
    call,       \* the call it serves
    mem,        \* its in-memory entities as they were loaded
    floor,      \* history: lowest quantity the committed requests account for
    ceiling,    \* history: highest quantity they account for
    overwritten \* history: rows some save overwrote without having seen them

vars == <<rows, lock, conns, audit, pc, call, mem, floor, ceiling, overwritten>>
history == <<floor, ceiling, overwritten>>

Ended == {"done", "rejected", "failed"}
InTransaction == {"saveFrom", "loadTo", "saveTo", "moveOut", "moveIn", "commit"}
HasLockedFrom == InTransaction \ {"saveFrom"}
HasLockedTo == {"moveOut", "moveIn", "commit"}
InFlight == {"load", "save", "record", "alert"} \cup InTransaction
PC == {"new"} \cup InFlight \cup Ended

TypeOK ==
    /\ rows \in [Key -> Row \cup {None}]
    /\ lock \in [Key -> Request \cup {None}]
    /\ conns \in SUBSET Request
    /\ audit \in [Key -> Int]
    /\ pc \in [Request -> PC]
    /\ call \in [Request -> Call \cup {None}]
    /\ mem \in [Request -> [Key -> Row \cup {None}]]
    /\ floor \in [Key -> Int]
    /\ ceiling \in [Key -> Int]
    /\ overwritten \in SUBSET Key

NoRows == [k \in Key |-> None]
QuantityOf(row) == IF row = None THEN 0 ELSE row.quantity
FromKey(c) == <<c.branch, c.variant>>
ToKey(c) == <<c.to, c.variant>>
AtLeastZero(n) == IF n > 0 THEN n ELSE 0
AtMostZero(n) == IF n < 0 THEN n ELSE 0

Init ==
    /\ rows = Stock0
    /\ lock = NoRows
    /\ conns = {}
    /\ audit = [k \in Key |-> 0]
    /\ pc = [r \in Request |-> "new"]
    /\ call = [r \in Request |-> None]
    /\ mem = [r \in Request |-> NoRows]
    /\ floor = [k \in Key |-> QuantityOf(Stock0[k])]
    /\ ceiling = [k \in Key |-> QuantityOf(Stock0[k])]
    /\ overwritten = {}
-----------------------------------------------------------------------------
(* Permissions *)

CheckBranchAccess(c) == c.role = "admin" \/ c.home = c.branch

\* The checks a handler makes before its first await, role guards included.
Admitted(c) ==
    \/ /\ c.op = "create"
       /\ c.role \in {"admin", "manager"}
       /\ CheckBranchAccess(c)
    \/ /\ c.op = "adjust"
       /\ \/ c.system
          \/ CheckBranchAccess(c) /\ ~(c.role = "cashier" /\ c.qty > 0)
    \/ /\ c.op = "transfer"
       /\ c.role \in {"admin", "manager"}
       /\ CheckBranchAccess(c)
       /\ c.branch # c.to
    \/ /\ c.op = "update"
       /\ c.role \in {"admin", "manager"}
    \/ c.op \in {"lowStockCheck", "resetAlerts"}

\* An omitted quantity and a quantity of 0 both skip the threshold check.
UpdateAllowed(c, row) ==
    /\ row # None
    /\ CheckBranchAccess(c)
    /\ c.qty \in {None, 0} \/ c.qty >= row.minThreshold
-----------------------------------------------------------------------------
(* What the handlers compute from the entity they loaded *)

NewRow(qty, min) ==
    [quantity |-> qty, minThreshold |-> min, lowStockAlertSent |-> FALSE]

Given(field, default) == IF field = None THEN default ELSE field

Created(c, row) ==
    IF row = None THEN NewRow(c.qty, Given(c.min, 0))
    ELSE [row EXCEPT !.quantity = @ + c.qty, !.minThreshold = Given(c.min, @)]

\* Mutated form: the decrement is stored without Math.max(.., 0).
AdjustedUnclamped(c, row) ==
    LET inv == IF row = None THEN NewRow(0, 10) ELSE row
    IN  [inv EXCEPT !.quantity = @ + c.qty]

Adjusted(c, row) ==
    LET inv == IF row = None THEN NewRow(0, 10) ELSE row
    IN  [inv EXCEPT !.quantity = AtLeastZero(@ + c.qty)]

Updated(c, row) ==
    [row EXCEPT !.quantity = Given(c.qty, @), !.minThreshold = Given(c.min, @)]

TransferredOut(c, row) == [row EXCEPT !.quantity = @ - c.qty]

TransferredIn(c, row) ==
    LET to == IF row = None THEN NewRow(0, 0) ELSE row
    IN  [to EXCEPT !.quantity = @ + c.qty]

\* The entity that create, adjustStock or update hands to save.
Saved(c, row) ==
    CASE c.op = "create" -> Created(c, row)
      [] c.op = "adjust" -> Adjusted(c, row)
      [] c.op = "update" -> Updated(c, row)

IsLow(row) == row # None /\ row.quantity < row.minThreshold
-----------------------------------------------------------------------------
(* The database: row locks, the unique (variant, branch) index, the pool *)

FreeConn(r) == Cardinality({q \in conns : PodOf[q] = PodOf[r]}) < PoolSize
CanQuery(r) == r \in conns \/ FreeConn(r)

Unlocked(r) == [k \in Key |-> IF lock[k] = r THEN None ELSE lock[k]]

\* An INSERT of a (variant, branch) pair that somebody inserted meanwhile.
Duplicate(r, k) == mem[r][k] = None /\ rows[k] # None

\* Keys whose committed quantity is no longer the one r loaded.
Unseen(r, K) == {k \in K : QuantityOf(mem[r][k]) # QuantityOf(rows[k])}

Flagged == {k \in Key : rows[k] # None /\ rows[k].lowStockAlertSent}

Goto(r, l) == pc' = [pc EXCEPT ![r] = l]
-----------------------------------------------------------------------------
Receive(r) ==
    /\ pc[r] = "new"
    /\ \E c \in Call :
        /\ call' = [call EXCEPT ![r] = c]
        /\ Goto(r, IF Admitted(c) THEN "load" ELSE "rejected")
    /\ UNCHANGED <<rows, lock, conns, audit, mem, history>>

(* create, adjustStock, update: load the row, save it, record a movement *)

Load(r) ==
    LET c == call[r]
        k == FromKey(c)
    IN  /\ pc[r] = "load"
        /\ c.op \in {"create", "adjust", "update"}
        /\ FreeConn(r)
        /\ \/ /\ c.op = "update" => UpdateAllowed(c, rows[k])
              /\ mem' = [mem EXCEPT ![r][k] = rows[k]]
              /\ Goto(r, "save")
           \/ /\ c.op = "update" /\ ~UpdateAllowed(c, rows[k])
              /\ Goto(r, "rejected")
              /\ UNCHANGED mem
        /\ UNCHANGED <<rows, lock, conns, audit, call, history>>

\* The connection is taken before an UPDATE waits for a row.
WaitForRow(r) ==
    /\ \/ pc[r] = "save" /\ lock[FromKey(call[r])] # None
       \/ pc[r] = "alert" /\ \E k \in Key : mem[r][k] # None /\ lock[k] # None
       \/ /\ pc[r] = "load" /\ call[r].op = "resetAlerts"
          /\ \E k \in Flagged : lock[k] # None
    /\ r \notin conns /\ FreeConn(r)
    /\ conns' = conns \cup {r}
    /\ UNCHANGED <<rows, lock, audit, pc, call, mem, history>>

Save(r) ==
    LET c == call[r]
        k == FromKey(c)
        saved == Saved(c, mem[r][k])
    IN  /\ pc[r] = "save"
        /\ lock[k] = None /\ CanQuery(r) /\ ~Duplicate(r, k)
        /\ rows' = [rows EXCEPT ![k] = saved]
        /\ conns' = conns \ {r}
        /\ Goto(r, IF c.op = "update" THEN "done" ELSE "record")
        /\ floor' = [floor EXCEPT ![k] =
               IF c.op = "update" /\ saved.quantity < @ THEN saved.quantity
               ELSE IF c.op = "update" THEN @ ELSE @ + AtMostZero(c.qty)]
        /\ ceiling' = [ceiling EXCEPT ![k] =
               IF c.op = "update" /\ saved.quantity > @ THEN saved.quantity
               ELSE IF c.op = "update" THEN @ ELSE @ + AtLeastZero(c.qty)]
        /\ overwritten' = overwritten \cup Unseen(r, {k})
        /\ UNCHANGED <<lock, audit, call, mem>>

\* The unique index refuses the second of two concurrent inserts.
SaveRefused(r) ==
    LET k == FromKey(call[r])
    IN  /\ pc[r] = "save"
        /\ lock[k] = None /\ CanQuery(r) /\ Duplicate(r, k)
        /\ conns' = conns \ {r}
        /\ Goto(r, "failed")
        /\ UNCHANGED <<rows, lock, audit, call, mem, history>>

\* Mutated form: logs the change that was asked for, clamped or not.
RecordRequestedChange(r) ==
    /\ pc[r] = "record" /\ FreeConn(r)
    /\ audit' = [audit EXCEPT ![FromKey(call[r])] = @ + call[r].qty]
    /\ Goto(r, "done")
    /\ UNCHANGED <<rows, lock, conns, call, mem, history>>

RecordMovement(r) ==
    LET k == FromKey(call[r])
        before == QuantityOf(mem[r][k])
        after == Saved(call[r], mem[r][k]).quantity
    IN  /\ pc[r] = "record" /\ FreeConn(r)
        /\ audit' = [audit EXCEPT ![k] = @ + (after - before)]
        /\ Goto(r, "done")
        /\ UNCHANGED <<rows, lock, conns, call, mem, history>>

(* transferStock: one transaction over both rows, movements outside of it *)

TransferLoadFrom(r) ==
    LET c == call[r]
        k == FromKey(c)
    IN  /\ pc[r] = "load" /\ c.op = "transfer" /\ FreeConn(r)
        /\ \/ /\ QuantityOf(rows[k]) >= c.qty
              /\ mem' = [mem EXCEPT ![r][k] = rows[k]]
              /\ conns' = conns \cup {r}
              /\ Goto(r, "saveFrom")
           \/ /\ QuantityOf(rows[k]) < c.qty
              /\ Goto(r, "rejected")
              /\ UNCHANGED <<mem, conns>>
        /\ UNCHANGED <<rows, lock, audit, call, history>>

TransferSaveFrom(r) ==
    LET k == FromKey(call[r])
    IN  /\ pc[r] = "saveFrom" /\ lock[k] = None
        /\ lock' = [lock EXCEPT ![k] = r]
        /\ Goto(r, "loadTo")
        /\ UNCHANGED <<rows, conns, audit, call, mem, history>>

\* Mutated form: looks the receiving row up under the sending branch.
TransferLoadFromTwice(r) ==
    /\ pc[r] = "loadTo"
    /\ mem' = [mem EXCEPT ![r][ToKey(call[r])] = mem[r][FromKey(call[r])]]
    /\ Goto(r, "saveTo")
    /\ UNCHANGED <<rows, lock, conns, audit, call, history>>

\* The branch and the variant of a missing row come over another connection.
TransferLoadTo(r) ==
    LET k == ToKey(call[r])
    IN  /\ pc[r] = "loadTo"
        /\ rows[k] = None => FreeConn(r)
        /\ mem' = [mem EXCEPT ![r][k] = rows[k]]
        /\ Goto(r, "saveTo")
        /\ UNCHANGED <<rows, lock, conns, audit, call, history>>

TransferSaveTo(r) ==
    LET k == ToKey(call[r])
    IN  /\ pc[r] = "saveTo" /\ lock[k] = None /\ ~Duplicate(r, k)
        /\ lock' = [lock EXCEPT ![k] = r]
        /\ Goto(r, "moveOut")
        /\ UNCHANGED <<rows, conns, audit, call, mem, history>>

\* movementRepo is not the transaction's manager: the movement commits at once.
TransferRecord(r, from, to, k, change) ==
    /\ pc[r] = from /\ FreeConn(r)
    /\ audit' = [audit EXCEPT ![k] = @ + change]
    /\ Goto(r, to)
    /\ UNCHANGED <<rows, lock, conns, call, mem, history>>

TransferRecordOut(r) ==
    TransferRecord(r, "moveOut", "moveIn", FromKey(call[r]), -call[r].qty)

TransferRecordIn(r) ==
    TransferRecord(r, "moveIn", "commit", ToKey(call[r]), call[r].qty)

TransferCommit(r) ==
    LET c == call[r]
        f == FromKey(c)
        t == ToKey(c)
    IN  /\ pc[r] = "commit"
        /\ rows' = [rows EXCEPT ![f] = TransferredOut(c, mem[r][f]),
                                ![t] = TransferredIn(c, mem[r][t])]
        /\ lock' = Unlocked(r)
        /\ conns' = conns \ {r}
        /\ Goto(r, "done")
        /\ floor' = [floor EXCEPT ![f] = @ - c.qty]
        /\ ceiling' = [ceiling EXCEPT ![t] = @ + c.qty]
        /\ overwritten' = overwritten \cup Unseen(r, {f, t})
        /\ UNCHANGED <<audit, call, mem>>

(* The low-stock check and the nightly reset of its flags *)

LowStockCheckLoad(r) ==
    LET low == [k \in Key |-> IF IsLow(rows[k]) THEN rows[k] ELSE None]
    IN  /\ pc[r] = "load" /\ call[r].op = "lowStockCheck" /\ FreeConn(r)
        /\ mem' = [mem EXCEPT ![r] = low]
        /\ Goto(r, IF low = NoRows THEN "done" ELSE "alert")
        /\ UNCHANGED <<rows, lock, conns, audit, call, history>>

\* Mutated form: the loop never gets past the row it has saved.
LowStockCheckSaveAgain(r, k) ==
    /\ pc[r] = "alert" /\ mem[r][k] # None
    /\ lock[k] = None /\ CanQuery(r)
    /\ rows' = [rows EXCEPT ![k] = [mem[r][k] EXCEPT !.lowStockAlertSent = TRUE]]
    /\ conns' = conns \ {r}
    /\ overwritten' = overwritten \cup Unseen(r, {k})
    /\ UNCHANGED <<lock, audit, pc, call, mem, floor, ceiling>>

\* Emits the alert, then saves the row as it was when the list was loaded.
LowStockCheckSave(r, k) ==
    LET left == [mem[r] EXCEPT ![k] = None]
    IN  /\ pc[r] = "alert" /\ mem[r][k] # None
        /\ lock[k] = None /\ CanQuery(r)
        /\ rows' = [rows EXCEPT ![k] = [mem[r][k] EXCEPT !.lowStockAlertSent = TRUE]]
        /\ mem' = [mem EXCEPT ![r] = left]
        /\ conns' = conns \ {r}
        /\ Goto(r, IF left = NoRows THEN "done" ELSE "alert")
        /\ overwritten' = overwritten \cup Unseen(r, {k})
        /\ UNCHANGED <<lock, audit, call, floor, ceiling>>

\* One UPDATE statement over every flagged row.
ResetAlerts(r) ==
    /\ pc[r] = "load" /\ call[r].op = "resetAlerts" /\ CanQuery(r)
    /\ \A k \in Flagged : lock[k] = None
    /\ rows' = [k \in Key |->
           IF k \in Flagged THEN [rows[k] EXCEPT !.lowStockAlertSent = FALSE] ELSE rows[k]]
    /\ conns' = conns \ {r}
    /\ Goto(r, "done")
    /\ UNCHANGED <<lock, audit, call, mem, history>>

(* What ends a handler early *)

\* Mutated form: a failed transaction is never rolled back.
FailWithoutRollback(r) ==
    /\ pc[r] \in InFlight
    /\ Goto(r, "failed")
    /\ conns' = conns \ {r}
    /\ UNCHANGED <<rows, lock, audit, call, mem, history>>

\* Mutated form: the sending row is not saved by the transaction's manager.
FailAfterSave(r) ==
    LET k == FromKey(call[r])
    IN  /\ pc[r] \in InFlight
        /\ rows' = IF pc[r] \in HasLockedFrom
                   THEN [rows EXCEPT ![k] = TransferredOut(call[r], mem[r][k])] ELSE rows
        /\ Goto(r, "failed")
        /\ lock' = Unlocked(r)
        /\ conns' = conns \ {r}
        /\ UNCHANGED <<audit, call, mem, history>>

\* A statement throws, a connection drops or the pod dies, at any await: an
\* open transaction rolls back, everything else that was saved stays saved.
Fail(r) ==
    /\ pc[r] \in InFlight
    /\ Goto(r, "failed")
    /\ lock' = Unlocked(r)
    /\ conns' = conns \ {r}
    /\ UNCHANGED <<rows, audit, call, mem, history>>

\* Transfers that wait for each other's rows in a circle.
Deadlocked(r) ==
    \E S \in SUBSET Request :
        /\ r \in S
        /\ \A x \in S : pc[x] = "saveTo" /\ lock[ToKey(call[x])] \in S
        /\ \A y \in S : \E x \in S : lock[ToKey(call[x])] = y

\* The insert of a receiving row that another transaction inserted, and the
\* transaction Postgres aborts to break a deadlock: transferStock throws.
TransferAborted(r) ==
    /\ pc[r] = "saveTo"
    /\ \/ Deadlocked(r)
       \/ lock[ToKey(call[r])] = None /\ Duplicate(r, ToKey(call[r]))
    /\ Fail(r)

Terminated == \A r \in Request : pc[r] \in Ended
-----------------------------------------------------------------------------
Handle(r) ==
    \/ Load(r) \/ WaitForRow(r) \/ Save(r) \/ SaveRefused(r) \/ RecordMovement(r)
    \/ TransferLoadFrom(r) \/ TransferSaveFrom(r) \/ TransferLoadTo(r)
    \/ TransferSaveTo(r) \/ TransferRecordOut(r) \/ TransferRecordIn(r)
    \/ TransferCommit(r) \/ TransferAborted(r)
    \/ LowStockCheckLoad(r) \/ ResetAlerts(r)
    \/ \E k \in Key : LowStockCheckSave(r, k)

Next ==
    \/ \E r \in Request : Receive(r) \/ Handle(r) \/ Fail(r)
    \/ Terminated /\ UNCHANGED vars

Spec == Init /\ [][Next]_vars

\* Node resumes every handler whose await is settled; Postgres breaks deadlocks.
FairSpec == Spec /\ \A r \in Request : WF_vars(Handle(r))
-----------------------------------------------------------------------------
(***************************************************************************)
(* However requests interleave and wherever they fail, a row never holds   *)
(* more than its initial stock plus everything committed requests added,   *)
(* and never less than its initial stock minus everything they took: the   *)
(* read-then-save handlers may lose a change, but never invent one.        *)
(***************************************************************************)
StockEnvelope ==
    \A k \in Key : floor[k] <= QuantityOf(rows[k]) /\ QuantityOf(rows[k]) <= ceiling[k]

(***************************************************************************)
(* Only an open transferStock transaction keeps a row locked, and it locks *)
(* the sending row before the receiving one: a transfer that ended in any  *)
(* way (done, refused, failed) leaves no lock behind.                      *)
(***************************************************************************)
LocksOfOpenTransfers ==
    \A k \in Key, r \in Request : lock[k] = r =>
        /\ call[r] # None /\ call[r].op = "transfer"
        /\ \/ k = FromKey(call[r]) /\ pc[r] \in HasLockedFrom
           \/ k = ToKey(call[r]) /\ pc[r] \in HasLockedTo

Touches(r, k) ==
    /\ call[r] # None
    /\ k \in {FromKey(call[r]), ToKey(call[r])}

\* No request on the row is under way.
Quiet(k) == \A r \in Request : Touches(r, k) => pc[r] \in Ended

(***************************************************************************)
(* The movement rows of a branch and variant add up to the change of its   *)
(* stock, unless one of exactly three things happened to it: a save that   *)
(* overwrote a quantity its handler had not seen, a request that failed    *)
(* half-way, or update(), which records no movement.                       *)
(***************************************************************************)
AuditTrailExplained ==
    \A k \in Key :
        \/ ~Quiet(k)
        \/ k \in overwritten
        \/ \E r \in Request :
               Touches(r, k) /\ (pc[r] = "failed" \/ call[r].op = "update")
        \/ QuantityOf(rows[k]) = QuantityOf(Stock0[k]) + audit[k]

(***************************************************************************)
(* The inventory table and its movements are a StockLedger.  A row's        *)
(* quantity is seen by a handler from its load to its last save of it, and *)
(* only a transfer enters its movements before it stores.                  *)
(***************************************************************************)
OrderOf(c) ==
    [kind |-> CASE c.op \in {"create", "adjust"} -> "change"
                [] c.op = "update" -> "set"
                [] c.op = "transfer" -> "move"
                [] c.op \in {"lowStockCheck", "resetAlerts"} -> "keep",
     from |-> FromKey(c), to |-> ToKey(c), qty |-> c.qty]

PhaseOf(p) ==
    IF p = "new" THEN "new"
    ELSE IF p = "record" THEN "stored"
    ELSE IF p \in Ended THEN "over" ELSE "open"

\* What a handler will go by: the rows it has loaded and not yet saved for good.
SeenBy(r) ==
    {k \in Key :
        \/ pc[r] \in {"save"} \cup InTransaction /\ k = FromKey(call[r])
        \/ pc[r] \in {"saveTo"} \cup HasLockedTo /\ k = ToKey(call[r])
        \/ pc[r] = "alert" /\ mem[r][k] # None}

View(r) == [k \in Key |-> IF k \in SeenBy(r) THEN QuantityOf(mem[r][k]) ELSE None]

\* What a request at p has stored of a row but not yet recorded, or recorded
\* but not yet stored (then with the other sign), given the row it loaded.
Owing(p, c, row, k) ==
    IF p = "record" /\ k = FromKey(c) THEN Saved(c, row).quantity - QuantityOf(row)
    ELSE IF p \in {"moveIn", "commit"} /\ k = FromKey(c) THEN c.qty
    ELSE IF p = "commit" /\ k = ToKey(c) THEN -c.qty
    ELSE 0

Debt(r) == [k \in Key |-> Owing(pc[r], call[r], mem[r][k], k)]

Quantities == [k \in Key |-> QuantityOf(rows[k])]
Phases == [r \in Request |-> PhaseOf(pc[r])]
Orders == [r \in Request |-> IF call[r] = None THEN None ELSE OrderOf(call[r])]
Views == [r \in Request |-> View(r)]
Debts == [r \in Request |-> Debt(r)]

Ledger == INSTANCE StockLedger WITH
    Order <- {OrderOf(c) : c \in Call},
    stock <- Quantities, movements <- audit,
    phase <- Phases, order <- Orders, view <- Views, owed <- Debts

(***************************************************************************)
(* However requests interleave, wait, abort and fail: a stored quantity is *)
(* computed from one the row had after the request began, by what it was   *)
(* asked for; what is recorded is what was stored; a transfer changes both *)
(* rows at once, after both of its movements, or neither; nobody stores or *)
(* records twice, or anything after it ended.                              *)
(***************************************************************************)
LedgerIsKept == Ledger!Spec

(***************************************************************************)
(* What the README promises, a complete audit trail of all movements: once *)
(* every request ended without an error, the movements account for the     *)
(* stock.                                                                  *)
(***************************************************************************)
AuditTrailComplete ==
    (\A r \in Request : pc[r] \in {"done", "rejected"}) =>
        \A k \in Key : QuantityOf(rows[k]) = QuantityOf(Stock0[k]) + audit[k]

(***************************************************************************)
(* Every request that started comes to an end: no handler waits forever    *)
(* for a row or a connection, as long as the pool of a pod exceeds the     *)
(* number of handlers that can hold a connection in it.                    *)
(***************************************************************************)
EveryRequestEnds == \A r \in Request : pc[r] \in InFlight ~> pc[r] \in Ended
=============================================================================
