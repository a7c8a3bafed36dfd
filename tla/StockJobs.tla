------------------------------ MODULE StockJobs ------------------------------
(***************************************************************************)
(* What INVOICES_QUEUE and PURCHASES_QUEUE have in common: a BullMQ queue  *)
(* of jobs, the worker pods that consume it, and the loops of              *)
(* events/listener that call adjustStock for every line of a job and       *)
(* swallow its errors.  Invoices and Purchases extend this module with the *)
(* handlers that add the jobs.                                             *)
(*                                                                         *)
(* One branch is modelled, since jobs of different branches share no row.  *)
(* adjustStock is a load and a save: its other awaits read rows that       *)
(* nobody changes, and Inventory follows its movement and its permissions. *)
(***************************************************************************)
EXTENDS Integers, Sequences, FiniteSets, Functions

CONSTANTS
    Variant,        \* product variants stocked by the branch
    Request,        \* HTTP requests; a job is known by the request that added it
    Worker,         \* worker pods, one job at a time each
    MaxStalled,     \* how often BullMQ hands a stalled job to another worker
    Stock0,         \* quantities to begin with
    None            \* no row, no job

\* A line asks adjustStock for a change; a job is a list of lines.
Line == [variant : Variant, change : Int]
Job == [id : Request, lines : Seq(Line)]

\* Whoever runs the loop over the lines: a worker, or a request itself.
Agent == Worker \cup Request

ASSUME StockJobsAssumption ==
    /\ Stock0 \in [Variant -> Nat \cup {None}]
    /\ MaxStalled \in Nat
    /\ None \notin Nat \cup Job
    /\ IsFiniteSet(Agent)
    /\ Worker \cap Request = {}

VARIABLES
    stock,      \* quantity of each row, None when there is no row
    queue,      \* waiting jobs, first come first served
    active,     \* the job a worker holds the lock of
    todo,       \* lines an agent still has to process
    loaded,     \* agents between the load and the save of their first line
    seen,       \* the quantity they loaded
    stalls,     \* how often a job stalled
    inexact     \* history: rows that a line did not change by exactly its change

stockJobVars == <<stock, queue, active, todo, loaded, seen, stalls, inexact>>

StockJobsTypeOK ==
    /\ stock \in [Variant -> Nat \cup {None}]
    /\ queue \in Seq(Job)
    /\ active \in [Worker -> Job \cup {None}]
    /\ todo \in [Agent -> Seq(Line)]
    /\ loaded \in SUBSET Agent
    /\ \A a \in loaded : todo[a] # <<>>
    /\ seen \in [Agent -> Nat \cup {None}]
    /\ stalls \in [Request -> 0 .. MaxStalled + 1]
    /\ inexact \in SUBSET Variant

StockJobsInit ==
    /\ stock = Stock0
    /\ queue = <<>>
    /\ active = [w \in Worker |-> None]
    /\ todo = [a \in Agent |-> <<>>]
    /\ loaded = {}
    /\ seen = [a \in Agent |-> None]
    /\ stalls = [r \in Request |-> 0]
    /\ inexact = {}

QuantityOf(row) == IF row = None THEN 0 ELSE row
VariantsOf(lines) == {lines[n].variant : n \in DOMAIN lines}

\* What processing every line once adds to v.
Change(lines, v) ==
    SumFunction([n \in DOMAIN lines |-> IF lines[n].variant = v THEN lines[n].change ELSE 0])
-----------------------------------------------------------------------------
(* adjustStock for the first of an agent's lines *)

AdjustLoad(a) ==
    /\ todo[a] # <<>> /\ a \notin loaded
    /\ loaded' = loaded \cup {a}
    /\ seen' = [seen EXCEPT ![a] = stock[Head(todo[a]).variant]]
    /\ UNCHANGED <<stock, queue, active, todo, stalls, inexact>>

\* The insert of a row that somebody else has inserted since the load.
DuplicateRow(a) == seen[a] = None /\ stock[Head(todo[a]).variant] # None

\* Mutated form: stores the result without Math.max(.., 0).
AdjustSaveUnclamped(a) ==
    LET v == Head(todo[a]).variant
    IN  /\ a \in loaded /\ ~DuplicateRow(a)
        /\ stock' = [stock EXCEPT ![v] = QuantityOf(seen[a]) + Head(todo[a]).change]
        /\ todo' = [todo EXCEPT ![a] = Tail(@)]
        /\ loaded' = loaded \ {a}
        /\ seen' = [seen EXCEPT ![a] = None]
        /\ UNCHANGED <<queue, active, stalls, inexact>>

AdjustSave(a) ==
    LET v == Head(todo[a]).variant
        after == QuantityOf(seen[a]) + Head(todo[a]).change
    IN  /\ a \in loaded /\ ~DuplicateRow(a)
        /\ stock' = [stock EXCEPT ![v] = IF after > 0 THEN after ELSE 0]
        /\ todo' = [todo EXCEPT ![a] = Tail(@)]
        /\ loaded' = loaded \ {a}
        /\ seen' = [seen EXCEPT ![a] = None]
        /\ inexact' = inexact \cup
               {u \in {v} : after < 0 \/ QuantityOf(seen[a]) # QuantityOf(stock[v])}
        /\ UNCHANGED <<queue, active, stalls>>

\* The loop over the lines ends early, whatever it was doing.
Abandon(a) ==
    /\ todo' = [todo EXCEPT ![a] = <<>>]
    /\ loaded' = loaded \ {a}
    /\ seen' = [seen EXCEPT ![a] = None]
-----------------------------------------------------------------------------
(* The workers *)

AddJob(id, lines) == queue' = Append(queue, [id |-> id, lines |-> lines])

\* A worker whose last job's loop still runs takes no other job.
Take(w) ==
    /\ queue # <<>> /\ active[w] = None /\ todo[w] = <<>>
    /\ active' = [active EXCEPT ![w] = Head(queue)]
    /\ todo' = [todo EXCEPT ![w] = Head(queue).lines]
    /\ queue' = Tail(queue)
    /\ UNCHANGED <<stock, loaded, seen, stalls, inexact>>

\* Mutated form: the catch block leaves the loop instead of going on.
GiveUpLines(w) ==
    /\ todo[w] # <<>>
    /\ Abandon(w)
    /\ inexact' = inexact \cup {Head(todo[w]).variant}
    /\ UNCHANGED <<stock, queue, active, stalls>>

\* adjustStock threw: the listener logs the error and goes on.
SkipLine(w) ==
    /\ todo[w] # <<>>
    /\ todo' = [todo EXCEPT ![w] = Tail(@)]
    /\ loaded' = loaded \ {w}
    /\ seen' = [seen EXCEPT ![w] = None]
    /\ inexact' = inexact \cup {Head(todo[w]).variant}
    /\ UNCHANGED <<stock, queue, active, stalls>>

\* The handler returns, whatever errors it met, so the job is completed.
Finish(w) ==
    /\ active[w] # None /\ todo[w] = <<>>
    /\ active' = [active EXCEPT ![w] = None]
    /\ UNCHANGED <<stock, queue, todo, loaded, seen, stalls, inexact>>

\* Mutated form: forgets to count how often the job stalled.
StalledUncounted(w) ==
    LET job == active[w]
    IN  /\ job # None
        /\ active' = [active EXCEPT ![w] = None]
        /\ queue' = <<job>> \o queue
        /\ inexact' = inexact \cup VariantsOf(job.lines)
        /\ Abandon(w)
        /\ UNCHANGED <<stock, stalls>>

\* The worker's lock on its job expires, because its pod died or because its
\* event loop was blocked too long; in the latter case its loop goes on.
Stalled(w) ==
    LET job == active[w]
    IN  /\ job # None
        /\ active' = [active EXCEPT ![w] = None]
        /\ queue' = IF stalls[job.id] < MaxStalled THEN <<job>> \o queue ELSE queue
        /\ stalls' = [stalls EXCEPT ![job.id] = @ + 1]
        /\ inexact' = inexact \cup VariantsOf(job.lines)
        /\ \/ Abandon(w)
           \/ UNCHANGED <<todo, loaded, seen>>
        /\ UNCHANGED stock

WorkerStep(w) ==
    Take(w) \/ AdjustLoad(w) \/ AdjustSave(w) \/ SkipLine(w) \/ Finish(w)

\* No job waits and no loop over lines is running.
Idle ==
    /\ queue = <<>>
    /\ \A w \in Worker : active[w] = None
    /\ \A a \in Agent : todo[a] = <<>>

Unsettled(r) ==
    \/ \E n \in DOMAIN queue : queue[n].id = r
    \/ \E w \in Worker : active[w] # None /\ active[w].id = r
=============================================================================
