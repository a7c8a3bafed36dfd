---------------------------- MODULE SchedulerQueue ----------------------------
(***************************************************************************)
(* The periodic jobs: src/module/scheduler/scheduler.service.ts registers  *)
(* their schedules in Redis, and every worker pod runs one consumer per    *)
(* processor of src/module/jobs/processors, all of them on SCHEDULER_QUEUE.*)
(* A consumer takes whatever job is next and returns at once when the name *)
(* is not its own.  Otherwise it loads a list and walks it, emitting one   *)
(* event per item; a job that throws or stalls is walked again from a new  *)
(* list.  The rows they flag are saved by the inventory's requests, too,   *)
(* whole and as they were loaded (Inventory has the quantities).  What the *)
(* reports add up is in Figures.                                           *)
(***************************************************************************)
EXTENDS Naturals

CONSTANTS
    Scheduled,      \* the names of REPEATABLE_JOBS that come due
    Pod,            \* worker pods
    Row,            \* inventory rows
    SupplierOf,     \* per row, the supplier of its product, or None
    Branch,         \* active branches
    Writer,         \* calls of create, adjustStock, transferStock and update
    MaxDue,         \* how often a schedule comes due
    None

JobName ==
    {"low-stock-check", "reset-low-stock-alerts", "generate-reorder-suggestions",
     "end-of-day-sales-report", "weekly-revenue-report", "monthly-pl-report",
     "quarterly-tax-summary", "check-daily-sales-targets",
     "employee-performance-summary", "shrinkage-tracking-report"}

ASSUME SchedulerQueueAssumption ==
    /\ Scheduled \subseteq JobName
    /\ MaxDue \in Nat
    /\ None \notin Pod \cup Row \cup Branch \cup [pod : Pod, name : Scheduled]
    /\ None \notin [row : Row, flag : BOOLEAN]

\* The options of every queue, and BullMQ's own limit on stalls.
Attempts == 3
MaxStalled == 1

VARIABLES
    schedule,   \* names with a schedule in Redis
    job,        \* per name and occurrence, the job
    consumer,   \* per pod and processor, what it is working on
    flag,       \* lowStockAlertSent of the inventory rows
    loaded,     \* per writer, the row it has in memory and its flag then
    events,     \* history: per job and item, how many events it emitted
    walked,     \* history: jobs that were walked to the end
    alerted,    \* history: rows alerted since the flags were reset
    late        \* history: rows whose flag was in somebody's memory at the reset

vars == <<schedule, job, consumer, flag, loaded, events, walked, alerted, late>>

JobId == [name : Scheduled, nth : 1..MaxDue]
Target == Row \cup Branch \cup {SupplierOf[r] : r \in Row} \cup {"recipients", "flags"}
JobState == [state : {"none", "waiting", "active", "completed", "failed"},
             attempts : 0..Attempts, stalls : 0..MaxStalled + 1,
             holder : [pod : Pod, name : Scheduled] \cup {None}]

TypeOK ==
    /\ schedule \subseteq Scheduled
    /\ job \in [JobId -> JobState]
    /\ \A p \in Pod, n \in Scheduled :
          consumer[p][n] \in [job : JobId, left : SUBSET Target, saving : Row \cup {None}] \cup {None}
    /\ flag \in [Row -> BOOLEAN]
    /\ loaded \in [Writer -> [row : Row, flag : BOOLEAN] \cup {None}]
    /\ events \in [JobId -> [Target -> Nat]]
    /\ walked \subseteq JobId /\ alerted \subseteq Row /\ late \subseteq Row

Init ==
    /\ schedule = {}
    /\ job = [j \in JobId |-> [state |-> "none", attempts |-> 0, stalls |-> 0, holder |-> None]]
    /\ consumer = [p \in Pod |-> [n \in Scheduled |-> None]]
    /\ flag = [r \in Row |-> FALSE]
    /\ loaded = [u \in Writer |-> None]
    /\ events = [j \in JobId |-> [i \in Target |-> 0]]
    /\ walked = {} /\ alerted = {} /\ late = {}
-----------------------------------------------------------------------------
(* The scheduler pod *)

\* The adds of one start of the pod: a refused one is logged and the loop goes
\* on, and the pod may die before the rest.
OnModuleInit ==
    /\ \E added \in SUBSET Scheduled : schedule' = schedule \cup added
    /\ UNCHANGED <<job, consumer, flag, loaded, events, walked, alerted, late>>

\* Bound: a schedule whose occurrences have all come due is left alone.
RemoveRepeatableJob(n) ==
    /\ n \in schedule /\ \E j \in JobId : j.name = n /\ job[j].state = "none"
    /\ schedule' = schedule \ {n}
    /\ UNCHANGED <<job, consumer, flag, loaded, events, walked, alerted, late>>

ComesDue(j) ==
    /\ j.name \in schedule /\ job[j].state = "none"
    /\ j.nth > 1 => job[[j EXCEPT !.nth = @ - 1]].state # "none"
    /\ job' = [job EXCEPT ![j].state = "waiting"]
    /\ UNCHANGED <<schedule, consumer, flag, loaded, events, walked, alerted, late>>
-----------------------------------------------------------------------------
(* What the processors walk, given the rows that are low and the branches   *)
(* behind their target.  None is a missing supplier, whose id groupBySupplier *)
(* reads: nothing is emitted, and the consumer can only throw.              *)

LowStockCheck(low) == low
ResetLowStockAlerts == {"flags"}
GroupBySupplier(low) == {SupplierOf[r] : r \in low}
EndOfDaySalesReport == Branch
CheckDailySalesTargets(behind) == behind
WeeklyRevenueReport == {"recipients"}
MonthlyPlReport == {"recipients"}
QuarterlyTaxSummary == {"recipients"}
EmployeePerformanceSummary == {"recipients"}
ShrinkageTrackingReport == {"recipients"}

Walk(n, low, behind) ==
    CASE n = "low-stock-check" -> LowStockCheck(low)
      [] n = "reset-low-stock-alerts" -> ResetLowStockAlerts
      [] n = "generate-reorder-suggestions" -> GroupBySupplier(low)
      [] n = "end-of-day-sales-report" -> EndOfDaySalesReport
      [] n = "check-daily-sales-targets" -> CheckDailySalesTargets(behind)
      [] n = "weekly-revenue-report" -> WeeklyRevenueReport
      [] n = "monthly-pl-report" -> MonthlyPlReport
      [] n = "quarterly-tax-summary" -> QuarterlyTaxSummary
      [] n = "employee-performance-summary" -> EmployeePerformanceSummary
      [] n = "shrinkage-tracking-report" -> ShrinkageTrackingReport
-----------------------------------------------------------------------------
(* The consumers: w is the pod and the processor's name. *)

Consumer == [pod : Pod, name : Scheduled]
At(w) == consumer[w.pod][w.name]
SetTo(w, c) == consumer' = [consumer EXCEPT ![w.pod][w.name] = c]

\* A consumer that lost its job to the stalled check reports in vain.
Holds(w) == job[At(w).job].holder = w

\* Mutated form: every failure is retried.
RetriedForEver(j) ==
    [job[j] EXCEPT !.attempts = @ + 1, !.holder = None, !.state = "waiting"]

Retried(j) ==
    [job[j] EXCEPT !.attempts = @ + 1, !.holder = None,
                   !.state = IF job[j].attempts + 1 < Attempts THEN "waiting" ELSE "failed"]

\* A job of another name: process returns, and the job is completed.
Dismiss(w, j) ==
    /\ At(w) = None /\ job[j].state = "waiting" /\ j.name # w.name
    /\ job' = [job EXCEPT ![j].state = "completed"]
    /\ UNCHANGED <<schedule, consumer, flag, loaded, events, walked, alerted, late>>

Take(w, j) ==
    /\ At(w) = None /\ job[j].state = "waiting" /\ j.name = w.name
    /\ job' = [job EXCEPT ![j].state = "active", ![j].holder = w]
    /\ \E low \in SUBSET Row, behind \in SUBSET Branch :
          SetTo(w, [job |-> j, left |-> Walk(j.name, low, behind), saving |-> None])
    /\ UNCHANGED <<schedule, flag, loaded, events, walked, alerted, late>>

\* Mutated form: alerts a row once more for each row that is left.
EmitAgain(w, i) ==
    /\ At(w) # None /\ At(w).saving = None /\ i \in At(w).left \ {"flags"}
    /\ events' = [events EXCEPT ![At(w).job][i] = @ + 1]
    /\ SetTo(w, IF i \in Row THEN [At(w) EXCEPT !.saving = i] ELSE At(w))
    /\ alerted' = alerted \cup ({i} \cap Row)
    /\ UNCHANGED <<schedule, job, flag, loaded, walked, late>>

\* emitAsync of one item; the low-stock check saves the row after it.
Emit(w, i) ==
    /\ At(w) # None /\ At(w).saving = None /\ i \in At(w).left \ {"flags"} /\ None \notin At(w).left
    /\ events' = [events EXCEPT ![At(w).job][i] = @ + 1]
    /\ SetTo(w, [At(w) EXCEPT !.left = @ \ {i}, !.saving = IF i \in Row THEN i ELSE None])
    /\ alerted' = alerted \cup ({i} \cap Row)
    /\ UNCHANGED <<schedule, job, flag, loaded, walked, late>>

SaveRow(w) ==
    /\ At(w) # None /\ At(w).saving # None
    /\ flag' = [flag EXCEPT ![At(w).saving] = TRUE]
    /\ SetTo(w, [At(w) EXCEPT !.saving = None])
    /\ UNCHANGED <<schedule, job, loaded, events, walked, alerted, late>>

\* The rows whose flag is in memory: alerted and about to be flagged by a check,
\* or loaded with the flag set.
InMemory ==
    {r \in Row : \/ \E v \in Consumer : At(v) # None /\ At(v).saving = r
                 \/ \E u \in Writer : loaded[u] = [row |-> r, flag |-> TRUE]}

\* Mutated form: the criteria and the new value are swapped.
ResetFlagsSwapped(w) ==
    /\ At(w) # None /\ "flags" \in At(w).left
    /\ flag' = [r \in Row |-> TRUE]
    /\ alerted' = {}
    /\ late' = InMemory
    /\ SetTo(w, [At(w) EXCEPT !.left = {}])
    /\ UNCHANGED <<schedule, job, loaded, events, walked>>

ResetFlags(w) ==
    /\ At(w) # None /\ "flags" \in At(w).left
    /\ flag' = [r \in Row |-> FALSE]
    /\ alerted' = {}
    /\ late' = InMemory
    /\ SetTo(w, [At(w) EXCEPT !.left = {}])
    /\ UNCHANGED <<schedule, job, loaded, events, walked>>

Complete(w) ==
    /\ At(w) # None /\ At(w).left = {} /\ At(w).saving = None
    /\ walked' = walked \cup {At(w).job}
    /\ job' = IF Holds(w) THEN [job EXCEPT ![At(w).job].state = "completed", ![At(w).job].holder = None]
              ELSE job
    /\ SetTo(w, None)
    /\ UNCHANGED <<schedule, flag, loaded, events, alerted, late>>

\* A query or a listener throws, or a null is dereferenced.
Throw(w) ==
    /\ At(w) # None
    /\ job' = IF Holds(w) THEN [job EXCEPT ![At(w).job] = Retried(At(w).job)] ELSE job
    /\ SetTo(w, None)
    /\ UNCHANGED <<schedule, flag, loaded, events, walked, alerted, late>>

PodDies(p) ==
    /\ \E n \in Scheduled : consumer[p][n] # None
    /\ consumer' = [consumer EXCEPT ![p] = [n \in Scheduled |-> None]]
    /\ UNCHANGED <<schedule, job, flag, loaded, events, walked, alerted, late>>

\* Mutated form: the job keeps its stalls when it is delivered again.
StalledUncounted(j) ==
    /\ job[j].state = "active"
    /\ job' = [job EXCEPT ![j].holder = None, ![j].state = "waiting"]
    /\ UNCHANGED <<schedule, consumer, flag, loaded, events, walked, alerted, late>>

\* The lock ran out: the consumer is dead, or only slow and goes on.
Stalled(j) ==
    /\ job[j].state = "active"
    /\ job' = [job EXCEPT ![j].stalls = @ + 1, ![j].holder = None,
                          ![j].state = IF job[j].stalls < MaxStalled THEN "waiting" ELSE "failed"]
    /\ UNCHANGED <<schedule, consumer, flag, loaded, events, walked, alerted, late>>

-----------------------------------------------------------------------------
(* The inventory's requests and stock jobs: create, adjustStock,            *)
(* transferStock and update load a row, and save all of it, or fail.        *)

LoadRow(u, r) ==
    /\ loaded[u] = None
    /\ loaded' = [loaded EXCEPT ![u] = [row |-> r, flag |-> flag[r]]]
    /\ UNCHANGED <<schedule, job, consumer, flag, events, walked, alerted, late>>

SaveLoaded(u) ==
    /\ loaded[u] # None
    /\ flag' = [flag EXCEPT ![loaded[u].row] = loaded[u].flag]
    /\ loaded' = [loaded EXCEPT ![u] = None]
    /\ UNCHANGED <<schedule, job, consumer, events, walked, alerted, late>>

Abandon(u) ==
    /\ loaded[u] # None
    /\ loaded' = [loaded EXCEPT ![u] = None]
    /\ UNCHANGED <<schedule, job, consumer, flag, events, walked, alerted, late>>

ConsumerStep(w) ==
    \/ \E j \in JobId : Dismiss(w, j) \/ Take(w, j)
    \/ \E i \in Target : Emit(w, i)
    \/ SaveRow(w) \/ ResetFlags(w) \/ Complete(w) \/ Throw(w)

Next ==
    \/ OnModuleInit
    \/ \E n \in Scheduled : RemoveRepeatableJob(n)
    \/ \E w \in Consumer : ConsumerStep(w)
    \/ \E j \in JobId : ComesDue(j) \/ Stalled(j)
    \/ \E p \in Pod : PodDies(p)
    \/ \E u \in Writer : SaveLoaded(u) \/ Abandon(u) \/ \E r \in Row : LoadRow(u, r)

Spec == Init /\ [][Next]_vars

\* Consumers go on, and BullMQ looks for locks that ran out.
FairSpec ==
    /\ Spec
    /\ \A w \in Consumer : WF_vars(ConsumerStep(w))
    /\ \A j \in JobId : WF_vars(Stalled(j))
-----------------------------------------------------------------------------
(***************************************************************************)
(* jobs.module.ts says that each processor handles exactly one job type,   *)
(* the scheduler pod only enqueues: a job that is completed was run.       *)
(***************************************************************************)
CompletedJobsRan == \A j \in JobId : job[j].state = "completed" => j \in walked

(***************************************************************************)
(* An occurrence of a job emits an event for an item a second time only    *)
(* after an attempt that threw or stalled, and once for each of them: the  *)
(* retries start a new walk, and a consumer that lost its job finishes its *)
(* own.                                                                    *)
(***************************************************************************)
RepeatsExplained ==
    \A j \in JobId, i \in Target : events[j][i] <= 1 + job[j].attempts + job[j].stalls

(***************************************************************************)
(* What lowStockAlertSent says of a row: it was alerted since the flags    *)
(* were reset, unless at the reset somebody had the flag in memory: a      *)
(* check between the alert and its save, or a request that had loaded the  *)
(* row flagged and wrote it back over the reset.  Nothing else sets a flag *)
(* that no alert stands for.                                               *)
(***************************************************************************)
FlagsFollowAlerts == \A r \in Row : flag[r] => r \in alerted \cup late

(***************************************************************************)
(* Every job that came due is completed or failed in the end, however      *)
(* often consumers throw, stall and die.                                   *)
(***************************************************************************)
EveryJobSettles ==
    \A j \in JobId :
        job[j].state = "waiting" ~> job[j].state \in {"completed", "failed"}
=============================================================================
