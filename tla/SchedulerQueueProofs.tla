------------------------- MODULE SchedulerQueueProofs -------------------------
(***************************************************************************)
(* Theorems about SchedulerQueue, for any names, pods, rows, suppliers and *)
(* branches: jobs keep within their attempts and stalls, the flags of the  *)
(* inventory rows tell the truth, and repeated events are accounted for.   *)
(***************************************************************************)
EXTENDS SchedulerQueue, FiniteSetTheorems, TLAPS

Work == [job : JobId, left : SUBSET Target, saving : Row \cup {None}]

\* What BullMQ's limits leave of a job: one that may still be walked has an
\* attempt and a stall left, and only an active one is held.
JobInv ==
    \A j \in JobId :
        /\ job[j].state \in {"waiting", "active"} =>
              job[j].attempts < Attempts /\ job[j].stalls <= MaxStalled
        /\ job[j].state = "none" => job[j].attempts = 0 /\ job[j].stalls = 0
        /\ job[j].holder # None => job[j].state = "active"

ConsumerInv == consumer \in [Pod -> [Scheduled -> Work \cup {None}]]

IInv == TypeOK /\ JobInv /\ ConsumerInv

\* The row a consumer is about to flag was alerted.
SavingIsAlerted ==
    \A w \in Consumer :
        At(w) # None /\ At(w).saving # None => At(w).saving \in alerted \cup late

\* A row that a request holds flagged was alerted.
LoadedIsAlerted ==
    \A u \in Writer :
        loaded[u] # None /\ loaded[u].flag => loaded[u].row \in alerted \cup late

FlagsInv == SavingIsAlerted /\ LoadedIsAlerted /\ FlagsFollowAlerts

-----------------------------------------------------------------------------
\* Every processor walks targets.
LEMMA WalkIsTyped ==
    ASSUME NEW n \in Scheduled, NEW low \in SUBSET Row, NEW behind \in SUBSET Branch
    PROVE  Walk(n, low, behind) \in SUBSET Target
<1>1. n \in JobName
    BY SchedulerQueueAssumption
<1>2. low \in SUBSET Target /\ behind \in SUBSET Target /\ Branch \in SUBSET Target
    BY DEF Target
<1>3. {SupplierOf[r] : r \in low} \in SUBSET Target /\ {"recipients"} \in SUBSET Target
         /\ {"flags"} \in SUBSET Target
    BY DEF Target
<1> QED
    BY <1>1, <1>2, <1>3
       DEF Walk, JobName, LowStockCheck, ResetLowStockAlerts, GroupBySupplier, EndOfDaySalesReport,
           CheckDailySalesTargets, WeeklyRevenueReport, MonthlyPlReport, QuarterlyTaxSummary,
           EmployeePerformanceSummary, ShrinkageTrackingReport

LEMMA InitIInv == Init => IInv /\ FlagsInv
<1> SUFFICES ASSUME Init PROVE IInv /\ FlagsInv
    OBVIOUS
<1>1. [state |-> "none", attempts |-> 0, stalls |-> 0, holder |-> None] \in JobState
    BY DEF JobState, Attempts, MaxStalled
<1>2. TypeOK
    BY <1>1 DEF Init, TypeOK
<1>3. JobInv /\ ConsumerInv
    BY DEF Init, JobInv, ConsumerInv
<1>4. FlagsInv
    BY DEF Init, FlagsInv, SavingIsAlerted, LoadedIsAlerted, FlagsFollowAlerts, At, Consumer
<1> QED
    BY <1>2, <1>3, <1>4 DEF IInv

\* A consumer that works, works on a job.
LEMMA AtIsTyped ==
    ASSUME IInv, NEW w \in Consumer
    PROVE  /\ At(w) # None => At(w) \in Work
           /\ w.pod \in Pod /\ w.name \in Scheduled
           /\ w # None
BY SchedulerQueueAssumption DEF IInv, ConsumerInv, At, Consumer

\* Setting one consumer.
LEMMA SetToKeeps ==
    ASSUME IInv, NEW w \in Consumer, NEW c \in Work \cup {None}, SetTo(w, c)
    PROVE  /\ ConsumerInv'
           /\ At(w)' = c
           /\ \A v \in Consumer : v # w => At(v)' = At(v)
<1>1. w.pod \in Pod /\ w.name \in Scheduled
    BY DEF Consumer
<1>2. consumer \in [Pod -> [Scheduled -> Work \cup {None}]]
    BY DEF IInv, ConsumerInv
<1>3. consumer' = [consumer EXCEPT ![w.pod] = [consumer[w.pod] EXCEPT ![w.name] = c]]
    BY <1>1, <1>2 DEF SetTo
<1>4. [consumer[w.pod] EXCEPT ![w.name] = c] \in [Scheduled -> Work \cup {None}]
    BY <1>1, <1>2
<1>5. ConsumerInv'
    BY <1>1, <1>2, <1>3, <1>4 DEF ConsumerInv
<1>6. At(w)' = c
    BY <1>1, <1>2, <1>3 DEF At
<1>7. ASSUME NEW v \in Consumer, v # w PROVE At(v)' = At(v)
    <2>1. v.pod \in Pod /\ v.name \in Scheduled /\ (v.pod # w.pod \/ v.name # w.name)
        BY <1>7 DEF Consumer
    <2> QED
        BY <1>1, <1>2, <1>3, <2>1 DEF At
<1> QED
    BY <1>5, <1>6, <1>7

\* Setting one job to a state that keeps within the limits.
LEMMA SetJobKeeps ==
    ASSUME IInv, NEW j \in JobId, NEW s \in JobState, job' = [job EXCEPT ![j] = s],
           s.state \in {"waiting", "active"} => s.attempts < Attempts /\ s.stalls <= MaxStalled,
           s.state = "none" => s.attempts = 0 /\ s.stalls = 0,
           s.holder # None => s.state = "active"
    PROVE  job' \in [JobId -> JobState] /\ JobInv'
BY DEF IInv, TypeOK, JobInv

-----------------------------------------------------------------------------
(* The jobs: each action sets one job within the limits, or none.          *)

LEMMA JobStep ==
    ASSUME IInv, [Next]_vars
    PROVE  job' \in [JobId -> JobState] /\ JobInv'
<1>t. job \in [JobId -> JobState] /\ JobInv
    BY DEF IInv, TypeOK
<1> USE DEF Attempts, MaxStalled
<1>s. ASSUME UNCHANGED job PROVE job' \in [JobId -> JobState] /\ JobInv'
    BY <1>s, <1>t DEF JobInv
<1>1. ASSUME NEW j \in JobId, ComesDue(j) PROVE job' \in [JobId -> JobState] /\ JobInv'
    <2> DEFINE s == [job[j] EXCEPT !.state = "waiting"]
    <2>1. job[j].state = "none" /\ job' = [job EXCEPT ![j] = s]
        BY <1>1, <1>t DEF ComesDue
    <2>2. job[j].attempts = 0 /\ job[j].stalls = 0 /\ job[j].holder = None
        BY <1>t, <2>1 DEF JobInv
    <2>3. s \in JobState
        BY <1>t DEF JobState
    <2>4. s.state = "waiting" /\ s.attempts = 0 /\ s.stalls = 0 /\ s.holder = None
        BY <1>t, <2>2 DEF JobState
    <2> HIDE DEF s
    <2>5. s.attempts < Attempts /\ s.stalls <= MaxStalled
        BY <2>4
    <2> QED
        BY <2>1, <2>3, <2>4, <2>5, SetJobKeeps
<1>2. ASSUME NEW j \in JobId, Stalled(j) PROVE job' \in [JobId -> JobState] /\ JobInv'
    <2> DEFINE st == IF job[j].stalls < MaxStalled THEN "waiting" ELSE "failed"
               s == [job[j] EXCEPT !.stalls = @ + 1, !.holder = None, !.state = st]
    <2>1. job[j].state = "active" /\ job' = [job EXCEPT ![j] = s]
        BY <1>2, <1>t DEF Stalled
    <2>2. job[j] \in JobState /\ job[j].attempts < Attempts /\ job[j].stalls <= MaxStalled
        BY <1>t, <2>1 DEF JobInv
    <2>3. job[j].stalls \in 0..2 /\ job[j].attempts \in 0..3
        BY <2>2 DEF JobState
    <2>4. job[j].stalls + 1 \in 0 .. MaxStalled + 1 /\ st \in {"waiting", "failed"}
          /\ (st = "waiting" => job[j].stalls + 1 <= MaxStalled)
        BY <2>2, <2>3
    <2> HIDE DEF st
    <2>5. /\ s.state = st /\ s.holder = None
          /\ s.attempts = job[j].attempts /\ s.stalls = job[j].stalls + 1
        BY <2>2 DEF JobState
    <2>6. s \in JobState
        BY <2>2, <2>4 DEF JobState
    <2> HIDE DEF s
    <2>7. /\ s.state \in {"waiting", "active"} => s.attempts < Attempts /\ s.stalls <= MaxStalled
          /\ s.state # "none"
        BY <2>2, <2>4, <2>5
    <2> QED
        BY <2>1, <2>5, <2>6, <2>7, SetJobKeeps
<1>3. ASSUME NEW w \in Consumer, NEW j \in JobId, Dismiss(w, j)
      PROVE  job' \in [JobId -> JobState] /\ JobInv'
    <2> DEFINE s == [job[j] EXCEPT !.state = "completed"]
    <2>1. job[j].state = "waiting" /\ job' = [job EXCEPT ![j] = s]
        BY <1>3, <1>t DEF Dismiss
    <2>2. job[j] \in JobState /\ job[j].holder = None
        BY <1>t, <2>1 DEF JobInv
    <2>3. s \in JobState /\ s.state = "completed" /\ s.holder = None
        BY <2>2 DEF JobState
    <2> QED
        BY <2>1, <2>3, SetJobKeeps
<1>4. ASSUME NEW w \in Consumer, NEW j \in JobId, Take(w, j)
      PROVE  job' \in [JobId -> JobState] /\ JobInv'
    <2> DEFINE s == [job[j] EXCEPT !.state = "active", !.holder = w]
    <2>1. job[j].state = "waiting" /\ job' = [job EXCEPT ![j] = s]
        BY <1>4, <1>t DEF Take
    <2>2. job[j] \in JobState /\ job[j].attempts < Attempts /\ job[j].stalls <= MaxStalled
        BY <1>t, <2>1 DEF JobInv
    <2>3. /\ s \in JobState /\ s.state = "active"
          /\ s.attempts = job[j].attempts /\ s.stalls = job[j].stalls
        BY <2>2 DEF JobState, Consumer
    <2> QED
        BY <2>1, <2>2, <2>3, SetJobKeeps
<1>5. ASSUME NEW w \in Consumer, Complete(w) PROVE job' \in [JobId -> JobState] /\ JobInv'
    <2> DEFINE j == At(w).job
               s == [job[j] EXCEPT !.state = "completed", !.holder = None]
    <2>1. j \in JobId
        BY <1>5, AtIsTyped DEF Complete, Work
    <2>2. UNCHANGED job \/ job' = [job EXCEPT ![j] = s]
        BY <1>5, <1>t, <2>1 DEF Complete
    <2>3. s \in JobState /\ s.state = "completed" /\ s.holder = None
        BY <1>t, <2>1 DEF JobState
    <2> HIDE DEF s, j
    <2> QED
        BY <1>s, <2>1, <2>2, <2>3, SetJobKeeps
<1>6. ASSUME NEW w \in Consumer, Throw(w) PROVE job' \in [JobId -> JobState] /\ JobInv'
    <2> DEFINE j == At(w).job
               st == IF job[j].attempts + 1 < Attempts THEN "waiting" ELSE "failed"
               s == [job[j] EXCEPT !.attempts = @ + 1, !.holder = None, !.state = st]
    <2>1. j \in JobId
        BY <1>6, AtIsTyped DEF Throw, Work
    <2>2. UNCHANGED job \/ (Holds(w) /\ job' = [job EXCEPT ![j] = s])
        <3>1. Retried(At(w).job) = s
            BY DEF Retried
        <3> HIDE DEF s
        <3> QED
            BY <1>6, <3>1 DEF Throw
    <2>3. CASE Holds(w) /\ job' = [job EXCEPT ![j] = s]
        <3>1. job[j].state = "active"
            BY <1>t, <2>1, <2>3, AtIsTyped DEF JobInv, Holds
        <3>2. job[j] \in JobState /\ job[j].attempts < Attempts /\ job[j].stalls <= MaxStalled
            BY <1>t, <2>1, <3>1 DEF JobInv
        <3>3. job[j].stalls \in 0..2 /\ job[j].attempts \in 0..3
            BY <3>2 DEF JobState
        <3>4. job[j].attempts + 1 \in 0..3 /\ st \in {"waiting", "failed"}
              /\ (st = "waiting" => job[j].attempts + 1 < Attempts)
            BY <3>2, <3>3
        <3> HIDE DEF st, j
        <3>5. /\ s \in JobState /\ s.state = st
              /\ s.holder = None /\ s.attempts = job[j].attempts + 1 /\ s.stalls = job[j].stalls
            BY <3>2, <3>4 DEF JobState
        <3> HIDE DEF s
        <3>6. /\ s.state \in {"waiting", "active"} => s.attempts < Attempts /\ s.stalls <= MaxStalled
              /\ s.state # "none"
            BY <3>2, <3>4, <3>5
        <3> QED
            BY <2>1, <2>3, <3>5, <3>6, SetJobKeeps
    <2> QED
        BY <1>s, <2>2, <2>3
<1>7. ASSUME UNCHANGED vars \/ OnModuleInit \/ (\E n \in Scheduled : RemoveRepeatableJob(n))
             \/ (\E p \in Pod : PodDies(p))
             \/ (\E w \in Consumer : SaveRow(w) \/ ResetFlags(w) \/ \E i \in Target : Emit(w, i))
             \/ \E u \in Writer : SaveLoaded(u) \/ Abandon(u) \/ \E r \in Row : LoadRow(u, r)
      PROVE  UNCHANGED job
    BY <1>7 DEF vars, OnModuleInit, RemoveRepeatableJob, PodDies, SaveRow, ResetFlags, Emit,
                SaveLoaded, Abandon, LoadRow
<1> QED
    BY <1>s, <1>1, <1>2, <1>3, <1>4, <1>5, <1>6, <1>7 DEF Next, ConsumerStep

-----------------------------------------------------------------------------
(* The consumers, the rows and the events.                                 *)

LEMMA ConsumerInvStep == IInv /\ [Next]_vars => ConsumerInv'
<1> SUFFICES ASSUME IInv, [Next]_vars PROVE ConsumerInv'
    OBVIOUS
<1>t. ConsumerInv
    BY DEF IInv
<1>1. ASSUME NEW w \in Consumer, NEW j \in JobId, Take(w, j) PROVE ConsumerInv'
    <2>1. PICK low \in SUBSET Row, behind \in SUBSET Branch :
             SetTo(w, [job |-> j, left |-> Walk(j.name, low, behind), saving |-> None])
        BY <1>1 DEF Take
    <2>2. [job |-> j, left |-> Walk(j.name, low, behind), saving |-> None] \in Work
        BY WalkIsTyped DEF Work, JobId
    <2> QED
        BY <2>1, <2>2, SetToKeeps
<1>2. ASSUME NEW w \in Consumer, NEW i \in Target, Emit(w, i) PROVE ConsumerInv'
    <2>1. At(w) \in Work
        BY <1>2, AtIsTyped DEF Emit
    <2>2. [At(w) EXCEPT !.left = @ \ {i}, !.saving = IF i \in Row THEN i ELSE None] \in Work
        BY <2>1 DEF Work
    <2> QED
        BY <1>2, <2>2, SetToKeeps DEF Emit
<1>3. ASSUME NEW w \in Consumer, SaveRow(w) PROVE ConsumerInv'
    <2>1. At(w) \in Work
        BY <1>3, AtIsTyped DEF SaveRow
    <2>2. [At(w) EXCEPT !.saving = None] \in Work
        BY <2>1 DEF Work
    <2> QED
        BY <1>3, <2>2, SetToKeeps DEF SaveRow
<1>4. ASSUME NEW w \in Consumer, ResetFlags(w) PROVE ConsumerInv'
    <2>1. At(w) \in Work
        BY <1>4, AtIsTyped DEF ResetFlags
    <2>2. [At(w) EXCEPT !.left = {}] \in Work
        BY <2>1 DEF Work
    <2> QED
        BY <1>4, <2>2, SetToKeeps DEF ResetFlags
<1>5. ASSUME NEW w \in Consumer, Complete(w) \/ Throw(w) PROVE ConsumerInv'
    BY <1>5, SetToKeeps DEF Complete, Throw
<1>6. ASSUME NEW p \in Pod, PodDies(p) PROVE ConsumerInv'
    BY <1>6, <1>t DEF PodDies, ConsumerInv
<1>7. ASSUME UNCHANGED consumer PROVE ConsumerInv'
    BY <1>7, <1>t DEF ConsumerInv
<1> QED
    BY <1>1, <1>2, <1>3, <1>4, <1>5, <1>6, <1>7
       DEF Next, ConsumerStep, vars, OnModuleInit, RemoveRepeatableJob, ComesDue, Stalled, Dismiss,
           SaveLoaded, Abandon, LoadRow

\* The parts of the type invariant that are neither jobs nor consumers.
RestTyped ==
    /\ schedule \subseteq Scheduled
    /\ flag \in [Row -> BOOLEAN]
    /\ loaded \in [Writer -> [row : Row, flag : BOOLEAN] \cup {None}]
    /\ events \in [JobId -> [Target -> Nat]]
    /\ walked \subseteq JobId /\ alerted \subseteq Row /\ late \subseteq Row

LEMMA RestStep == IInv /\ [Next]_vars => RestTyped'
<1> SUFFICES ASSUME IInv, [Next]_vars PROVE RestTyped'
    OBVIOUS
<1>t. RestTyped
    BY DEF IInv, TypeOK, RestTyped
<1>1. ASSUME NEW w \in Consumer, NEW i \in Target, Emit(w, i) PROVE RestTyped'
    <2>1. At(w).job \in JobId
        BY <1>1, AtIsTyped DEF Emit, Work
    <2> QED
        BY <1>1, <1>t, <2>1 DEF Emit, RestTyped
<1>2. ASSUME NEW w \in Consumer, SaveRow(w) PROVE RestTyped'
    BY <1>2, <1>t, AtIsTyped DEF SaveRow, RestTyped, Work
<1>3. ASSUME NEW w \in Consumer, ResetFlags(w) PROVE RestTyped'
    BY <1>3, <1>t DEF ResetFlags, InMemory, RestTyped
<1>4. ASSUME NEW w \in Consumer, Complete(w) PROVE RestTyped'
    BY <1>4, <1>t, AtIsTyped DEF Complete, RestTyped, Work
<1>5. ASSUME OnModuleInit \/ \E n \in Scheduled : RemoveRepeatableJob(n) PROVE RestTyped'
    BY <1>5, <1>t DEF OnModuleInit, RemoveRepeatableJob, RestTyped
<1>6. ASSUME UNCHANGED <<schedule, flag, loaded, events, walked, alerted, late>> PROVE RestTyped'
    BY <1>6, <1>t DEF RestTyped
<1>7. ASSUME NEW u \in Writer, SaveLoaded(u) \/ Abandon(u) \/ \E r \in Row : LoadRow(u, r)
      PROVE  RestTyped'
    BY <1>7, <1>t DEF SaveLoaded, Abandon, LoadRow, RestTyped
<1> QED
    BY <1>1, <1>2, <1>3, <1>4, <1>5, <1>6, <1>7
       DEF Next, ConsumerStep, vars, ComesDue, Stalled, Dismiss, Take, Throw, PodDies

LEMMA Invariance == Spec => []IInv
<1>1. IInv /\ [Next]_vars => IInv'
    <2> SUFFICES ASSUME IInv, [Next]_vars PROVE IInv'
        OBVIOUS
    <2>1. job' \in [JobId -> JobState] /\ JobInv'
        BY JobStep
    <2>2. ConsumerInv' /\ RestTyped'
        BY ConsumerInvStep, RestStep
    <2>3. TypeOK'
        BY <2>1, <2>2 DEF TypeOK, ConsumerInv, RestTyped, Work
    <2> QED
        BY <2>1, <2>2, <2>3 DEF IInv
<1> QED
    BY InitIInv, <1>1, PTL DEF Spec

(***************************************************************************)
(* However many consumers throw, stall and die, a job has no more attempts *)
(* than the queue's options allow and no more stalls than BullMQ does, and *)
(* everything else keeps its type.                                         *)
(***************************************************************************)
THEOREM TypeCorrect == Spec => []TypeOK
BY Invariance, PTL DEF IInv
-----------------------------------------------------------------------------
LEMMA FlagsStep == IInv /\ FlagsInv /\ [Next]_vars => FlagsInv'
<1> SUFFICES ASSUME IInv, FlagsInv, [Next]_vars PROVE FlagsInv'
    OBVIOUS
<1>t. RestTyped /\ ConsumerInv
    BY DEF IInv, TypeOK, RestTyped
<1>f. SavingIsAlerted /\ LoadedIsAlerted /\ FlagsFollowAlerts
    BY DEF FlagsInv
<1>1. ASSUME NEW w \in Consumer, NEW j \in JobId, Take(w, j) PROVE FlagsInv'
    <2>1. PICK low \in SUBSET Row, behind \in SUBSET Branch :
             SetTo(w, [job |-> j, left |-> Walk(j.name, low, behind), saving |-> None])
        BY <1>1 DEF Take
    <2> DEFINE c == [job |-> j, left |-> Walk(j.name, low, behind), saving |-> None]
    <2>2. c \in Work /\ c.saving = None
        BY WalkIsTyped DEF Work, JobId
    <2> HIDE DEF c
    <2>3. At(w)' = c /\ \A v \in Consumer : v # w => At(v)' = At(v)
        BY <2>1, <2>2, SetToKeeps DEF c
    <2> QED
        BY <1>1, <1>f, <2>2, <2>3 DEF Take, FlagsInv, SavingIsAlerted, LoadedIsAlerted, FlagsFollowAlerts
<1>2. ASSUME NEW w \in Consumer, NEW i \in Target, Emit(w, i) PROVE FlagsInv'
    <2> DEFINE c == [At(w) EXCEPT !.left = @ \ {i}, !.saving = IF i \in Row THEN i ELSE None]
    <2>1. At(w) \in Work
        BY <1>2, AtIsTyped DEF Emit
    <2>2. c \in Work /\ c.saving = IF i \in Row THEN i ELSE None
        BY <2>1 DEF Work
    <2>3. SetTo(w, c)
        BY <1>2 DEF Emit
    <2> HIDE DEF c
    <2>4. At(w)' = c /\ \A v \in Consumer : v # w => At(v)' = At(v)
        BY <2>2, <2>3, SetToKeeps
    <2> QED
        BY <1>2, <1>f, <2>2, <2>4 DEF Emit, FlagsInv, SavingIsAlerted, LoadedIsAlerted, FlagsFollowAlerts
<1>3. ASSUME NEW w \in Consumer, SaveRow(w) PROVE FlagsInv'
    <2> DEFINE c == [At(w) EXCEPT !.saving = None]
    <2>1. At(w) \in Work /\ At(w).saving \in Row
        BY <1>3, AtIsTyped DEF SaveRow, Work
    <2>2. c \in Work /\ c.saving = None
        BY <2>1 DEF Work
    <2>3. SetTo(w, c)
        BY <1>3 DEF SaveRow
    <2> HIDE DEF c
    <2>4. At(w)' = c /\ \A v \in Consumer : v # w => At(v)' = At(v)
        BY <2>2, <2>3, SetToKeeps
    <2>5. At(w).saving \in alerted \cup late
        BY <1>3, <1>f DEF SaveRow, SavingIsAlerted
    <2> QED
        BY <1>3, <1>t, <1>f, <2>1, <2>2, <2>4, <2>5
           DEF SaveRow, FlagsInv, SavingIsAlerted, LoadedIsAlerted, FlagsFollowAlerts, RestTyped
<1>4. ASSUME NEW w \in Consumer, ResetFlags(w) PROVE FlagsInv'
    <2> DEFINE c == [At(w) EXCEPT !.left = {}]
    <2>1. At(w) \in Work
        BY <1>4, AtIsTyped DEF ResetFlags
    <2>2. c \in Work /\ c.saving = At(w).saving
        BY <2>1 DEF Work
    <2>3. SetTo(w, c)
        BY <1>4 DEF ResetFlags
    <2> HIDE DEF c
    <2>4. At(w)' = c /\ \A v \in Consumer : v # w => At(v)' = At(v)
        BY <2>2, <2>3, SetToKeeps
    <2>5. At(w) # None
        BY <1>4 DEF ResetFlags
    <2>6. \A v \in Consumer :
             At(v)' # None /\ (At(v)').saving # None => At(v) # None /\ At(v).saving = (At(v)').saving
        BY <2>2, <2>4, <2>5
    <2>7. \A v \in Consumer : At(v) # None => At(v).saving \in Row \cup {None}
        BY AtIsTyped DEF Work
    <2>8. SavingIsAlerted'
        BY <1>4, <2>6, <2>7 DEF ResetFlags, InMemory, SavingIsAlerted
    <2>9. FlagsFollowAlerts'
        BY <1>4 DEF ResetFlags, FlagsFollowAlerts
    <2>10. LoadedIsAlerted'
        <3> SUFFICES ASSUME NEW u \in Writer, loaded[u] # None, loaded[u].flag
                     PROVE  loaded[u].row \in late'
            BY <1>4 DEF ResetFlags, LoadedIsAlerted
        <3>1. loaded[u] \in [row : Row, flag : BOOLEAN]
            BY <1>t DEF RestTyped
        <3>2. loaded[u] = [row |-> loaded[u].row, flag |-> TRUE]
            BY <3>1
        <3> QED
            BY <1>4, <3>1, <3>2 DEF ResetFlags, InMemory
    <2> QED
        BY <2>8, <2>9, <2>10 DEF FlagsInv
<1>5. ASSUME NEW w \in Consumer, Complete(w) \/ Throw(w) PROVE FlagsInv'
    <2>1. At(w)' = None /\ \A v \in Consumer : v # w => At(v)' = At(v)
        BY <1>5, SetToKeeps DEF Complete, Throw
    <2> QED
        BY <1>5, <1>f, <2>1 DEF Complete, Throw, FlagsInv, SavingIsAlerted, LoadedIsAlerted, FlagsFollowAlerts
<1>6. ASSUME NEW p \in Pod, PodDies(p) PROVE FlagsInv'
    <2>1. \A v \in Consumer : At(v)' = At(v) \/ At(v)' = None
        BY <1>6, <1>t DEF PodDies, ConsumerInv, At, Consumer
    <2> QED
        BY <1>6, <1>f, <2>1 DEF PodDies, FlagsInv, SavingIsAlerted, LoadedIsAlerted, FlagsFollowAlerts
<1>7. ASSUME UNCHANGED <<consumer, flag, loaded, alerted, late>> PROVE FlagsInv'
    <2>1. \A v \in Consumer : At(v)' = At(v)
        BY <1>7 DEF At
    <2> QED
        BY <1>7, <1>f, <2>1 DEF FlagsInv, SavingIsAlerted, LoadedIsAlerted, FlagsFollowAlerts
<1>8. ASSUME NEW u \in Writer, SaveLoaded(u) \/ Abandon(u) \/ \E r \in Row : LoadRow(u, r)
      PROVE  FlagsInv'
    <2>1. UNCHANGED <<consumer, alerted, late>>
        BY <1>8 DEF SaveLoaded, Abandon, LoadRow
    <2>2. SavingIsAlerted'
        <3>1. \A v \in Consumer : At(v)' = At(v)
            BY <2>1 DEF At
        <3> QED
            BY <1>f, <2>1, <3>1 DEF SavingIsAlerted
    <2>3. CASE SaveLoaded(u)
        \* What it writes back is what was true of the row when it was loaded.
        <3>1. loaded[u] \in [row : Row, flag : BOOLEAN]
            BY <1>t, <2>3 DEF SaveLoaded, RestTyped
        <3>2. loaded[u].flag => loaded[u].row \in alerted \cup late
            BY <1>f, <2>3 DEF SaveLoaded, LoadedIsAlerted
        <3> QED
            BY <1>t, <1>f, <2>1, <2>2, <2>3, <3>1, <3>2
               DEF SaveLoaded, RestTyped, FlagsInv, LoadedIsAlerted, FlagsFollowAlerts
    <2>4. CASE Abandon(u)
        BY <1>t, <1>f, <2>1, <2>2, <2>4
           DEF Abandon, RestTyped, FlagsInv, LoadedIsAlerted, FlagsFollowAlerts
    <2>5. ASSUME NEW r \in Row, LoadRow(u, r) PROVE FlagsInv'
        BY <1>t, <1>f, <2>1, <2>2, <2>5
           DEF LoadRow, RestTyped, FlagsInv, LoadedIsAlerted, FlagsFollowAlerts
    <2> QED
        BY <1>8, <2>3, <2>4, <2>5
<1> QED
    BY <1>1, <1>2, <1>3, <1>4, <1>5, <1>6, <1>7, <1>8
       DEF Next, ConsumerStep, vars, OnModuleInit, RemoveRepeatableJob, ComesDue, Stalled, Dismiss

(***************************************************************************)
(* For any number of pods, rows, requests and overlapping runs of the two  *)
(* jobs, every flag that is set stands for an alert: one emitted since the *)
(* last reset, or one before it that a check had not saved yet or a        *)
(* request had loaded with the row and wrote back.  Neither job nor any    *)
(* writer of the inventory makes up a flag, nor brings one back otherwise. *)
(***************************************************************************)
THEOREM FlagsTellTheTruth == Spec => []FlagsFollowAlerts
<1>1. Init => FlagsInv
    BY InitIInv
<1>2. FlagsInv => FlagsFollowAlerts
    BY DEF FlagsInv
<1> QED
    BY <1>1, <1>2, FlagsStep, Invariance, PTL DEF Spec
-----------------------------------------------------------------------------
(* Repeated events.                                                        *)

\* The consumers that have yet to emit an event for an item.
Walking(j, i) == {w \in Consumer : At(w) # None /\ At(w).job = j /\ i \in At(w).left}

\* How often a job has been taken, but for the attempts that ended in a retry.
Taken(j) == IF job[j].state \in {"active", "completed"} THEN 1 ELSE 0

Limit(j) == job[j].attempts + job[j].stalls + Taken(j)

WalksCounted ==
    \A j \in JobId, i \in Target :
        /\ IsFiniteSet(Walking(j, i))
        /\ events[j][i] + Cardinality(Walking(j, i)) <= Limit(j)

\* The limit of a job never sinks, and taking the job raises it by one.
LEMMA LimitSteps ==
    ASSUME IInv, IInv', [Next]_vars, NEW j \in JobId
    PROVE  /\ Limit(j) \in Nat /\ Limit(j)' \in Nat
           /\ Limit(j) <= Limit(j)'
           /\ (\E w \in Consumer : Take(w, j)) => Limit(j) + 1 <= Limit(j)'
<1> USE DEF Attempts, MaxStalled
<1>t. /\ job \in [JobId -> JobState] /\ job' \in [JobId -> JobState]
      /\ job[j] \in JobState /\ job'[j] \in JobState
    BY DEF IInv, TypeOK
<1>n. /\ job[j].attempts \in Nat /\ job[j].stalls \in Nat
      /\ job'[j].attempts \in Nat /\ job'[j].stalls \in Nat
    BY <1>t DEF JobState
<1>l. Limit(j) \in Nat /\ Limit(j)' \in Nat
    BY <1>n DEF Limit, Taken
<1>s. ASSUME job'[j] = job[j] PROVE Limit(j) <= Limit(j)'
    BY <1>s, <1>n DEF Limit, Taken
<1>1. ASSUME NEW k \in JobId, ComesDue(k) PROVE Limit(j) <= Limit(j)'
    <2>1. job[k].state = "none" /\ job' = [job EXCEPT ![k].state = "waiting"]
        BY <1>1 DEF ComesDue
    <2>2. CASE k = j
        <3>1. job'[j].attempts = job[j].attempts /\ job'[j].stalls = job[j].stalls
              /\ Taken(j) = 0
            BY <1>t, <2>1, <2>2 DEF JobState, Taken
        <3> QED
            BY <1>n, <3>1 DEF Limit, Taken
    <2>3. CASE k # j
        BY <1>s, <1>t, <2>1, <2>3
    <2> QED
        BY <2>2, <2>3
<1>2. ASSUME NEW k \in JobId, Stalled(k) PROVE Limit(j) <= Limit(j)'
    <2> DEFINE st == IF job[k].stalls < MaxStalled THEN "waiting" ELSE "failed"
    <2>1. job' = [job EXCEPT ![k].stalls = @ + 1, ![k].holder = None, ![k].state = st]
        BY <1>2 DEF Stalled
    <2> HIDE DEF st
    <2>2. CASE k = j
        <3>1. job'[j].attempts = job[j].attempts /\ job'[j].stalls = job[j].stalls + 1
            BY <1>t, <2>1, <2>2 DEF JobState
        <3> QED
            BY <1>n, <3>1 DEF Limit, Taken
    <2>3. CASE k # j
        BY <1>s, <1>t, <2>1, <2>3
    <2> QED
        BY <2>2, <2>3
<1>3. ASSUME NEW w \in Consumer, NEW k \in JobId, Dismiss(w, k) PROVE Limit(j) <= Limit(j)'
    <2>1. job[k].state = "waiting" /\ job' = [job EXCEPT ![k].state = "completed"]
        BY <1>3 DEF Dismiss
    <2>2. CASE k = j
        <3>1. job'[j].attempts = job[j].attempts /\ job'[j].stalls = job[j].stalls
              /\ Taken(j) = 0
            BY <1>t, <2>1, <2>2 DEF JobState, Taken
        <3> QED
            BY <1>n, <3>1 DEF Limit, Taken
    <2>3. CASE k # j
        BY <1>s, <1>t, <2>1, <2>3
    <2> QED
        BY <2>2, <2>3
<1>4. ASSUME NEW w \in Consumer, NEW k \in JobId, Take(w, k)
      PROVE  Limit(j) <= Limit(j)' /\ (k = j => Limit(j) + 1 <= Limit(j)')
    <2>1. job[k].state = "waiting"
          /\ job' = [job EXCEPT ![k].state = "active", ![k].holder = w]
        BY <1>4 DEF Take
    <2>2. CASE k = j
        <3>1. job'[j].attempts = job[j].attempts /\ job'[j].stalls = job[j].stalls
              /\ job[j].state = "waiting" /\ job'[j].state = "active"
            BY <1>t, <2>1, <2>2 DEF JobState
        <3> QED
            BY <1>n, <3>1 DEF Limit, Taken
    <2>3. CASE k # j
        BY <1>s, <1>t, <2>1, <2>3
    <2> QED
        BY <2>2, <2>3
<1>5. ASSUME NEW w \in Consumer, Complete(w) \/ Throw(w) PROVE Limit(j) <= Limit(j)'
    <2> DEFINE k == At(w).job
    <2>1. k \in JobId
        BY <1>5, AtIsTyped DEF Complete, Throw, Work
    <2>2. CASE job' = job
        BY <1>s, <2>2
    <2>3. CASE Holds(w) /\ Complete(w)
                /\ job' = [job EXCEPT ![k].state = "completed", ![k].holder = None]
        <3>1. CASE k = j
            <4>1. job'[j].attempts = job[j].attempts /\ job'[j].stalls = job[j].stalls
                  /\ job'[j].state = "completed"
                BY <1>t, <2>3, <3>1 DEF JobState
            <4> QED
                BY <1>n, <4>1 DEF Limit, Taken
        <3>2. CASE k # j
            <4> HIDE DEF k
            <4> QED
                BY <1>s, <1>t, <2>1, <2>3, <3>2
        <3> QED
            BY <3>1, <3>2
    <2>4. CASE Holds(w) /\ Throw(w) /\ job' = [job EXCEPT ![k] = Retried(k)]
        <3>1. CASE k = j
            <4>1. job'[j].attempts = job[j].attempts + 1 /\ job'[j].stalls = job[j].stalls
                BY <1>t, <2>4, <3>1 DEF JobState, Retried
            <4> QED
                BY <1>n, <4>1 DEF Limit, Taken
        <3>2. CASE k # j
            <4> HIDE DEF k
            <4> QED
                BY <1>s, <1>t, <2>1, <2>4, <3>2
        <3> QED
            BY <3>1, <3>2
    <2>5. job' = job \/ (Holds(w) /\ Complete(w)
             /\ job' = [job EXCEPT ![k].state = "completed", ![k].holder = None])
          \/ (Holds(w) /\ Throw(w) /\ job' = [job EXCEPT ![k] = Retried(k)])
        BY <1>5 DEF Complete, Throw
    <2> QED
        BY <2>2, <2>3, <2>4, <2>5
<1>6. ASSUME UNCHANGED job PROVE Limit(j) <= Limit(j)'
    BY <1>s, <1>6
<1>7. Limit(j) <= Limit(j)'
    BY <1>1, <1>2, <1>3, <1>4, <1>5, <1>6
       DEF Next, ConsumerStep, vars, OnModuleInit, RemoveRepeatableJob, PodDies, SaveRow,
           ResetFlags, Emit, SaveLoaded, Abandon, LoadRow
<1> QED
    BY <1>l, <1>4, <1>7

\* Consumers that have nothing new to emit, and no event.
LEMMA FewerWalk ==
    ASSUME WalksCounted, NEW j \in JobId, NEW i \in Target, UNCHANGED events,
           events[j][i] \in Nat, Limit(j) \in Nat, Limit(j)' \in Nat, Limit(j) <= Limit(j)',
           Walking(j, i)' \subseteq Walking(j, i)
    PROVE  IsFiniteSet(Walking(j, i)') /\ events'[j][i] + Cardinality(Walking(j, i)') <= Limit(j)'
<1>1. IsFiniteSet(Walking(j, i)) /\ events[j][i] + Cardinality(Walking(j, i)) <= Limit(j)
    BY DEF WalksCounted
<1> DEFINE W == Walking(j, i)
           V == Walking(j, i)'
<1>2. IsFiniteSet(W) /\ V \in SUBSET W
    BY <1>1
<1> HIDE DEF W, V
<1>3. IsFiniteSet(V) /\ Cardinality(V) <= Cardinality(W)
      /\ Cardinality(V) \in Nat /\ Cardinality(W) \in Nat
    BY <1>2, FS_Subset, FS_CardinalityType
<1> QED
    BY <1>1, <1>3 DEF W, V

LEMMA WalksStep == IInv /\ IInv' /\ WalksCounted /\ [Next]_vars => WalksCounted'
<1> SUFFICES ASSUME IInv, IInv', WalksCounted, [Next]_vars, NEW j \in JobId, NEW i \in Target
             PROVE  /\ IsFiniteSet(Walking(j, i)')
                    /\ events'[j][i] + Cardinality(Walking(j, i)') <= Limit(j)'
    BY DEF WalksCounted
<1> DEFINE Counted == /\ IsFiniteSet(Walking(j, i)')
                      /\ events'[j][i] + Cardinality(Walking(j, i)') <= Limit(j)'
<1>l. /\ Limit(j) \in Nat /\ Limit(j)' \in Nat /\ Limit(j) <= Limit(j)'
      /\ (\E w \in Consumer : Take(w, j)) => Limit(j) + 1 <= Limit(j)'
    BY LimitSteps
<1>e. events \in [JobId -> [Target -> Nat]] /\ events[j][i] \in Nat
    BY DEF IInv, TypeOK
<1>c. IsFiniteSet(Walking(j, i)) /\ events[j][i] + Cardinality(Walking(j, i)) <= Limit(j)
      /\ Cardinality(Walking(j, i)) \in Nat
    BY FS_CardinalityType DEF WalksCounted
<1>1. ASSUME NEW w \in Consumer, NEW k \in JobId, Take(w, k) PROVE Counted
    <2>1. PICK low \in SUBSET Row, behind \in SUBSET Branch :
             SetTo(w, [job |-> k, left |-> Walk(k.name, low, behind), saving |-> None])
        BY <1>1 DEF Take
    <2> DEFINE c == [job |-> k, left |-> Walk(k.name, low, behind), saving |-> None]
    <2>2. c \in Work /\ c.job = k
        BY WalkIsTyped DEF Work, JobId
    <2> HIDE DEF c
    <2>3. At(w)' = c /\ \A v \in Consumer : v # w => At(v)' = At(v)
        BY <2>1, <2>2, SetToKeeps DEF c
    <2>4. At(w) = None /\ UNCHANGED events
        BY <1>1 DEF Take
    <2>5. CASE k = j
        <3> DEFINE W == Walking(j, i)
                   V == Walking(j, i)'
        <3>1. V \subseteq W \cup {w} /\ w \notin W
            BY <2>3, <2>4 DEF Walking
        <3>2. IsFiniteSet(W)
            BY <1>c
        <3> HIDE DEF V, W
        <3>3. IsFiniteSet(W \cup {w}) /\ Cardinality(W \cup {w}) = Cardinality(W) + 1
            BY <3>1, <3>2, FS_AddElement
        <3>4. IsFiniteSet(V) /\ Cardinality(V) <= Cardinality(W \cup {w})
            BY <3>1, <3>3, FS_Subset
        <3>5. Cardinality(V) \in Nat
            BY <3>4, FS_CardinalityType
        <3>6. Limit(j) + 1 <= Limit(j)'
            BY <1>1, <1>l, <2>5
        <3>7. Cardinality(V) <= Cardinality(Walking(j, i)) + 1
            BY <3>3, <3>4 DEF W
        <3> QED
            BY <1>c, <1>e, <1>l, <2>4, <3>4, <3>5, <3>6, <3>7 DEF V
    <2>6. CASE k # j
        <3>1. Walking(j, i)' \subseteq Walking(j, i)
            BY <2>2, <2>3, <2>4, <2>6 DEF Walking
        <3> QED
            BY <1>l, <1>e, <2>4, <3>1, FewerWalk
    <2> QED
        BY <2>5, <2>6
<1>2. ASSUME NEW w \in Consumer, NEW n \in Target, Emit(w, n) PROVE Counted
    <2> DEFINE c == [At(w) EXCEPT !.left = @ \ {n}, !.saving = IF n \in Row THEN n ELSE None]
    <2>1. At(w) \in Work /\ At(w) # None /\ n \in At(w).left
        BY <1>2, AtIsTyped DEF Emit
    <2>2. c \in Work /\ c.job = At(w).job /\ c.left = At(w).left \ {n}
        BY <2>1 DEF Work
    <2>3. SetTo(w, c) /\ events' = [events EXCEPT ![At(w).job][n] = @ + 1]
        BY <1>2 DEF Emit
    <2> HIDE DEF c
    <2>4. At(w)' = c /\ \A v \in Consumer : v # w => At(v)' = At(v)
        BY <2>2, <2>3, SetToKeeps
    <2>5. At(w).job \in JobId
        BY <2>1 DEF Work
    <2>6. CASE At(w).job = j /\ n = i
        <3> DEFINE W == Walking(j, i)
                   V == Walking(j, i)'
        <3>1. w \in W /\ V \subseteq W \ {w}
            BY <2>1, <2>2, <2>4, <2>6 DEF Walking
        <3>2. IsFiniteSet(W)
            BY <1>c
        <3> HIDE DEF V, W
        <3>3. IsFiniteSet(W \ {w}) /\ Cardinality(W \ {w}) = Cardinality(W) - 1
            BY <3>1, <3>2, FS_RemoveElement
        <3>4. IsFiniteSet(V) /\ Cardinality(V) <= Cardinality(W \ {w})
            BY <3>1, <3>3, FS_Subset
        <3>5. Cardinality(V) \in Nat
            BY <3>4, FS_CardinalityType
        <3>6. events'[j][i] = events[j][i] + 1
            BY <1>e, <2>3, <2>5, <2>6
        <3>7. Cardinality(V) <= Cardinality(Walking(j, i)) - 1
            BY <3>3, <3>4 DEF W
        <3> QED
            BY <1>c, <1>e, <1>l, <3>4, <3>5, <3>6, <3>7 DEF V
    <2>7. CASE ~(At(w).job = j /\ n = i)
        <3>1. events'[j][i] = events[j][i]
            BY <1>e, <2>3, <2>5, <2>7
        <3>2. Walking(j, i)' \subseteq Walking(j, i)
            BY <2>1, <2>2, <2>4 DEF Walking
        <3> DEFINE W == Walking(j, i)
                   V == Walking(j, i)'
        <3>3. IsFiniteSet(W) /\ V \in SUBSET W
            BY <1>c, <3>2
        <3> HIDE DEF W, V
        <3>4. IsFiniteSet(V) /\ Cardinality(V) <= Cardinality(W) /\ Cardinality(V) \in Nat
            BY <3>3, FS_Subset, FS_CardinalityType
        <3> QED
            BY <1>c, <1>e, <1>l, <3>1, <3>4 DEF V, W
    <2> QED
        BY <2>6, <2>7
<1>3. ASSUME UNCHANGED events,
             \A v \in Consumer : At(v)' # None =>
                 At(v) # None /\ At(v).job = (At(v)').job /\ (At(v)').left \subseteq At(v).left
      PROVE  Counted
    <2>1. Walking(j, i)' \subseteq Walking(j, i)
        BY <1>3 DEF Walking
    <2> QED
        BY <1>3, <1>l, <1>e, <2>1, FewerWalk
<1>4. ASSUME NEW w \in Consumer, SaveRow(w) \/ ResetFlags(w) PROVE Counted
    <2>1. At(w) \in Work /\ At(w) # None /\ UNCHANGED events
        BY <1>4, AtIsTyped DEF SaveRow, ResetFlags
    <2>2. \E c \in Work : c.job = At(w).job /\ c.left \subseteq At(w).left /\ SetTo(w, c)
        <3>1. [At(w) EXCEPT !.saving = None] \in Work /\ [At(w) EXCEPT !.left = {}] \in Work
            BY <2>1 DEF Work
        <3>2. [At(w) EXCEPT !.saving = None].job = At(w).job
              /\ [At(w) EXCEPT !.saving = None].left = At(w).left
              /\ [At(w) EXCEPT !.left = {}].job = At(w).job
              /\ [At(w) EXCEPT !.left = {}].left = {}
            BY <2>1 DEF Work
        <3> QED
            BY <1>4, <3>1, <3>2 DEF SaveRow, ResetFlags
    <2>3. PICK c \in Work : c.job = At(w).job /\ c.left \subseteq At(w).left /\ SetTo(w, c)
        BY <2>2
    <2>4. At(w)' = c /\ \A v \in Consumer : v # w => At(v)' = At(v)
        BY <2>3, SetToKeeps
    <2> QED
        BY <1>3, <2>1, <2>3, <2>4
<1>5. ASSUME NEW w \in Consumer, Complete(w) \/ Throw(w) PROVE Counted
    <2>1. At(w)' = None /\ \A v \in Consumer : v # w => At(v)' = At(v)
        BY <1>5, SetToKeeps DEF Complete, Throw
    <2>2. UNCHANGED events
        BY <1>5 DEF Complete, Throw
    <2> QED
        BY <1>3, <2>1, <2>2
<1>6. ASSUME NEW p \in Pod, PodDies(p) PROVE Counted
    <2>1. \A v \in Consumer : At(v)' = At(v) \/ At(v)' = None
        BY <1>6 DEF PodDies, IInv, ConsumerInv, At, Consumer
    <2> QED
        BY <1>3, <1>6, <2>1 DEF PodDies
<1>7. ASSUME UNCHANGED <<consumer, events>> PROVE Counted
    <2>1. \A v \in Consumer : At(v)' = At(v)
        BY <1>7 DEF At
    <2> QED
        BY <1>3, <1>7, <2>1
<1> HIDE DEF Counted
<1>8. Counted
    BY <1>1, <1>2, <1>4, <1>5, <1>6, <1>7
       DEF Next, ConsumerStep, vars, OnModuleInit, RemoveRepeatableJob, ComesDue, Stalled, Dismiss,
           SaveLoaded, Abandon, LoadRow
<1> QED
    BY <1>8 DEF Counted

(***************************************************************************)
(* An item gets a second event of the same occurrence only when a walk     *)
(* over it threw or stalled, and no more than one for each of them,        *)
(* whichever consumers walk at the same time and however late a consumer   *)
(* that lost its job goes on.                                              *)
(***************************************************************************)
THEOREM RepeatsAreExplained == Spec => []RepeatsExplained
<1>1. Init => WalksCounted
    <2> SUFFICES ASSUME Init, NEW j \in JobId, NEW i \in Target
                 PROVE  /\ IsFiniteSet(Walking(j, i))
                        /\ events[j][i] + Cardinality(Walking(j, i)) <= Limit(j)
        BY DEF WalksCounted
    <2>1. Walking(j, i) = {}
        BY DEF Init, Walking, At, Consumer
    <2>2. events[j][i] = 0 /\ Limit(j) = 0
        BY DEF Init, Limit, Taken
    <2> QED
        BY <2>1, <2>2, FS_EmptySet
<1>2. Spec => []WalksCounted
    BY <1>1, WalksStep, Invariance, PTL DEF Spec
<1>3. IInv /\ WalksCounted => RepeatsExplained
    <2> SUFFICES ASSUME IInv, WalksCounted, NEW j \in JobId, NEW i \in Target
                 PROVE  events[j][i] <= 1 + job[j].attempts + job[j].stalls
        BY DEF RepeatsExplained
    <2>1. IsFiniteSet(Walking(j, i)) /\ events[j][i] + Cardinality(Walking(j, i)) <= Limit(j)
        BY DEF WalksCounted
    <2>2. Cardinality(Walking(j, i)) \in Nat
        BY <2>1, FS_CardinalityType
    <2>3. events[j][i] \in Nat /\ job[j] \in JobState
        BY DEF IInv, TypeOK
    <2>4. job[j].attempts \in Nat /\ job[j].stalls \in Nat
        BY <2>3 DEF JobState, Attempts, MaxStalled
    <2> QED
        BY <2>1, <2>2, <2>3, <2>4 DEF Limit, Taken
<1> QED
    BY <1>2, <1>3, Invariance, PTL
=============================================================================
