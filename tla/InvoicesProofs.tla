---------------------------- MODULE InvoicesProofs ----------------------------
(***************************************************************************)
(* Proofs about Invoices, for any sales, cancellations, variants, workers, *)
(* initial stock and pool sizes.  IInv says where jobs, lines and requests *)
(* can be; BoundsInv and ExactInv, which bring the lines that are still to *)
(* be processed into the accounts, are inductive relative to it.           *)
(***************************************************************************)
EXTENDS Invoices, SumLemmas

(* What a line is worth to the quantity of v.                              *)
Loss(v) == [l \in Line |-> IF l.variant = v /\ l.change < 0 THEN -l.change ELSE 0]
Gain(v) == [l \in Line |-> IF l.variant = v /\ l.change > 0 THEN l.change ELSE 0]

\* What the lines still to be processed will take from v, and give to it.
ToLose(v) == Outstanding(Loss(v), queue, todo)
ToGain(v) == Outstanding(Gain(v), queue, todo)

\* A job is what its request added, and may still be run.
RightJob(j) ==
    /\ stalls[j.id] <= MaxStalled
    /\ IF j.id \in Create
       THEN adding[j.id] = "landed" /\ j.lines = Sale(j.id)
       ELSE pc[j.id] = "done" /\ j.lines = Return(target[j.id])

\* A request adds one job, which is in one place only.
JobsInv ==
    /\ OnceEach(queue, active, None)
    /\ \A j \in Held(queue, active, None) : RightJob(j)
    /\ \A r \in Create : adding[r] # "landed" => stalls[r] = 0
    /\ \A r \in Cancel : pc[r] # "done" => stalls[r] = 0

\* The lines an agent still has to process are some of those it began with.
TodoInv ==
    /\ \A w \in Worker : active[w] # None => VariantsOf(todo[w]) \subseteq VariantsOf(active[w].lines)
    /\ \A r \in Create : todo[r] = <<>>
    /\ \A r \in Cancel : pc[r] # "restore" => todo[r] = <<>>
    /\ \A r \in Cancel : pc[r] = "restore" => VariantsOf(todo[r]) \subseteq VariantsOf(Return(target[r]))

\* Where a request can be.
RequestInv ==
    /\ \A r \in Create :
          /\ pc[r] \notin Cancelling
          /\ pc[r] \in {"new", "check", "lookup"} => adding[r] = "not yet"
          /\ pc[r] \in {"new", "check"} => checked[r] < Len(Items(r))
    /\ \A r \in Cancel :
          /\ pc[r] \notin InTransaction
          /\ pc[r] \in Cancelling \cup {"done", "failed"} => target[r] \in Create

\* Inductive: where requests, jobs and lines can be.
IInv == TypeOK /\ RequestInv /\ JobsInv /\ TodoInv

(* The stock of v as the requests and jobs so far explain it.              *)
Sold(v) == [r \in Create |-> IF r \in Landed THEN QuantityIn(r, v) * Deliveries(r) ELSE 0]
Given(v) ==
    [r \in Cancel |->
        IF r \in Saved
        THEN QuantityIn(target[r], v) * (IF pc[r] = "done" THEN 1 + Deliveries(r) ELSE 1)
        ELSE 0]
\* The same, when every sale's job is run once and every cancellation's too.
SoldOnce(v) == [r \in Create |-> IF r \in Landed THEN QuantityIn(r, v) ELSE 0]
GivenTwice(v) ==
    [r \in Cancel |->
        IF r \in Saved THEN (IF pc[r] = "restore" THEN 1 ELSE 2) * QuantityIn(target[r], v) ELSE 0]

\* No save leaves a row below what is sold but not yet taken, or above what is
\* given but not yet stored; without stale saves it holds exactly the balance.
Low(v) == QuantityOf(Stock0[v]) - SumFunction(Sold(v)) + ToLose(v)
High(v) == QuantityOf(Stock0[v]) + SumFunction(Given(v)) - ToGain(v)
Exact(v) ==
    QuantityOf(Stock0[v]) - SumFunction(SoldOnce(v)) + SumFunction(GivenTwice(v))
        + ToLose(v) - ToGain(v)

\* What a row holds, or an agent has read of it, is within its bounds.
Within(v, row) == Low(v) <= QuantityOf(row) /\ QuantityOf(row) <= High(v)

\* Inductive, relative to IInv: rows and what agents have read of them.
BoundsInv ==
    /\ \A v \in Variant : Within(v, stock[v])
    /\ \A a \in loaded : Within(Head(todo[a]).variant, seen[a])

\* A cancellation that failed has restored its items, some of them or none.
HalfCancelled(v) == \E r \in Saved : pc[r] = "failed" /\ QuantityIn(target[r], v) > 0

\* Inductive, relative to IInv: a row that nothing disturbed holds the balance.
ExactInv == \A v \in Variant \ inexact : HalfCancelled(v) \/ QuantityOf(stock[v]) = Exact(v)
-----------------------------------------------------------------------------
(* 1. Requests, items and lines                                            *)

(* Requests and workers differ, and there are finitely many of them.       *)
LEMMA Kinds ==
    /\ Create \subseteq Request /\ Cancel \subseteq Request /\ Request = Create \cup Cancel
    /\ \A r \in Cancel : r \notin Create
    /\ Request \subseteq Agent /\ Worker \subseteq Agent /\ Agent = Worker \cup Request
    /\ \A w \in Worker : w \notin Request
    /\ None \notin Request /\ None \notin Nat /\ None \notin Job
    /\ IsFiniteSet(Agent) /\ IsFiniteSet(Create) /\ IsFiniteSet(Cancel)
  <1>1. /\ IsFiniteSet(Agent) /\ Create \subseteq Agent /\ Cancel \subseteq Agent
    BY StockJobsAssumption, InvoicesAssumption DEF Agent
  <1>2. IsFiniteSet(Create) /\ IsFiniteSet(Cancel)
    BY <1>1, FS_Subset
  <1>3. QED
    BY <1>1, <1>2, StockJobsAssumption, InvoicesAssumption DEF Agent

(* The items of a sale, and the lines made of them.                        *)
LEMMA ItemsTyped ==
    ASSUME NEW r \in Create
    PROVE  /\ Len(Items(r)) \in Nat \ {0}
           /\ DOMAIN Items(r) = 1 .. Len(Items(r))
           /\ \A n \in DOMAIN Items(r) :
                 Items(r)[n].variant \in Variant /\ Items(r)[n].quantity \in Nat \ {0}
           /\ Sale(r) \in Seq(Line) /\ Return(r) \in Seq(Line)
           /\ DOMAIN Sale(r) = DOMAIN Items(r) /\ DOMAIN Return(r) = DOMAIN Items(r)
           /\ \A n \in DOMAIN Items(r) :
                 /\ Sale(r)[n] \in Line /\ Return(r)[n] \in Line
                 /\ Sale(r)[n].variant = Items(r)[n].variant
                 /\ Return(r)[n].variant = Items(r)[n].variant
                 /\ Sale(r)[n].change = -Items(r)[n].quantity
                 /\ Return(r)[n].change = Items(r)[n].quantity
  <1> DEFINE Item == [variant : Variant, quantity : Nat \ {0}]
             items == Items(r)
             N == Len(items)
  <1>1. items \in Seq(Item) /\ items # <<>>
    BY InvoicesAssumption DEF Items
  <1>2. \A i \in Item : i.variant \in Variant /\ i.quantity \in Nat \ {0}
    OBVIOUS
  <1> HIDE DEF Item, items
  <1>3. N \in Nat \ {0} /\ DOMAIN items = 1 .. N /\ \A n \in 1 .. N : items[n] \in Item
    BY <1>1, EmptySeq, LenProperties, ElementOfSeq
  <1>4. \A n \in 1 .. N : items[n].variant \in Variant /\ items[n].quantity \in Nat \ {0}
    BY <1>2, <1>3
  <1>5. \A n \in 1 .. N :
            /\ [variant |-> items[n].variant, change |-> -items[n].quantity] \in Line
            /\ [variant |-> items[n].variant, change |-> items[n].quantity] \in Line
    BY <1>4 DEF Line
  <1>6. /\ Sale(r) = [n \in 1 .. N |-> [variant |-> items[n].variant, change |-> -items[n].quantity]]
        /\ Return(r) = [n \in 1 .. N |-> [variant |-> items[n].variant, change |-> items[n].quantity]]
    BY <1>3 DEF Sale, Return, items
  <1> HIDE DEF N
  <1>7. Sale(r) \in Seq(Line) /\ Return(r) \in Seq(Line)
    BY <1>3, <1>5, <1>6
  <1>8. /\ DOMAIN Sale(r) = 1 .. N /\ DOMAIN Return(r) = 1 .. N
        /\ \A n \in 1 .. N :
              /\ Sale(r)[n] \in Line /\ Return(r)[n] \in Line
              /\ Sale(r)[n].variant = items[n].variant
              /\ Return(r)[n].variant = items[n].variant
              /\ Sale(r)[n].change = -items[n].quantity
              /\ Return(r)[n].change = items[n].quantity
    BY <1>5, <1>6
  <1>9. QED
    BY <1>3, <1>4, <1>7, <1>8 DEF items, N

(* Weights are natural numbers.                                            *)
LEMMA WeightsTyped ==
    ASSUME NEW v \in Variant
    PROVE  /\ Loss(v) \in [Line -> Nat] /\ Gain(v) \in [Line -> Nat]
           /\ Loss(v) \in [Line -> Int] /\ Gain(v) \in [Line -> Int]
           /\ \A l \in Line :
                 /\ Loss(v)[l] = IF l.variant = v /\ l.change < 0 THEN -l.change ELSE 0
                 /\ Gain(v)[l] = IF l.variant = v /\ l.change > 0 THEN l.change ELSE 0
  <1>1. \A l \in Line : l.change \in Int
    BY DEF Line
  <1>2. QED
    BY <1>1 DEF Loss, Gain

(* A sale takes its quantity of a variant and gives nothing; a return the  *)
(* other way round.  Only variants of which some are sold are in its lines. *)
LEMMA WorthOfLines ==
    ASSUME NEW r \in Create, NEW v \in Variant
    PROVE  /\ QuantityIn(r, v) \in Nat
           /\ Total(Loss(v), Sale(r)) = QuantityIn(r, v) /\ Total(Gain(v), Sale(r)) = 0
           /\ Total(Gain(v), Return(r)) = QuantityIn(r, v) /\ Total(Loss(v), Return(r)) = 0
           /\ QuantityIn(r, v) = 0 => v \notin VariantsOf(Return(r))
           /\ VariantsOf(Sale(r)) = VariantsOf(Return(r))
  <1> DEFINE D == DOMAIN Items(r)
             L == Loss(v)
             G == Gain(v)
             S == Sale(r)
             R == Return(r)
  <1>1. /\ S \in Seq(Line) /\ R \in Seq(Line) /\ DOMAIN S = D /\ DOMAIN R = D
        /\ \A n \in D :
              /\ S[n] \in Line /\ R[n] \in Line /\ S[n].variant = R[n].variant
              /\ S[n].change = -R[n].change /\ R[n].change \in Nat \ {0}
    BY ItemsTyped
  <1>2. /\ L \in [Line -> Nat] /\ G \in [Line -> Nat]
        /\ \A l \in Line :
              /\ L[l] = IF l.variant = v /\ l.change < 0 THEN -l.change ELSE 0
              /\ G[l] = IF l.variant = v /\ l.change > 0 THEN l.change ELSE 0
    BY WeightsTyped
  <1> DEFINE q == [n \in D |-> IF R[n].variant = v THEN R[n].change ELSE 0]
  <1>3. QuantityIn(r, v) = SumFunction(q)
    BY <1>1 DEF QuantityIn, Change
  <1> HIDE DEF D, L, G, S, R
  <1>4. ASSUME NEW n \in D
        PROVE  L[S[n]] = q[n] /\ G[R[n]] = q[n] /\ G[S[n]] = 0 /\ L[R[n]] = 0
    <2>1. q[n] = IF R[n].variant = v THEN R[n].change ELSE 0
      OBVIOUS
    <2>2. /\ L[S[n]] = IF S[n].variant = v /\ S[n].change < 0 THEN -S[n].change ELSE 0
          /\ G[S[n]] = IF S[n].variant = v /\ S[n].change > 0 THEN S[n].change ELSE 0
          /\ L[R[n]] = IF R[n].variant = v /\ R[n].change < 0 THEN -R[n].change ELSE 0
          /\ G[R[n]] = IF R[n].variant = v /\ R[n].change > 0 THEN R[n].change ELSE 0
      BY <1>1, <1>2
    <2>3. /\ S[n].variant = R[n].variant /\ R[n].change > 0 /\ R[n].change \in Int
          /\ S[n].change = -R[n].change
      BY <1>1
    <2>4. QED
      BY <2>1, <2>2, <2>3
  <1>5. [n \in DOMAIN S |-> L[S[n]]] = q /\ [n \in DOMAIN R |-> G[R[n]]] = q
    BY <1>1, <1>4
  <1>6. Total(L, S) = SumFunction(q) /\ Total(G, R) = SumFunction(q)
    BY <1>5 DEF Total
  <1>7. Total(G, S) = 0 /\ Total(L, R) = 0
    BY <1>1, <1>4, TotalOfZeroes
  <1>8. Total(G, R) \in Nat /\ (Total(G, R) = 0 => \A n \in DOMAIN R : G[R[n]] = 0)
    BY <1>1, <1>2, TotalIsNatural
  <1>9. Total(G, R) = 0 => v \notin VariantsOf(R)
    BY <1>1, <1>4, <1>8 DEF VariantsOf
  <1>10. VariantsOf(S) = VariantsOf(R)
    BY <1>1 DEF VariantsOf
  <1>11. QED
    BY <1>3, <1>6, <1>7, <1>8, <1>9, <1>10 DEF L, G, S, R

(* Lines of other variants are worth nothing to this one.                  *)
LEMMA WorthOfOthers ==
    ASSUME NEW v \in Variant, NEW s \in Seq(Line), v \notin VariantsOf(s)
    PROVE  Total(Loss(v), s) = 0 /\ Total(Gain(v), s) = 0
  <1>1. \A n \in DOMAIN s : s[n] \in Line /\ s[n].variant # v
    BY LenProperties, ElementOfSeq DEF VariantsOf
  <1>2. \A n \in DOMAIN s : Loss(v)[s[n]] = 0 /\ Gain(v)[s[n]] = 0
    BY <1>1, WeightsTyped
  <1>3. QED
    BY <1>2, TotalOfZeroes
-----------------------------------------------------------------------------
(* 2. Types                                                                *)

(* The lines of an agent.                                                  *)
LEMMA LinesTyped ==
    ASSUME StockJobsTypeOK, NEW a \in Agent, todo[a] # <<>>
    PROVE  /\ Head(todo[a]) \in Line /\ Tail(todo[a]) \in Seq(Line)
           /\ Head(todo[a]).variant \in Variant /\ Head(todo[a]).change \in Int
           /\ Head(todo[a]).variant \in VariantsOf(todo[a])
           /\ VariantsOf(Tail(todo[a])) \subseteq VariantsOf(todo[a])
  <1> DEFINE s == todo[a]
  <1>1. s \in Seq(Line) /\ s # <<>>
    BY DEF StockJobsTypeOK
  <1> HIDE DEF s
  <1>2. /\ Head(s) \in Line /\ Tail(s) \in Seq(Line) /\ Len(Tail(s)) = Len(s) - 1
        /\ \A i \in 1 .. Len(Tail(s)) : Tail(s)[i] = s[i+1]
        /\ Head(s) = s[1]
    BY <1>1, HeadTailProperties
  <1>3. Len(s) \in Nat \ {0} /\ DOMAIN s = 1 .. Len(s) /\ DOMAIN Tail(s) = 1 .. Len(s) - 1
    BY <1>1, <1>2, EmptySeq, LenProperties
  <1>4. Head(s).variant \in Variant /\ Head(s).change \in Int
    BY <1>2 DEF Line
  <1>5. \A n \in DOMAIN Tail(s) : n + 1 \in DOMAIN s /\ Tail(s)[n] = s[n + 1]
    BY <1>2, <1>3
  <1>6. 1 \in DOMAIN s
    BY <1>3
  <1>7. QED
    BY <1>2, <1>4, <1>5, <1>6 DEF s, VariantsOf

(* One half of adjustStock.                                                *)
LEMMA AdjustTypes ==
    ASSUME StockJobsTypeOK, NEW a \in Agent, AdjustLoad(a) \/ AdjustSave(a)
    PROVE  StockJobsTypeOK'
  <1>1. /\ todo[a] # <<>> /\ Head(todo[a]).variant \in Variant /\ Head(todo[a]).change \in Int
        /\ Tail(todo[a]) \in Seq(Line)
    BY LinesTyped DEF AdjustLoad, AdjustSave, StockJobsTypeOK
  <1>2. CASE AdjustLoad(a)
    BY <1>1, <1>2 DEF AdjustLoad, StockJobsTypeOK
  <1>3. CASE AdjustSave(a)
    <2> DEFINE after == QuantityOf(seen[a]) + Head(todo[a]).change
               new == IF after > 0 THEN after ELSE 0
    <2>1. new \in Nat
      BY <1>1 DEF StockJobsTypeOK, QuantityOf
    <2> HIDE DEF new
    <2>2. /\ stock' = [stock EXCEPT ![Head(todo[a]).variant] = new]
          /\ todo' = [todo EXCEPT ![a] = Tail(@)]
          /\ loaded' = loaded \ {a}
          /\ seen' = [seen EXCEPT ![a] = None]
          /\ inexact' \subseteq inexact \cup {Head(todo[a]).variant}
          /\ UNCHANGED <<queue, active, stalls>>
      BY <1>3 DEF AdjustSave, new
    <2>3. QED
      BY <1>1, <2>1, <2>2 DEF StockJobsTypeOK
  <1>4. QED
    BY <1>2, <1>3

(* A job joins the queue at its end or at its head.                        *)
LEMMA QueueTypes ==
    ASSUME queue \in Seq(Job), NEW j \in Job
    PROVE  /\ Append(queue, j) \in Seq(Job) /\ <<j>> \o queue \in Seq(Job)
           /\ queue # <<>> => Head(queue) \in Job /\ Tail(queue) \in Seq(Job)
  <1>1. <<j>> \in Seq(Job)
    OBVIOUS
  <1>2. QED
    BY <1>1, AppendProperties, ConcatProperties, HeadTailProperties

(* A worker's other steps; it has a job that may stall once more.          *)
LEMMA WorkerTypes ==
    ASSUME StockJobsTypeOK, NEW w \in Worker,
           Take(w) \/ SkipLine(w) \/ Finish(w) \/ Stalled(w),
           active[w] # None => stalls[active[w].id] <= MaxStalled
    PROVE  StockJobsTypeOK'
  <1>1. w \in Agent /\ None \notin Job /\ (todo[w] = <<>> => w \notin loaded)
    BY Kinds DEF StockJobsTypeOK
  <1>2. CASE Take(w)
    <2>1. Head(queue) \in Job /\ Tail(queue) \in Seq(Job)
      BY <1>2, HeadTailProperties DEF Take, StockJobsTypeOK
    <2>2. Head(queue).lines \in Seq(Line)
      BY <2>1 DEF Job
    <2>3. QED
      BY <1>1, <1>2, <2>1, <2>2 DEF Take, StockJobsTypeOK
  <1>3. CASE SkipLine(w)
    <2>1. Head(todo[w]).variant \in Variant /\ Tail(todo[w]) \in Seq(Line)
      BY <1>1, <1>3, LinesTyped DEF SkipLine
    <2>2. QED
      BY <1>1, <1>3, <2>1 DEF SkipLine, StockJobsTypeOK
  <1>4. CASE Finish(w)
    BY <1>4 DEF Finish, StockJobsTypeOK
  <1>5. CASE Stalled(w)
    <2> DEFINE job == active[w]
    <2>1. job \in Job /\ job.id \in Request /\ job.lines \in Seq(Line)
      BY <1>5 DEF Stalled, StockJobsTypeOK, Job
    <2>2. VariantsOf(job.lines) \subseteq Variant
      <3>1. \A n \in DOMAIN job.lines : job.lines[n] \in Line
        BY <2>1, LenProperties, ElementOfSeq
      <3>2. QED
        BY <3>1 DEF VariantsOf, Line
    <2>3. <<job>> \o queue \in Seq(Job)
      BY <2>1, QueueTypes DEF StockJobsTypeOK
    <2>4. stalls[job.id] \in Nat /\ stalls[job.id] + 1 \in 0 .. MaxStalled + 1
      BY <1>5, <2>1, StockJobsAssumption DEF Stalled, StockJobsTypeOK
    <2>5. <<>> \in Seq(Line)
      OBVIOUS
    <2>6. /\ active' = [active EXCEPT ![w] = None]
          /\ queue' \in {queue, <<job>> \o queue}
          /\ stalls' = [stalls EXCEPT ![job.id] = stalls[job.id] + 1]
          /\ inexact' = inexact \cup VariantsOf(job.lines)
          /\ stock' = stock
      BY <1>5 DEF Stalled
    <2>7. \/ UNCHANGED <<todo, loaded, seen>>
          \/ /\ todo' = [todo EXCEPT ![w] = <<>>] /\ loaded' = loaded \ {w}
             /\ seen' = [seen EXCEPT ![w] = None]
      BY <1>5 DEF Stalled, Abandon
    <2> HIDE DEF job
    <2>8. /\ stock' \in [Variant -> Nat \cup {None}] /\ queue' \in Seq(Job)
          /\ active' \in [Worker -> Job \cup {None}]
          /\ stalls' \in [Request -> 0 .. MaxStalled + 1] /\ inexact' \in SUBSET Variant
      BY <2>1, <2>2, <2>3, <2>4, <2>6 DEF StockJobsTypeOK
    <2>9. /\ todo' \in [Agent -> Seq(Line)] /\ loaded' \in SUBSET Agent
          /\ seen' \in [Agent -> Nat \cup {None}]
          /\ \A a \in loaded' : todo'[a] # <<>>
      <3>1. CASE UNCHANGED <<todo, loaded, seen>>
        BY <3>1 DEF StockJobsTypeOK
      <3>2. CASE /\ todo' = [todo EXCEPT ![w] = <<>>] /\ loaded' = loaded \ {w}
                 /\ seen' = [seen EXCEPT ![w] = None]
        <4>1. todo' \in [Agent -> Seq(Line)] /\ seen' \in [Agent -> Nat \cup {None}]
          BY <1>1, <2>5, <3>2 DEF StockJobsTypeOK
        <4>2. \A a \in loaded' : todo'[a] # <<>>
          BY <1>1, <3>2 DEF StockJobsTypeOK
        <4>3. QED
          BY <3>2, <4>1, <4>2 DEF StockJobsTypeOK
      <3>3. QED
        BY <2>7, <3>1, <3>2
    <2>10. QED
      BY <2>8, <2>9 DEF StockJobsTypeOK
  <1>6. QED
    BY <1>2, <1>3, <1>4, <1>5

(* The steps of the system.                                                *)
LEMMA Steps ==
    ASSUME [Next]_vars
    PROVE  \/ \E r \in Create : \/ Begin(r) \/ CheckStock(r) \/ LookUpUser(r)
                                \/ Respond(r) \/ Commit(r) \/ AddLost(r)
           \/ \E r \in Create : Added(r)
           \/ \E r \in Cancel : CancelLoad(r)
           \/ \E r \in Cancel : CancelSave(r)
           \/ \E r \in Cancel : CancelAdd(r)
           \/ \E r \in Request : Fail(r)
           \/ \E r \in Cancel : /\ pc[r] = "restore" /\ UNCHANGED invoiceVars
                                /\ AdjustLoad(r) \/ AdjustSave(r)
           \/ \E w \in Worker : /\ UNCHANGED invoiceVars
                                /\ AdjustLoad(w) \/ AdjustSave(w)
           \/ \E w \in Worker : /\ UNCHANGED invoiceVars
                                /\ Take(w) \/ SkipLine(w) \/ Finish(w) \/ Stalled(w)
           \/ UNCHANGED vars
  BY DEF Next, CreateStep, CancelStep, WorkerStep, CancelRestore

(* Nothing has happened.                                                   *)
LEMMA TypeOKInit == Init => TypeOK /\ RequestInv /\ TodoInv
  <1> SUFFICES ASSUME Init PROVE TypeOK /\ RequestInv /\ TodoInv
    OBVIOUS
  <1>1. StockJobsTypeOK
    <2>1. stock \in [Variant -> Nat \cup {None}] /\ queue \in Seq(Job)
      <3>1. stock = Stock0 /\ queue = <<>>
        BY DEF Init, StockJobsInit
      <3>2. <<>> \in Seq(Job)
        OBVIOUS
      <3> QED
        BY <3>1, <3>2, StockJobsAssumption
    <2>2. active \in [Worker -> Job \cup {None}]
      BY DEF Init, StockJobsInit
    <2>3. todo \in [Agent -> Seq(Line)]
      <3>1. <<>> \in Seq(Line)
        OBVIOUS
      <3> QED
        BY <3>1 DEF Init, StockJobsInit
    <2>4. seen \in [Agent -> Nat \cup {None}]
      BY DEF Init, StockJobsInit
    <2>5. stalls \in [Request -> 0 .. MaxStalled + 1]
      <3>1. 0 \in 0 .. MaxStalled + 1
        BY StockJobsAssumption
      <3> QED
        BY <3>1 DEF Init, StockJobsInit
    <2>6. loaded = {} /\ inexact = {}
      BY DEF Init, StockJobsInit
    <2> QED
      BY <2>1, <2>2, <2>3, <2>4, <2>5, <2>6 DEF StockJobsTypeOK
  <1>2. \A r \in Create : Len(Items(r)) \in Nat
    BY ItemsTyped
  <1>3. TypeOK
    <2>1. pc \in [Request -> PC]
      BY DEF Init, PC
    <2>2. checked \in [Create -> Nat] /\ \A r \in Create : checked[r] <= Len(Dto[r].items)
      <3>1. checked = [r \in Create |-> 0]
        BY DEF Init
      <3>2. \A r \in Create : checked[r] = 0 /\ 0 <= Len(Items(r))
        BY <1>2, <3>1
      <3>3. checked \in [Create -> Nat]
        BY <3>1
      <3> QED
        BY <3>2, <3>3 DEF Items
    <2>3. /\ status \in [Create -> Status \cup {None}]
          /\ adding \in [Create -> {"not yet", "pending", "landed", "lost"}]
          /\ target \in [Cancel -> Create \cup {None}]
      BY DEF Init
    <2> QED
      BY <1>1, <2>1, <2>2, <2>3 DEF TypeOK
  <1>4. RequestInv /\ TodoInv
    <2>1. \A r \in Create : checked[r] < Len(Items(r))
      <3>1. \A r \in Create : checked[r] = 0 /\ Len(Items(r)) \in Nat \ {0}
        BY ItemsTyped DEF Init
      <3> QED
        BY <3>1
    <2> QED
      BY <2>1, Kinds DEF Init, StockJobsInit, RequestInv, TodoInv, Cancelling, InTransaction
  <1>5. QED
    BY <1>3, <1>4

(* What one request does to the table of where requests are.               *)
LEMMA Moved ==
    ASSUME TypeOK, NEW r \in Request, NEW l \in PC, Goto(r, l)
    PROVE  pc' \in [Request -> PC] /\ pc'[r] = l /\ \A q \in Request \ {r} : pc'[q] = pc[q]
  BY DEF Goto, TypeOK

(* Every step keeps the types.                                             *)
LEMMA TypeOKStep ==
    ASSUME TypeOK, RequestInv, JobsInv, [Next]_vars
    PROVE  TypeOK'
  <1>1. /\ StockJobsTypeOK
        /\ status \in [Create -> Status \cup {None}]
        /\ pc \in [Request -> PC]
        /\ checked \in [Create -> Nat]
        /\ \A r \in Create : checked[r] <= Len(Items(r))
        /\ adding \in [Create -> {"not yet", "pending", "landed", "lost"}]
        /\ target \in [Cancel -> Create \cup {None}]
    BY DEF TypeOK, Items
  <1> DEFINE Rest == /\ status' \in [Create -> Status \cup {None}]
                     /\ pc' \in [Request -> PC]
                     /\ checked' \in [Create -> Nat]
                     /\ \A r \in Create : checked'[r] <= Len(Items(r))
                     /\ adding' \in [Create -> {"not yet", "pending", "landed", "lost"}]
                     /\ target' \in [Cancel -> Create \cup {None}]
  <1>2. ASSUME StockJobsTypeOK', Rest PROVE TypeOK'
    BY <1>2 DEF TypeOK, Items
  <1>3. ASSUME UNCHANGED stockJobVars PROVE StockJobsTypeOK'
    BY <1>1, <1>3 DEF stockJobVars, StockJobsTypeOK
  <1>4. ASSUME UNCHANGED invoiceVars PROVE Rest
    BY <1>1, <1>4 DEF invoiceVars
  <1>5. ASSUME NEW r \in Create,
               \/ Begin(r) \/ CheckStock(r) \/ LookUpUser(r) \/ Respond(r) \/ Commit(r) \/ AddLost(r)
        PROVE  TypeOK'
    <2>1. r \in Request
      BY Kinds
    <2>2. StockJobsTypeOK'
      BY <1>3, <1>5 DEF Begin, CheckStock, LookUpUser, Respond, Commit, AddLost
    <2>3. UNCHANGED target
      BY <1>5 DEF Begin, CheckStock, LookUpUser, Respond, Commit, AddLost
    <2>4. pc' \in [Request -> PC]
      <3>1. pc' = pc \/ \E l \in PC : Goto(r, l)
        BY <1>5 DEF Begin, CheckStock, LookUpUser, Respond, Commit, AddLost, PC, InTransaction, Ended
      <3>2. QED
        BY <1>1, <2>1, <3>1, Moved
    <2>5. status' \in [Create -> Status \cup {None}]
      <3>1. Dto[r].status \in Status \cup {None}
        BY InvoicesAssumption DEF Status
      <3>2. "paid" \in Status
        BY DEF Status
      <3>3. status' = status \/ \E s \in Status : status' = [status EXCEPT ![r] = s]
        BY <1>5, <3>1, <3>2 DEF Begin, CheckStock, LookUpUser, Respond, Commit, AddLost
      <3>4. QED
        BY <1>1, <3>3
    <2>6. adding' \in [Create -> {"not yet", "pending", "landed", "lost"}]
      BY <1>1, <1>5 DEF Begin, CheckStock, LookUpUser, Respond, Commit, AddLost
    <2>7. checked' \in [Create -> Nat] /\ \A q \in Create : checked'[q] <= Len(Items(q))
      <3>1. CASE UNCHANGED checked
        BY <1>1, <3>1
      <3>2. CASE checked' # checked
        <4>1. checked' = [checked EXCEPT ![r] = @ + 1] /\ pc[r] = "check"
          BY <1>5, <3>2 DEF Begin, CheckStock, LookUpUser, Respond, Commit, AddLost
        <4>2. checked[r] < Len(Items(r)) /\ checked[r] \in Nat /\ Len(Items(r)) \in Nat
          BY <1>1, <4>1, ItemsTyped DEF RequestInv
        <4>3. checked'[r] = checked[r] + 1 /\ \A q \in Create \ {r} : checked'[q] = checked[q]
          BY <1>1, <4>1
        <4>4. checked' \in [Create -> Nat]
          <5>1. checked[r] + 1 \in Nat
            BY <4>2
          <5> QED
            BY <1>1, <4>1, <5>1
        <4>5. ASSUME NEW q \in Create PROVE checked'[q] <= Len(Items(q))
          <5>1. CASE q = r
            BY <4>2, <4>3, <5>1
          <5>2. CASE q # r
            BY <1>1, <4>3, <5>2
          <5> QED
            BY <5>1, <5>2
        <4>6. QED
          BY <4>4, <4>5
      <3>3. QED
        BY <3>1, <3>2
    <2>8. QED
      BY <1>1, <1>2, <2>2, <2>3, <2>4, <2>5, <2>6, <2>7
  <1>6. ASSUME NEW r \in Create, Added(r) PROVE TypeOK'
    <2>1. [id |-> r, lines |-> Sale(r)] \in Job
      BY Kinds, ItemsTyped DEF Job
    <2>2. queue' = Append(queue, [id |-> r, lines |-> Sale(r)])
          /\ UNCHANGED <<stock, active, todo, loaded, seen, stalls, inexact>>
      BY <1>6 DEF Added, AddJob
    <2>3. queue' \in Seq(Job)
      BY <1>1, <2>1, <2>2, QueueTypes DEF StockJobsTypeOK
    <2>4. StockJobsTypeOK'
      BY <1>1, <2>2, <2>3 DEF StockJobsTypeOK
    <2>5. Rest
      BY <1>1, <1>6 DEF Added
    <2>6. QED
      BY <1>2, <2>4, <2>5
  <1>7. ASSUME NEW r \in Cancel, CancelLoad(r) PROVE TypeOK'
    <2>1. PICK i \in Create, access \in BOOLEAN :
              /\ target' = [target EXCEPT ![r] = i]
              /\ Goto(r, IF status[i] # "cancelled" /\ access THEN "save" ELSE "rejected")
      BY <1>7 DEF CancelLoad
    <2>2. \E l \in PC : Goto(r, l)
      BY <2>1 DEF PC, Cancelling, Ended
    <2>3. pc' \in [Request -> PC]
      BY <2>2, Moved, Kinds
    <2>4. UNCHANGED <<stockJobVars, status, checked, adding>>
      BY <1>7 DEF CancelLoad
    <2>5. Rest
      BY <1>1, <2>1, <2>3, <2>4
    <2>6. QED
      BY <1>2, <1>3, <2>4, <2>5
  <1>8. ASSUME NEW r \in Cancel, CancelSave(r) PROVE TypeOK'
    <2>1. target[r] \in Create /\ r \in Agent
      BY <1>8, Kinds DEF CancelSave, RequestInv, Cancelling
    <2>2. Return(target[r]) \in Seq(Line) /\ Return(target[r]) # <<>>
      <3>1. /\ Return(target[r]) \in Seq(Line)
            /\ DOMAIN Return(target[r]) = 1 .. Len(Items(target[r]))
            /\ Len(Items(target[r])) \in Nat \ {0}
        BY <2>1, ItemsTyped
      <3>2. 1 \in DOMAIN Return(target[r])
        BY <3>1
      <3>3. QED
        BY <3>1, <3>2
    <2>3. /\ todo' = [todo EXCEPT ![r] = Return(target[r])]
          /\ UNCHANGED <<stock, queue, active, loaded, seen, stalls, inexact>>
      BY <1>8 DEF CancelSave
    <2>4. StockJobsTypeOK'
      BY <1>1, <2>1, <2>2, <2>3 DEF StockJobsTypeOK
    <2>5. \E l \in PC : Goto(r, l)
      BY <1>8 DEF CancelSave, PC, Cancelling
    <2>6. pc' \in [Request -> PC]
      BY <2>5, Moved, Kinds
    <2>7. Rest
      BY <1>1, <1>8, <2>1, <2>6 DEF CancelSave, Status
    <2>8. QED
      BY <1>2, <2>4, <2>7
  <1>9. ASSUME NEW r \in Cancel, CancelAdd(r) PROVE TypeOK'
    <2>1. target[r] \in Create
      BY <1>9 DEF CancelAdd, RequestInv, Cancelling
    <2>2. [id |-> r, lines |-> Return(target[r])] \in Job
      BY <2>1, Kinds, ItemsTyped DEF Job
    <2>3. queue' = Append(queue, [id |-> r, lines |-> Return(target[r])])
          /\ UNCHANGED <<stock, active, todo, loaded, seen, stalls, inexact>>
      BY <1>9 DEF CancelAdd, AddJob
    <2>4. queue' \in Seq(Job)
      BY <1>1, <2>2, <2>3, QueueTypes DEF StockJobsTypeOK
    <2>5. StockJobsTypeOK'
      BY <1>1, <2>3, <2>4 DEF StockJobsTypeOK
    <2>6. \E l \in PC : Goto(r, l)
      BY <1>9 DEF CancelAdd, PC, Ended
    <2>7. pc' \in [Request -> PC]
      BY <2>6, Moved, Kinds
    <2>8. Rest
      BY <1>1, <1>9, <2>7 DEF CancelAdd
    <2>9. QED
      BY <1>2, <2>5, <2>8
  <1>10. ASSUME NEW r \in Request, Fail(r) PROVE TypeOK'
    <2>1. /\ todo' = [todo EXCEPT ![r] = <<>>] /\ loaded' = loaded \ {r}
          /\ seen' = [seen EXCEPT ![r] = None]
          /\ UNCHANGED <<stock, queue, active, stalls, inexact, status, checked, adding, target>>
      BY <1>10 DEF Fail, Abandon
    <2>2. r \in Agent /\ <<>> \in Seq(Line)
      BY Kinds
    <2>3. StockJobsTypeOK'
      BY <1>1, <2>1, <2>2 DEF StockJobsTypeOK
    <2>4. \E l \in PC : Goto(r, l)
      BY <1>10 DEF Fail, PC, Ended
    <2>5. pc' \in [Request -> PC]
      BY <2>4, Moved
    <2>6. QED
      BY <1>1, <1>2, <2>1, <2>3, <2>5
  <1>11. ASSUME NEW a \in Agent, AdjustLoad(a) \/ AdjustSave(a), UNCHANGED invoiceVars
         PROVE  TypeOK'
    BY <1>1, <1>2, <1>4, <1>11, AdjustTypes
  <1>12. ASSUME NEW w \in Worker, Take(w) \/ SkipLine(w) \/ Finish(w) \/ Stalled(w),
                UNCHANGED invoiceVars
         PROVE  TypeOK'
    <2>1. active[w] # None => stalls[active[w].id] <= MaxStalled
      BY <1>1 DEF JobsInv, RightJob, Held, StockJobsTypeOK
    <2>2. StockJobsTypeOK'
      BY <1>1, <1>12, <2>1, WorkerTypes
    <2>3. QED
      BY <1>2, <1>4, <1>12, <2>2
  <1>13. ASSUME UNCHANGED vars PROVE TypeOK'
    BY <1>2, <1>3, <1>4, <1>13 DEF vars
  <1>14. QED
    BY <1>5, <1>6, <1>7, <1>8, <1>9, <1>10, <1>11, <1>12, <1>13, Steps, Kinds
-----------------------------------------------------------------------------
(* 3. Requests, jobs and lines                                             *)

(* What the steps that leave the stock, the jobs and the lines alone do to *)
(* the requests.                                                           *)
LEMMA RequestSteps ==
    ASSUME TypeOK, RequestInv,
           \/ \E r \in Create : \/ Begin(r) \/ CheckStock(r) \/ LookUpUser(r)
                                \/ Respond(r) \/ Commit(r) \/ AddLost(r)
           \/ \E r \in Cancel : CancelLoad(r)
    PROVE  /\ UNCHANGED stockJobVars
           /\ \A i \in Create : adding'[i] = "landed" <=> adding[i] = "landed"
           /\ \A c \in Cancel :
                 \/ pc'[c] = pc[c] /\ target'[c] = target[c]
                 \/ /\ pc[c] = "new" /\ pc'[c] \in {"save", "rejected"}
                    /\ target'[c] \in Create
  <1>1. ASSUME NEW r \in Create,
               Begin(r) \/ CheckStock(r) \/ LookUpUser(r) \/ Respond(r) \/ Commit(r) \/ AddLost(r)
        PROVE  /\ UNCHANGED <<stockJobVars, target>>
               /\ \A i \in Create : adding'[i] = "landed" <=> adding[i] = "landed"
               /\ \A c \in Cancel : pc'[c] = pc[c]
    <2>1. UNCHANGED <<stockJobVars, target>>
      BY <1>1 DEF Begin, CheckStock, LookUpUser, Respond, Commit, AddLost
    <2>2. pc' = pc \/ \E l : Goto(r, l)
      BY <1>1 DEF Begin, CheckStock, LookUpUser, Respond, Commit, AddLost
    <2>3. \A c \in Cancel : pc'[c] = pc[c]
      <3>1. \A c \in Cancel : c \in Request /\ c \notin Create
        BY Kinds
      <3>2. QED
        BY <2>2, <3>1 DEF Goto, TypeOK
    <2>4. \A i \in Create : adding'[i] = "landed" <=> adding[i] = "landed"
      <3>1. \/ adding' = adding
            \/ adding' = [adding EXCEPT ![r] = "pending"] /\ pc[r] = "lookup"
            \/ adding' = [adding EXCEPT ![r] = "lost"] /\ adding[r] = "pending"
        BY <1>1 DEF Begin, CheckStock, LookUpUser, Respond, Commit, AddLost
      <3>2. pc[r] = "lookup" => adding[r] = "not yet"
        BY DEF RequestInv
      <3>3. QED
        BY <3>1, <3>2 DEF TypeOK
    <2>5. QED
      BY <2>1, <2>3, <2>4
  <1>2. ASSUME NEW r \in Cancel, CancelLoad(r)
        PROVE  /\ UNCHANGED <<stockJobVars, adding>>
               /\ \A c \in Cancel :
                     \/ pc'[c] = pc[c] /\ target'[c] = target[c]
                     \/ /\ pc[c] = "new" /\ pc'[c] \in {"save", "rejected"}
                        /\ target'[c] \in Create
    <2>1. PICK i \in Create, access \in BOOLEAN :
              /\ target' = [target EXCEPT ![r] = i]
              /\ pc' = [pc EXCEPT ![r] = IF status[i] # "cancelled" /\ access
                                         THEN "save" ELSE "rejected"]
      BY <1>2 DEF CancelLoad, Goto
    <2>2. pc[r] = "new" /\ UNCHANGED <<stockJobVars, adding>>
      BY <1>2 DEF CancelLoad
    <2>3. pc'[r] \in {"save", "rejected"} /\ target'[r] = i
      BY <2>1, Kinds DEF TypeOK
    <2>4. \A c \in Cancel \ {r} : pc'[c] = pc[c] /\ target'[c] = target[c]
      BY <2>1, Kinds DEF TypeOK
    <2>5. QED
      BY <2>2, <2>3, <2>4
  <1>3. QED
    BY <1>1, <1>2

(* Where requests can be.                                                  *)
LEMMA RequestInvStep ==
    ASSUME TypeOK, RequestInv, [Next]_vars
    PROVE  RequestInv'
  <1> DEFINE C(r) == /\ pc[r] \notin Cancelling
                     /\ pc[r] \in {"new", "check", "lookup"} => adding[r] = "not yet"
                     /\ pc[r] \in {"new", "check"} => checked[r] < Len(Items(r))
             D(r) == /\ pc[r] \notin InTransaction
                     /\ pc[r] \in Cancelling \cup {"done", "failed"} => target[r] \in Create
  <1>1. (\A r \in Create : C(r)) /\ (\A r \in Cancel : D(r))
    BY DEF RequestInv
  <1>2. ASSUME \A r \in Create : C(r)', \A r \in Cancel : D(r)' PROVE RequestInv'
    BY <1>2 DEF RequestInv, Items
  <1>3. \A r \in Create : UNCHANGED <<pc[r], adding[r], checked[r]>> => C(r)'
    BY <1>1 DEF Items
  <1>4. \A r \in Cancel : UNCHANGED <<pc[r], target[r]>> => D(r)'
    BY <1>1
  <1>5. \A r \in Cancel : r \in Request /\ r \notin Create
    BY Kinds
  <1>a. \A r \in Create : r \in Request /\ r \notin Cancel
    BY Kinds
  <1>6. ASSUME NEW r \in Create,
               Begin(r) \/ CheckStock(r) \/ LookUpUser(r) \/ Respond(r) \/ Commit(r) \/ AddLost(r)
        PROVE  RequestInv'
    <2>1. UNCHANGED target /\ (pc' = pc \/ \E l : Goto(r, l))
          /\ (checked' = checked \/ checked' = [checked EXCEPT ![r] = @ + 1])
          /\ (adding' = adding \/ \E l : adding' = [adding EXCEPT ![r] = l])
      BY <1>6 DEF Begin, CheckStock, LookUpUser, Respond, Commit, AddLost
    <2>2. \A c \in Cancel : pc'[c] = pc[c]
      BY <1>5, <2>1 DEF Goto, TypeOK
    <2>3. \A q \in Create \ {r} : UNCHANGED <<pc[q], adding[q], checked[q]>>
      BY <1>a, <2>1 DEF Goto, TypeOK
    <2>4. C(r)'
      <3>1. checked[r] \in Nat /\ Len(Items(r)) \in Nat \ {0}
        BY ItemsTyped DEF TypeOK
      <3>2. CASE Begin(r)
        BY <1>1, <1>a, <3>2 DEF Begin, Goto, TypeOK, Items, Cancelling
      <3>3. CASE CheckStock(r)
        <4>1. pc[r] = "check" /\ adding' = adding
              /\ \/ /\ checked' = [checked EXCEPT ![r] = @ + 1]
                    /\ pc' = [pc EXCEPT ![r] = IF checked[r] + 1 = Len(Items(r))
                                               THEN "lookup" ELSE "check"]
                 \/ pc' = [pc EXCEPT ![r] = "rejected"]
          BY <3>3 DEF CheckStock, Goto
        <4>2. \/ /\ checked'[r] = checked[r] + 1
                 /\ pc'[r] = IF checked[r] + 1 = Len(Items(r)) THEN "lookup" ELSE "check"
              \/ pc'[r] = "rejected"
          BY <1>a, <4>1 DEF TypeOK
        <4>3. checked[r] < Len(Items(r)) /\ adding[r] = "not yet"
          BY <1>1, <4>1
        <4>4. CASE pc'[r] = "rejected"
          BY <4>4 DEF Cancelling
        <4>5. CASE pc'[r] # "rejected"
          <5>1. /\ checked'[r] = checked[r] + 1 /\ checked[r] + 1 <= Len(Items(r))
                /\ pc'[r] \in {"lookup", "check"}
                /\ pc'[r] = "check" => checked[r] + 1 # Len(Items(r))
            <6>1. checked[r] + 1 <= Len(Items(r))
              <7>1. \A m \in Nat, n \in Nat \ {0} : m < n => m + 1 <= n
                OBVIOUS
              <7>2. QED
                BY <3>1, <4>3, <7>1, Zenon
            <6>2. /\ checked'[r] = checked[r] + 1
                  /\ pc'[r] = IF checked[r] + 1 = Len(Items(r)) THEN "lookup" ELSE "check"
              BY <4>2, <4>5
            <6>3. QED
              BY <6>1, <6>2
          <5>2. pc'[r] \in {"new", "check"} => checked'[r] < Len(Items(r))
            BY <3>1, <5>1
          <5>3. adding'[r] = "not yet" /\ pc'[r] \notin Cancelling
            BY <4>1, <4>3, <5>1 DEF Cancelling
          <5>4. QED
            BY <5>2, <5>3 DEF Items
        <4>6. QED
          BY <4>4, <4>5
      <3>4. CASE LookUpUser(r) \/ Respond(r) \/ Commit(r)
        <4>1. pc'[r] \in {"respond", "commit", "done"}
          BY <1>a, <3>4 DEF LookUpUser, Respond, Commit, Goto, TypeOK
        <4>2. QED
          BY <4>1 DEF Cancelling
      <3>5. CASE AddLost(r)
        BY <1>1, <1>a, <3>5 DEF AddLost, TypeOK, Items
      <3>6. QED
        BY <1>6, <3>2, <3>3, <3>4, <3>5
    <2>5. QED
      BY <1>2, <1>3, <1>4, <2>1, <2>2, <2>3, <2>4
  <1>7. ASSUME NEW r \in Create, Added(r) PROVE RequestInv'
    <2>1. /\ adding' = [adding EXCEPT ![r] = "landed"] /\ adding[r] = "pending"
          /\ UNCHANGED <<pc, checked, target>>
      BY <1>7 DEF Added
    <2>2. \A q \in Create : C(q)'
      BY <1>1, <2>1 DEF TypeOK, Items
    <2>3. QED
      BY <1>2, <1>4, <2>1, <2>2
  <1>8. ASSUME NEW r \in Cancel, CancelLoad(r) PROVE RequestInv'
    <2>1. \A c \in Cancel :
              \/ pc'[c] = pc[c] /\ target'[c] = target[c]
              \/ pc'[c] \in {"save", "rejected"} /\ target'[c] \in Create
      BY <1>8, RequestSteps
    <2>2. \A c \in Cancel : D(c)'
      BY <1>1, <2>1 DEF InTransaction
    <2>3. UNCHANGED <<adding, checked>> /\ \E l : Goto(r, l)
      BY <1>8 DEF CancelLoad
    <2>4. \A q \in Create : pc'[q] = pc[q]
      BY <1>a, <2>3 DEF Goto, TypeOK
    <2>5. QED
      BY <1>2, <1>3, <2>2, <2>3, <2>4
  <1>9. ASSUME NEW r \in Cancel, CancelSave(r) \/ CancelAdd(r) PROVE RequestInv'
    <2>1. UNCHANGED <<adding, checked, target>> /\ (Goto(r, "restore") \/ Goto(r, "done"))
          /\ pc[r] \in Cancelling
      BY <1>9 DEF CancelSave, CancelAdd, Cancelling
    <2>2. \A q \in Create : pc'[q] = pc[q]
      BY <1>a, <2>1 DEF Goto, TypeOK
    <2>3. \A q \in Cancel \ {r} : pc'[q] = pc[q]
      BY <1>5, <2>1 DEF Goto, TypeOK
    <2>4. pc'[r] \in {"restore", "done"} /\ target[r] \in Create
      BY <1>1, <1>5, <2>1 DEF Goto, TypeOK
    <2>5. D(r)'
      BY <2>1, <2>4 DEF InTransaction
    <2>6. QED
      BY <1>2, <1>3, <1>4, <2>1, <2>2, <2>3, <2>5
  <1>10. ASSUME NEW r \in Request, Fail(r) PROVE RequestInv'
    <2>1. UNCHANGED <<adding, checked, target>> /\ pc' = [pc EXCEPT ![r] = "failed"]
          /\ pc[r] \in InTransaction \cup Cancelling
      BY <1>10 DEF Fail, Goto
    <2>2. pc'[r] = "failed" /\ \A q \in Request \ {r} : pc'[q] = pc[q]
      BY <2>1 DEF TypeOK
    <2>3. \A q \in Create : C(q)'
      <3>1. ASSUME NEW q \in Create PROVE C(q)'
        <4>1. CASE q = r
          BY <2>2, <4>1 DEF Cancelling
        <4>2. CASE q # r
          BY <1>3, <1>a, <2>1, <2>2, <4>2
        <4>3. QED
          BY <4>1, <4>2
      <3>2. QED
        BY <3>1
    <2>4. \A q \in Cancel : D(q)'
      <3>1. ASSUME NEW q \in Cancel PROVE D(q)'
        <4>1. CASE q = r
          BY <1>1, <2>1, <2>2, <4>1 DEF InTransaction
        <4>2. CASE q # r
          BY <1>4, <1>5, <2>1, <2>2, <4>2
        <4>3. QED
          BY <4>1, <4>2
      <3>2. QED
        BY <3>1
    <2>5. QED
      BY <1>2, <2>3, <2>4
  <1>11. ASSUME UNCHANGED invoiceVars PROVE RequestInv'
    BY <1>2, <1>3, <1>4, <1>11 DEF invoiceVars
  <1>12. QED
    BY <1>6, <1>7, <1>8, <1>9, <1>10, <1>11, Steps DEF vars

(* What is held are jobs.                                                  *)
LEMMA HeldAreJobs ==
    ASSUME StockJobsTypeOK
    PROVE  \A j \in Held(queue, active, None) :
               j \in Job /\ j.id \in Request /\ j.lines \in Seq(Line)
  <1>1. \A n \in DOMAIN queue : queue[n] \in Job
    BY LenProperties, ElementOfSeq DEF StockJobsTypeOK
  <1>2. \A w \in DOMAIN active : active[w] \in Job \cup {None}
    BY DEF StockJobsTypeOK
  <1>3. \A j \in Held(queue, active, None) : j \in Job
    BY <1>1, <1>2 DEF Held
  <1>4. QED
    BY <1>3 DEF Job

(* Jobs stay right when no job moves and none is added or lost.            *)
LEMMA JobsKept ==
    ASSUME JobsInv, StockJobsTypeOK, UNCHANGED <<queue, active, stalls>>,
           \A i \in Create : adding'[i] = "landed" <=> adding[i] = "landed",
           \A c \in Cancel : pc'[c] = "done" <=> pc[c] = "done",
           \A c \in Cancel : pc[c] = "done" => target'[c] = target[c]
    PROVE  JobsInv'
  <1>1. \A j \in Held(queue, active, None) : j \in Job /\ j.id \in Request
    BY HeldAreJobs
  <1>2. ASSUME NEW j \in Held(queue, active, None) PROVE RightJob(j)'
    <2>1. RightJob(j) /\ (j.id \in Create \/ j.id \in Cancel)
      BY <1>1, Kinds DEF JobsInv
    <2>2. QED
      BY <2>1, Kinds DEF RightJob, Sale, Return, Items
  <1>3. Held(queue', active', None) = Held(queue, active, None)
        /\ OnceEach(queue', active', None)
    BY DEF JobsInv
  <1>4. QED
    BY <1>2, <1>3 DEF JobsInv

(* There are no jobs to begin with.                                        *)
LEMMA JobsInvInit == Init => JobsInv
  <1> SUFFICES ASSUME Init PROVE JobsInv
    OBVIOUS
  <1>1. queue = <<>> /\ active = [w \in Worker |-> None] /\ stalls = [r \in Request |-> 0]
    BY DEF Init, StockJobsInit
  <1>2. DOMAIN queue = {}
    BY <1>1
  <1>3. Held(queue, active, None) = {}
    BY <1>1, <1>2 DEF Held
  <1>4. OnceEach(queue, active, None)
    BY <1>1, <1>2 DEF OnceEach
  <1>5. \A r \in Request : stalls[r] = 0
    BY <1>1
  <1>6. QED
    BY <1>3, <1>4, <1>5, Kinds DEF JobsInv

(* A job stays right while its request and its count of stalls do not change. *)
LEMMA JobStaysRight ==
    ASSUME NEW j, RightJob(j), stalls'[j.id] <= MaxStalled,
           \/ j.id \in Create /\ adding'[j.id] = adding[j.id]
           \/ j.id \notin Create /\ pc'[j.id] = pc[j.id] /\ target'[j.id] = target[j.id]
    PROVE  RightJob(j)'
  BY DEF RightJob, Sale, Return, Items

(* A request's job joins the queue.                                        *)
LEMMA JobJoins ==
    ASSUME StockJobsTypeOK, JobsInv, NEW j \in Job, queue' = Append(queue, j), active' = active,
           \A i \in Held(queue, active, None) : i.id # j.id /\ RightJob(i)', RightJob(j)',
           \A r \in Create : adding'[r] # "landed" => stalls'[r] = 0,
           \A r \in Cancel : pc'[r] # "done" => stalls'[r] = 0
    PROVE  JobsInv'
  <1>1. /\ OnceEach(Append(queue, j), active, None)
        /\ Held(Append(queue, j), active, None) \subseteq Held(queue, active, None) \cup {j}
    BY HeldWhenAdded DEF StockJobsTypeOK, JobsInv
  <1>2. OnceEach(queue', active', None) /\ Held(queue', active', None) \subseteq Held(queue, active, None) \cup {j}
    BY <1>1
  <1>3. \A i \in Held(queue', active', None) : RightJob(i)'
    BY <1>2
  <1>4. QED
    BY <1>2, <1>3 DEF JobsInv

(* Which jobs there are, and who has them.                                 *)
LEMMA JobsInvStep ==
    ASSUME TypeOK, RequestInv, JobsInv, TodoInv, [Next]_vars
    PROVE  JobsInv'
  <1>1. StockJobsTypeOK
    BY DEF TypeOK
  <1>2. \A c \in Cancel : c \in Request /\ c \notin Create
    BY Kinds
  <1>3. \A j \in Held(queue, active, None) :
            /\ j \in Job /\ j.id \in Request /\ j.lines \in Seq(Line) /\ RightJob(j)
            /\ j.id \in Create \/ (j.id \in Cancel /\ j.id \notin Create)
    BY <1>1, HeldAreJobs, Kinds DEF JobsInv
  <1>18. \A j \in Held(queue, active, None) : stalls[j.id] <= MaxStalled
    BY DEF JobsInv, RightJob
  <1>19. OnceEach(queue, active, None)
    BY DEF JobsInv
  <1>20. queue \in Seq(Job) /\ DOMAIN active = Worker /\ None \notin Job
    BY <1>1, Kinds DEF StockJobsTypeOK
  <1>4. ASSUME NEW r \in Create,
               Begin(r) \/ CheckStock(r) \/ LookUpUser(r) \/ Respond(r) \/ Commit(r) \/ AddLost(r)
        PROVE  JobsInv'
    <2>1. /\ UNCHANGED stockJobVars
          /\ \A i \in Create : adding'[i] = "landed" <=> adding[i] = "landed"
          /\ \A c \in Cancel :
                \/ pc'[c] = pc[c] /\ target'[c] = target[c]
                \/ pc[c] = "new" /\ pc'[c] \in {"save", "rejected"}
      BY <1>4, RequestSteps
    <2>2. QED
      BY <1>1, <2>1, JobsKept DEF stockJobVars
  <1>5. ASSUME NEW r \in Create, Added(r) PROVE JobsInv'
    <2> DEFINE j == [id |-> r, lines |-> Sale(r)]
    <2>1. /\ queue' = Append(queue, j) /\ adding[r] = "pending"
          /\ adding' = [adding EXCEPT ![r] = "landed"]
          /\ UNCHANGED <<active, stalls, pc, target>>
      BY <1>5 DEF Added, AddJob
    <2>2. j \in Job /\ j.id = r /\ j.lines = Sale(r)
      BY ItemsTyped, Kinds DEF Job
    <2>3. /\ adding'[r] = "landed" /\ stalls[r] = 0
          /\ \A i \in Create \ {r} : adding'[i] = adding[i]
      BY <2>1 DEF TypeOK, JobsInv
    <2> HIDE DEF j
    <2>4. RightJob(j)'
      <3>1. 0 <= MaxStalled
        BY StockJobsAssumption
      <3>2. QED
        BY <2>1, <2>2, <2>3, <3>1 DEF RightJob, Sale, Items
    <2>5. ASSUME NEW i \in Held(queue, active, None) PROVE i.id # j.id /\ RightJob(i)'
      <3>1. i.id # r
        BY <1>3, <2>1 DEF RightJob
      <3>2. QED
        BY <1>3, <1>18, <2>1, <2>2, <2>3, <3>1, JobStaysRight
    <2>6. /\ \A i \in Create : adding'[i] # "landed" => stalls'[i] = 0
          /\ \A i \in Cancel : pc'[i] # "done" => stalls'[i] = 0
      BY <2>1, <2>3 DEF JobsInv
    <2>7. QED
      BY <1>1, <2>1, <2>2, <2>4, <2>5, <2>6, JobJoins
  <1>6. ASSUME NEW r \in Cancel, CancelLoad(r) PROVE JobsInv'
    <2>1. /\ UNCHANGED stockJobVars
          /\ \A i \in Create : adding'[i] = "landed" <=> adding[i] = "landed"
          /\ \A c \in Cancel :
                \/ pc'[c] = pc[c] /\ target'[c] = target[c]
                \/ pc[c] = "new" /\ pc'[c] \in {"save", "rejected"}
      BY <1>6, RequestSteps
    <2>2. QED
      BY <1>1, <2>1, JobsKept DEF stockJobVars
  <1>7. ASSUME NEW r \in Cancel, CancelSave(r) PROVE JobsInv'
    <2>1. UNCHANGED <<queue, active, stalls, adding, target>> /\ pc[r] = "save"
          /\ pc' = [pc EXCEPT ![r] = "restore"]
      BY <1>7 DEF CancelSave, Goto
    <2>2. \A c \in Cancel : pc'[c] = "done" <=> pc[c] = "done"
      BY <1>2, <2>1 DEF TypeOK
    <2>3. QED
      BY <1>1, <2>1, <2>2, JobsKept
  <1>8. ASSUME NEW r \in Cancel, CancelAdd(r) PROVE JobsInv'
    <2>1. /\ pc[r] = "restore" /\ pc' = [pc EXCEPT ![r] = "done"]
          /\ queue' = Append(queue, [id |-> r, lines |-> Return(target[r])])
          /\ UNCHANGED <<active, stalls, adding, target>>
      BY <1>8 DEF CancelAdd, AddJob, Goto
    <2>2. target[r] \in Create
      BY <2>1 DEF RequestInv, Cancelling
    <2>9. [id |-> r, lines |-> Return(target[r])] \in Job
      BY <2>2, ItemsTyped, Kinds DEF Job
    <2>3. PICK j \in Job : /\ j = [id |-> r, lines |-> Return(target[r])]
                           /\ j.id = r /\ j.lines = Return(target[r])
      BY <2>9
    <2>4. /\ pc'[r] = "done" /\ stalls[r] = 0
          /\ \A i \in Cancel \ {r} : pc'[i] = pc[i]
      BY <1>2, <2>1 DEF TypeOK, JobsInv
    <2>5. RightJob(j)'
      <3>1. 0 <= MaxStalled
        BY StockJobsAssumption
      <3>2. QED
        <4>1. Return(target[r])' = Return(target[r]) /\ r \notin Create
          BY <1>2, <2>1 DEF Return, Items
        <4>2. stalls'[j.id] <= MaxStalled /\ pc'[j.id] = "done"
              /\ j.lines = Return(target[r])' /\ j.id = r
          BY <2>1, <2>3, <2>4, <3>1, <4>1
        <4>3. QED
          BY <4>1, <4>2 DEF RightJob
    <2>6. ASSUME NEW i \in Held(queue, active, None) PROVE i.id # j.id /\ RightJob(i)'
      <3>1. i.id # r
        BY <1>2, <1>3, <2>1 DEF RightJob
      <3>2. QED
        BY <1>3, <1>18, <2>1, <2>3, <2>4, <3>1, JobStaysRight
    <2>7. /\ \A i \in Create : adding'[i] # "landed" => stalls'[i] = 0
          /\ \A i \in Cancel : pc'[i] # "done" => stalls'[i] = 0
      BY <2>1, <2>4 DEF JobsInv
    <2>8. QED
      BY <1>1, <2>1, <2>3, <2>5, <2>6, <2>7, JobJoins
  <1>9. ASSUME NEW r \in Request, Fail(r) PROVE JobsInv'
    <2>1. UNCHANGED <<queue, active, stalls, adding, target>>
          /\ pc[r] \in InTransaction \cup Cancelling /\ pc' = [pc EXCEPT ![r] = "failed"]
      BY <1>9 DEF Fail, Goto
    <2>2. \A c \in Cancel : pc'[c] = "done" <=> pc[c] = "done"
      BY <1>2, <2>1 DEF TypeOK, InTransaction, Cancelling
    <2>3. QED
      BY <1>1, <2>1, <2>2, JobsKept
  <1>10. ASSUME NEW a \in Agent, AdjustLoad(a) \/ AdjustSave(a), UNCHANGED invoiceVars
         PROVE  JobsInv'
    BY <1>1, <1>10, JobsKept DEF AdjustLoad, AdjustSave, invoiceVars
  <1>11. ASSUME NEW w \in Worker, UNCHANGED invoiceVars, Take(w) PROVE JobsInv'
    <2>1. queue # <<>> /\ active[w] = None /\ active' = [active EXCEPT ![w] = Head(queue)]
          /\ queue' = Tail(queue) /\ stalls' = stalls
      BY <1>11 DEF Take
    <2>2. /\ OnceEach(Tail(queue), [active EXCEPT ![w] = Head(queue)], None)
          /\ Held(Tail(queue), [active EXCEPT ![w] = Head(queue)], None)
               \subseteq Held(queue, active, None)
      BY <1>19, <1>20, <2>1, HeldWhenTaken
    <2>3. OnceEach(queue', active', None) /\ Held(queue', active', None) \subseteq Held(queue, active, None)
      BY <2>1, <2>2, Zenon
    <2>4. \A j \in Held(queue', active', None) : RightJob(j)'
      BY <1>3, <1>11, <1>18, <2>1, <2>3, JobStaysRight DEF invoiceVars
    <2>5. QED
      BY <1>11, <2>1, <2>3, <2>4 DEF JobsInv, invoiceVars
  <1>12. ASSUME NEW w \in Worker, UNCHANGED invoiceVars, SkipLine(w) PROVE JobsInv'
    BY <1>1, <1>12, JobsKept DEF SkipLine, invoiceVars
  <1>13. ASSUME NEW w \in Worker, active[w] # None
         PROVE  LET a == [active EXCEPT ![w] = None]
                IN  /\ OnceEach(queue, a, None)
                    /\ Held(queue, a, None) \subseteq Held(queue, active, None)
                    /\ \A j \in Held(queue, a, None) : j.id # active[w].id
    BY <1>13, <1>19, <1>20, HeldWhenDropped
  <1>14. ASSUME NEW w \in Worker, UNCHANGED invoiceVars, Finish(w) PROVE JobsInv'
    <2> DEFINE a == [active EXCEPT ![w] = None]
    <2>1. active[w] # None /\ active' = a /\ queue' = queue /\ stalls' = stalls
      BY <1>14 DEF Finish
    <2>2. OnceEach(queue, a, None) /\ Held(queue, a, None) \subseteq Held(queue, active, None)
      BY <1>13, <2>1
    <2> HIDE DEF a
    <2>3. OnceEach(queue', active', None) /\ Held(queue', active', None) \subseteq Held(queue, active, None)
      BY <2>1, <2>2, Zenon
    <2>4. \A j \in Held(queue', active', None) : RightJob(j)'
      BY <1>3, <1>14, <1>18, <2>1, <2>3, JobStaysRight DEF invoiceVars
    <2>5. QED
      BY <1>14, <2>1, <2>3, <2>4 DEF JobsInv, invoiceVars
  <1>15. ASSUME NEW w \in Worker, UNCHANGED invoiceVars, Stalled(w) PROVE JobsInv'
    <2> DEFINE a == [active EXCEPT ![w] = None]
    <2>11. active[w] # None
      BY <1>15 DEF Stalled
    <2>3. active[w] \in Held(queue, active, None)
      BY <1>20, <2>11 DEF Held
    <2>12. PICK job \in Job : job = active[w]
      BY <1>3, <2>3
    <2>1. /\ job # None /\ active' = a
          /\ queue' = IF stalls[job.id] < MaxStalled THEN <<job>> \o queue ELSE queue
          /\ stalls' = [stalls EXCEPT ![job.id] = @ + 1]
          /\ UNCHANGED <<status, pc, checked, adding, target>>
      BY <1>15, <2>12 DEF Stalled, invoiceVars
    <2>2. /\ OnceEach(queue, a, None) /\ Held(queue, a, None) \subseteq Held(queue, active, None)
          /\ \A j \in Held(queue, a, None) : j.id # job.id
      BY <1>13, <2>11, <2>12
    <2>4. job \in Job /\ job.id \in Request /\ RightJob(job)
      BY <1>3, <2>3, <2>12
    <2> HIDE DEF a
    <2>5. /\ stalls'[job.id] = stalls[job.id] + 1
          /\ \A r \in Request \ {job.id} : stalls'[r] = stalls[r]
      BY <1>1, <2>1, <2>4 DEF StockJobsTypeOK
    <2>6. \A i \in Held(queue, a, None) : RightJob(i)'
      BY <1>3, <1>18, <2>1, <2>2, <2>5, JobStaysRight
    <2>7. /\ \A r \in Create : adding'[r] # "landed" => stalls'[r] = 0
          /\ \A r \in Cancel : pc'[r] # "done" => stalls'[r] = 0
      <3>1. job.id \in Create => adding[job.id] = "landed"
        BY <2>4 DEF RightJob
      <3>2. job.id \in Cancel => pc[job.id] = "done"
        BY <1>2, <2>4 DEF RightJob
      <3>3. QED
        BY <2>1, <2>5, <3>1, <3>2, Kinds DEF JobsInv
    <2>8. CASE ~(stalls[job.id] < MaxStalled)
      <3>1. queue' = queue
        BY <2>1, <2>8
      <3>2. OnceEach(queue', active', None) /\ Held(queue', active', None) = Held(queue, a, None)
        BY <2>1, <2>2, <3>1, Zenon
      <3>3. QED
        BY <2>6, <2>7, <3>2 DEF JobsInv
    <2>9. CASE stalls[job.id] < MaxStalled
      <3>1. /\ OnceEach(<<job>> \o queue, a, None)
            /\ Held(<<job>> \o queue, a, None) \subseteq Held(queue, a, None) \cup {job}
        BY <1>1, <2>2, <2>4, HeldWhenAdded DEF StockJobsTypeOK
      <3>2. queue' = <<job>> \o queue
        BY <2>1, <2>9
      <3>3. OnceEach(queue', active', None) /\ Held(queue', active', None) \subseteq Held(queue, a, None) \cup {job}
        BY <2>1, <3>1, <3>2, Zenon
      <3>4. stalls'[job.id] <= MaxStalled
        BY <1>1, <2>4, <2>5, <2>9, StockJobsAssumption DEF StockJobsTypeOK
      <3>5. RightJob(job)'
        BY <2>1, <2>4, <3>4, JobStaysRight
      <3>6. \A i \in Held(queue', active', None) : RightJob(i)'
        BY <2>6, <3>3, <3>5
      <3>7. QED
        BY <2>7, <3>3, <3>6 DEF JobsInv
    <2>10. QED
      BY <2>8, <2>9
  <1>16. ASSUME UNCHANGED vars PROVE JobsInv'
    BY <1>1, <1>16, JobsKept DEF vars, stockJobVars, invoiceVars
  <1>17. QED
    BY <1>4, <1>5, <1>6, <1>7, <1>8, <1>9, <1>10, <1>11, <1>12, <1>14, <1>15, <1>16, Steps, Kinds

(* What an agent still has to process, when nobody gets new lines.         *)
LEMMA TodoShrinks ==
    ASSUME TypeOK, TodoInv,
           \A a \in Agent : todo'[a] = <<>> \/ VariantsOf(todo'[a]) \subseteq VariantsOf(todo[a]),
           \A a \in Agent : todo[a] = <<>> => todo'[a] = <<>>,
           \A w \in Worker : active'[w] = None \/ active'[w] = active[w],
           \A r \in Cancel : \/ todo'[r] = <<>>
                             \/ pc'[r] = pc[r] /\ target'[r] = target[r]
    PROVE  TodoInv'
  <1>1. VariantsOf(<<>>) = {}
    BY DEF VariantsOf
  <1>2. ASSUME NEW w \in Worker, active'[w] # None
        PROVE  VariantsOf(todo'[w]) \subseteq VariantsOf(active'[w].lines)
    BY <1>1, <1>2, Kinds DEF TodoInv
  <1>3. \A r \in Create : todo'[r] = <<>>
    BY Kinds DEF TodoInv
  <1>4. ASSUME NEW r \in Cancel
        PROVE  /\ pc'[r] # "restore" => todo'[r] = <<>>
               /\ pc'[r] = "restore" => VariantsOf(todo'[r]) \subseteq VariantsOf(Return(target'[r]))
    <2>1. CASE todo'[r] = <<>>
      BY <1>1, <2>1
    <2>2. CASE todo'[r] # <<>> /\ pc'[r] = pc[r] /\ target'[r] = target[r]
      BY <2>2, Kinds DEF TodoInv
    <2>3. QED
      BY <2>1, <2>2
  <1>5. QED
    BY <1>2, <1>3, <1>4 DEF TodoInv, Return, Items, VariantsOf

(* Lines are those of the job or of the sale to be returned.               *)
LEMMA TodoInvStep ==
    ASSUME TypeOK, RequestInv, JobsInv, TodoInv, [Next]_vars
    PROVE  TodoInv'
  <1>1. StockJobsTypeOK /\ todo \in [Agent -> Seq(Line)]
    BY DEF TypeOK, StockJobsTypeOK
  <1>2. /\ \A c \in Cancel : c \in Request /\ c \notin Create /\ c \in Agent /\ c \notin Worker
        /\ \A w \in Worker : w \in Agent
    BY Kinds
  <1>3. ASSUME todo' = todo, active' = active,
               \A r \in Cancel : todo[r] = <<>> \/ (pc'[r] = pc[r] /\ target'[r] = target[r])
        PROVE  TodoInv'
    BY <1>3, TodoShrinks
  <1>4. ASSUME \/ \E r \in Create : \/ Begin(r) \/ CheckStock(r) \/ LookUpUser(r)
                                    \/ Respond(r) \/ Commit(r) \/ AddLost(r)
               \/ \E r \in Cancel : CancelLoad(r)
        PROVE  TodoInv'
    <2>1. /\ UNCHANGED stockJobVars
          /\ \A c \in Cancel : (pc'[c] = pc[c] /\ target'[c] = target[c]) \/ pc[c] = "new"
      BY <1>4, RequestSteps
    <2>2. \A c \in Cancel : pc[c] = "new" => todo[c] = <<>>
      BY DEF TodoInv
    <2>3. QED
      BY <1>3, <2>1, <2>2 DEF stockJobVars
  <1>5. ASSUME NEW r \in Create, Added(r) PROVE TodoInv'
    BY <1>3, <1>5 DEF Added
  <1>6. ASSUME NEW r \in Cancel, CancelSave(r) PROVE TodoInv'
    <2>1. /\ todo' = [todo EXCEPT ![r] = Return(target[r])]
          /\ pc' = [pc EXCEPT ![r] = "restore"] /\ pc[r] = "save"
          /\ UNCHANGED <<active, target>>
      BY <1>6 DEF CancelSave, Goto
    <2>2. todo'[r] = Return(target[r]) /\ \A a \in Agent \ {r} : todo'[a] = todo[a]
      BY <1>1, <1>2, <2>1
    <2>3. pc'[r] = "restore" /\ \A q \in Cancel \ {r} : pc'[q] = pc[q]
      BY <1>2, <2>1 DEF TypeOK
    <2>4. \A w \in Worker : active'[w] # None => VariantsOf(todo'[w]) \subseteq VariantsOf(active'[w].lines)
      BY <1>2, <2>1, <2>2 DEF TodoInv
    <2>5. \A q \in Create : todo'[q] = <<>>
      BY <1>2, <2>2, Kinds DEF TodoInv
    <2>6. \A q \in Cancel :
              /\ pc'[q] # "restore" => todo'[q] = <<>>
              /\ pc'[q] = "restore" => VariantsOf(todo'[q]) \subseteq VariantsOf(Return(target'[q]))
      BY <1>2, <2>1, <2>2, <2>3 DEF TodoInv
    <2>7. QED
      BY <2>4, <2>5, <2>6 DEF TodoInv, Return, Items, VariantsOf
  <1>7. ASSUME NEW r \in Cancel, CancelAdd(r) PROVE TodoInv'
    <2>1. /\ todo' = todo /\ active' = active /\ target' = target /\ todo[r] = <<>>
          /\ \A q \in Cancel \ {r} : pc'[q] = pc[q]
      BY <1>2, <1>7 DEF CancelAdd, Goto, TypeOK
    <2>2. QED
      BY <1>3, <2>1
  <1>8. ASSUME NEW r \in Request, Fail(r) PROVE TodoInv'
    <2>1. /\ todo' = [todo EXCEPT ![r] = <<>>] /\ active' = active /\ target' = target
          /\ pc' = [pc EXCEPT ![r] = "failed"]
      BY <1>8 DEF Fail, Abandon, Goto
    <2>2. todo'[r] = <<>> /\ \A a \in Agent \ {r} : todo'[a] = todo[a]
      BY <1>1, <2>1, Kinds
    <2>3. \A q \in Cancel \ {r} : pc'[q] = pc[q]
      BY <1>2, <2>1 DEF TypeOK
    <2>4. QED
      BY <1>2, <2>1, <2>2, <2>3, TodoShrinks
  <1>9. ASSUME NEW a \in Agent, todo[a] # <<>>, todo' = [todo EXCEPT ![a] = Tail(@)],
               active' = active, UNCHANGED invoiceVars
        PROVE  TodoInv'
    <2>1. VariantsOf(Tail(todo[a])) \subseteq VariantsOf(todo[a])
      BY <1>1, <1>9, LinesTyped
    <2>2. todo'[a] = Tail(todo[a]) /\ \A b \in Agent \ {a} : todo'[b] = todo[b]
      BY <1>1, <1>9
    <2>3. QED
      BY <1>9, <2>1, <2>2, TodoShrinks DEF invoiceVars
  <1>10. ASSUME NEW a \in Agent, AdjustLoad(a) \/ AdjustSave(a), UNCHANGED invoiceVars
         PROVE  TodoInv'
    <2>1. CASE AdjustLoad(a)
      BY <1>3, <1>10, <2>1 DEF AdjustLoad, invoiceVars
    <2>2. CASE AdjustSave(a)
      BY <1>1, <1>9, <1>10, <2>2 DEF AdjustSave, StockJobsTypeOK
    <2>3. QED
      BY <1>10, <2>1, <2>2
  <1>11. ASSUME NEW w \in Worker, Take(w), UNCHANGED invoiceVars PROVE TodoInv'
    <2>1. /\ todo' = [todo EXCEPT ![w] = Head(queue).lines]
          /\ active' = [active EXCEPT ![w] = Head(queue)]
      BY <1>11 DEF Take
    <2>2. todo'[w] = Head(queue).lines /\ \A a \in Agent \ {w} : todo'[a] = todo[a]
      BY <1>1, <1>2, <2>1
    <2>3. active'[w] = Head(queue) /\ \A x \in Worker \ {w} : active'[x] = active[x]
      BY <1>1, <2>1 DEF StockJobsTypeOK
    <2>4. \A x \in Worker : active'[x] # None => VariantsOf(todo'[x]) \subseteq VariantsOf(active'[x].lines)
      BY <1>2, <2>2, <2>3 DEF TodoInv
    <2>5. \A q \in Request : todo'[q] = todo[q] /\ pc'[q] = pc[q] /\ target' = target
      BY <1>11, <2>2, Kinds DEF invoiceVars
    <2>6. \A q \in Create : todo'[q] = <<>>
      BY <2>5, Kinds DEF TodoInv
    <2>7. \A q \in Cancel :
              /\ pc'[q] # "restore" => todo'[q] = <<>>
              /\ pc'[q] = "restore" => VariantsOf(todo'[q]) \subseteq VariantsOf(Return(target'[q]))
      BY <1>2, <2>5 DEF TodoInv
    <2>8. QED
      BY <2>4, <2>6, <2>7 DEF TodoInv, Return, Items, VariantsOf
  <1>12. ASSUME NEW w \in Worker, SkipLine(w) \/ Finish(w) \/ Stalled(w), UNCHANGED invoiceVars
         PROVE  TodoInv'
    <2>1. CASE SkipLine(w)
      BY <1>2, <1>9, <1>12, <2>1 DEF SkipLine
    <2>2. CASE Finish(w) \/ Stalled(w)
      <3>1. /\ active' = [active EXCEPT ![w] = None]
            /\ todo' = todo \/ todo' = [todo EXCEPT ![w] = <<>>]
        BY <2>2 DEF Finish, Stalled, Abandon
      <3>2. \A x \in Worker : active'[x] = None \/ active'[x] = active[x]
        BY <1>1, <3>1 DEF StockJobsTypeOK
      <3>3. \A a \in Agent : todo'[a] = <<>> \/ todo'[a] = todo[a]
        BY <1>1, <3>1
      <3>4. QED
        BY <1>12, <3>2, <3>3, TodoShrinks DEF invoiceVars
    <2>3. QED
      BY <1>12, <2>1, <2>2
  <1>13. ASSUME UNCHANGED vars PROVE TodoInv'
    BY <1>3, <1>13 DEF vars, stockJobVars, invoiceVars
  <1>14. QED
    BY <1>4, <1>5, <1>6, <1>7, <1>8, <1>10, <1>11, <1>12, <1>13, Steps, Kinds
-----------------------------------------------------------------------------
(* Jobs, lines and requests stay where they can be.                        *)
LEMMA IInvHolds == Spec => []IInv
  <1>1. Init => IInv
    BY TypeOKInit, JobsInvInit DEF IInv
  <1>2. IInv /\ [Next]_vars => IInv'
    BY TypeOKStep, RequestInvStep, JobsInvStep, TodoInvStep DEF IInv
  <1>3. QED
    BY <1>1, <1>2, PTL DEF Spec

(***************************************************************************)
(* The tables of the API process, the workers and the database hold what   *)
(* they are declared to hold: in particular nobody is between the load and *)
(* the save of a line without a line, a create checks no more items than   *)
(* it has, and a job stalls at most once more than BullMQ hands it on.     *)
(***************************************************************************)
THEOREM TypeCorrect == Spec => []TypeOK
  <1>1. IInv => TypeOK
    BY DEF IInv
  <1>2. QED
    BY <1>1, IInvHolds, PTL
-----------------------------------------------------------------------------
(* 4. The accounts of a variant                                            *)

(* What the accounts hold.                                                 *)
AccountsOK ==
    \A v \in Variant :
        /\ QuantityOf(Stock0[v]) \in Nat
        /\ Sold(v) \in [Create -> Int] /\ SoldOnce(v) \in [Create -> Int]
        /\ Given(v) \in [Cancel -> Int] /\ GivenTwice(v) \in [Cancel -> Int]
        /\ SumFunction(Sold(v)) \in Int /\ SumFunction(SoldOnce(v)) \in Int
        /\ SumFunction(Given(v)) \in Int /\ SumFunction(GivenTwice(v)) \in Int
        /\ ToLose(v) \in Nat /\ ToGain(v) \in Nat
        /\ Low(v) \in Int /\ High(v) \in Int /\ Exact(v) \in Int

(* Lines that are worth a natural number.                                  *)
LEMMA OutstandingTyped ==
    ASSUME StockJobsTypeOK, NEW v \in Variant
    PROVE  ToLose(v) \in Nat /\ ToGain(v) \in Nat
  <1>1. /\ IsFiniteSet(Agent) /\ queue \in Seq(Job) /\ todo \in [Agent -> Seq(Line)]
        /\ \A j \in Job : j.lines \in Seq(Line)
    BY Kinds DEF StockJobsTypeOK, Job
  <1>2. Loss(v) \in [Line -> Nat] /\ Gain(v) \in [Line -> Nat]
    BY WeightsTyped
  <1>3. Outstanding(Loss(v), queue, todo) \in Nat
    BY <1>1, <1>2, OutstandingIsNatural
  <1>4. Outstanding(Gain(v), queue, todo) \in Nat
    BY <1>1, <1>2, OutstandingIsNatural
  <1>5. QED
    BY <1>3, <1>4 DEF ToLose, ToGain

(* A job is delivered once, and once more whenever it stalled.             *)
LEMMA DeliveriesTyped ==
    ASSUME StockJobsTypeOK, NEW r \in Request
    PROVE  /\ Deliveries(r) \in Nat
           /\ stalls[r] = 0 => Deliveries(r) = 1
  BY StockJobsAssumption DEF StockJobsTypeOK, Deliveries

\* The accounts are numbers in every reachable state.
LEMMA AccountsTyped == TypeOK /\ RequestInv => AccountsOK
  <1> SUFFICES ASSUME TypeOK, RequestInv, NEW v \in Variant
               PROVE  /\ QuantityOf(Stock0[v]) \in Nat
                      /\ Sold(v) \in [Create -> Int] /\ SoldOnce(v) \in [Create -> Int]
                      /\ Given(v) \in [Cancel -> Int] /\ GivenTwice(v) \in [Cancel -> Int]
                      /\ SumFunction(Sold(v)) \in Int /\ SumFunction(SoldOnce(v)) \in Int
                      /\ SumFunction(Given(v)) \in Int /\ SumFunction(GivenTwice(v)) \in Int
                      /\ ToLose(v) \in Nat /\ ToGain(v) \in Nat
                      /\ Low(v) \in Int /\ High(v) \in Int /\ Exact(v) \in Int
    BY DEF AccountsOK
  <1>1. QuantityOf(Stock0[v]) \in Nat
    BY StockJobsAssumption DEF QuantityOf
  <1>2. StockJobsTypeOK
    BY DEF TypeOK
  <1>3. \A r \in Request : Deliveries(r) \in Nat
    BY <1>2, DeliveriesTyped
  <1>4. \A r \in Create : QuantityIn(r, v) \in Nat
    BY WorthOfLines
  <1>5. \A r \in Saved : target[r] \in Create
    BY DEF Saved, RequestInv, Cancelling
  <1>6. \A m, n \in Nat : m * n \in Int /\ m * (1 + n) \in Int /\ m * 1 \in Int /\ 1 * m \in Int /\ 2 * m \in Int
    OBVIOUS
  <1>7. Sold(v) \in [Create -> Int] /\ SoldOnce(v) \in [Create -> Int]
    <2>1. \A r \in Create : QuantityIn(r, v) * Deliveries(r) \in Int /\ QuantityIn(r, v) \in Int
      BY <1>3, <1>4, <1>6, Kinds
    <2>2. QED
      BY <2>1 DEF Sold, SoldOnce
  <1>8. Given(v) \in [Cancel -> Int] /\ GivenTwice(v) \in [Cancel -> Int]
    <2>1. \A r \in Saved :
              /\ QuantityIn(target[r], v) * (1 + Deliveries(r)) \in Int
              /\ QuantityIn(target[r], v) * 1 \in Int
              /\ 1 * QuantityIn(target[r], v) \in Int /\ 2 * QuantityIn(target[r], v) \in Int
      <3>1. \A r \in Saved : Deliveries(r) \in Nat /\ QuantityIn(target[r], v) \in Nat
        BY <1>3, <1>4, <1>5, Kinds DEF Saved
      <3>2. QED
        BY <1>6, <3>1
    <2>2. \A r \in Cancel :
              /\ (IF r \in Saved
                  THEN QuantityIn(target[r], v) * (IF pc[r] = "done" THEN 1 + Deliveries(r) ELSE 1)
                  ELSE 0) \in Int
              /\ (IF r \in Saved
                  THEN (IF pc[r] = "restore" THEN 1 ELSE 2) * QuantityIn(target[r], v)
                  ELSE 0) \in Int
      BY <2>1
    <2>3. QED
      BY <2>2 DEF Given, GivenTwice
  <1>9. \A S, f : IsFiniteSet(S) /\ f \in [S -> Int] => SumFunction(f) \in Int
    BY SumIsInt DEF SumFunction
  <1>10. /\ SumFunction(Sold(v)) \in Int /\ SumFunction(SoldOnce(v)) \in Int
         /\ SumFunction(Given(v)) \in Int /\ SumFunction(GivenTwice(v)) \in Int
    BY <1>7, <1>8, <1>9, Kinds
  <1>11. ToLose(v) \in Nat /\ ToGain(v) \in Nat
    BY <1>2, OutstandingTyped
  <1>12. Low(v) \in Int /\ High(v) \in Int /\ Exact(v) \in Int
    BY <1>1, <1>10, <1>11 DEF Low, High, Exact
  <1>13. QED
    BY <1>1, <1>7, <1>8, <1>10, <1>11, <1>12

(* What a step does to the sums, when it changes the accounts of one       *)
(* request at most.                                                        *)
LEMMA SalesChange ==
    ASSUME AccountsOK, AccountsOK', NEW v \in Variant, NEW x \in Create,
           \A r \in Create \ {x} : /\ adding'[r] = "landed" <=> adding[r] = "landed"
                                   /\ stalls'[r] = stalls[r]
    PROVE  /\ SumFunction(Sold(v)') = SumFunction(Sold(v)) + (Sold(v)'[x] - Sold(v)[x])
           /\ SumFunction(SoldOnce(v)') = SumFunction(SoldOnce(v)) + (SoldOnce(v)'[x] - SoldOnce(v)[x])
  <1>1. /\ Sold(v) \in [Create -> Int] /\ SoldOnce(v) \in [Create -> Int]
        /\ Sold(v)' \in [Create -> Int] /\ SoldOnce(v)' \in [Create -> Int]
    BY DEF AccountsOK
  <1>2. \A r \in Create \ {x} : Sold(v)'[r] = Sold(v)[r] /\ SoldOnce(v)'[r] = SoldOnce(v)[r]
    BY DEF Sold, SoldOnce, Landed, QuantityIn, Deliveries, Return, Items, Change
  <1>3. SumFunction(Sold(v)') = SumFunction(Sold(v)) + (Sold(v)'[x] - Sold(v)[x])
    BY <1>1, <1>2, Kinds, SumFunctionChanges
  <1>4. SumFunction(SoldOnce(v)') = SumFunction(SoldOnce(v)) + (SoldOnce(v)'[x] - SoldOnce(v)[x])
    BY <1>1, <1>2, Kinds, SumFunctionChanges
  <1>5. QED
    BY <1>3, <1>4

\* Steps that add no sale's job and stall none leave the sales' side alone.
LEMMA SalesKept ==
    ASSUME NEW v \in Variant,
           \A r \in Create : /\ adding'[r] = "landed" <=> adding[r] = "landed"
                             /\ stalls'[r] = stalls[r]
    PROVE  Sold(v)' = Sold(v) /\ SoldOnce(v)' = SoldOnce(v)
  BY DEF Sold, SoldOnce, Landed, QuantityIn, Deliveries, Return, Items, Change

\* A step of one cancellation changes the other side by that cancellation's part.
LEMMA GiftsChange ==
    ASSUME AccountsOK, AccountsOK', NEW v \in Variant, NEW x \in Cancel,
           \A r \in Cancel \ {x} : UNCHANGED <<pc[r], target[r], stalls[r]>>
    PROVE  /\ SumFunction(Given(v)') = SumFunction(Given(v)) + (Given(v)'[x] - Given(v)[x])
           /\ SumFunction(GivenTwice(v)')
                = SumFunction(GivenTwice(v)) + (GivenTwice(v)'[x] - GivenTwice(v)[x])
  <1>1. /\ Given(v) \in [Cancel -> Int] /\ GivenTwice(v) \in [Cancel -> Int]
        /\ Given(v)' \in [Cancel -> Int] /\ GivenTwice(v)' \in [Cancel -> Int]
    BY DEF AccountsOK
  <1>2. \A r \in Cancel \ {x} : Given(v)'[r] = Given(v)[r] /\ GivenTwice(v)'[r] = GivenTwice(v)[r]
    <2> SUFFICES ASSUME NEW r \in Cancel \ {x}
                 PROVE  Given(v)'[r] = Given(v)[r] /\ GivenTwice(v)'[r] = GivenTwice(v)[r]
      OBVIOUS
    <2>1. UNCHANGED <<pc[r], target[r], stalls[r]>>
      OBVIOUS
    <2>2. r \in Saved' <=> r \in Saved
      BY <2>1 DEF Saved
    <2>3. /\ QuantityIn(target[r], v)' = QuantityIn(target[r], v)
          /\ Deliveries(r)' = Deliveries(r) /\ pc'[r] = pc[r]
      BY <2>1 DEF QuantityIn, Deliveries, Return, Items, Change
    <2>4. Given(v)'[r] = Given(v)[r]
      BY <2>2, <2>3 DEF Given
    <2>5. GivenTwice(v)'[r] = GivenTwice(v)[r]
      BY <2>2, <2>3 DEF GivenTwice
    <2>6. QED
      BY <2>4, <2>5
  <1>3. SumFunction(Given(v)') = SumFunction(Given(v)) + (Given(v)'[x] - Given(v)[x])
    BY <1>1, <1>2, Kinds, SumFunctionChanges
  <1>4. SumFunction(GivenTwice(v)') = SumFunction(GivenTwice(v)) + (GivenTwice(v)'[x] - GivenTwice(v)[x])
    BY <1>1, <1>2, Kinds, SumFunctionChanges
  <1>5. QED
    BY <1>3, <1>4

\* Steps that move no cancellation that has saved leave the other side alone.
LEMMA GiftsKept ==
    ASSUME NEW v \in Variant,
           \A r \in Cancel :
               \/ UNCHANGED <<pc[r], target[r], stalls[r]>>
               \/ r \notin Saved /\ r \notin Saved'
    PROVE  /\ Given(v)' = Given(v) /\ GivenTwice(v)' = GivenTwice(v)
           /\ HalfCancelled(v)' <=> HalfCancelled(v)
  <1>1. \A r \in Cancel : r \in Saved' <=> r \in Saved
    BY DEF Saved
  <1>2. \A r \in Saved : UNCHANGED <<pc[r], target[r], stalls[r]>>
    BY <1>1 DEF Saved
  <1>3. \A r \in Saved : /\ QuantityIn(target[r], v)' = QuantityIn(target[r], v)
                        /\ Deliveries(r)' = Deliveries(r) /\ pc'[r] = pc[r]
    BY <1>2 DEF QuantityIn, Deliveries, Return, Items, Change
  <1>4. Given(v)' = Given(v) /\ GivenTwice(v)' = GivenTwice(v)
    BY <1>1, <1>3 DEF Given, GivenTwice
  <1>5. Saved' = Saved
    BY <1>1 DEF Saved
  <1>6. HalfCancelled(v)' <=> HalfCancelled(v)
    BY <1>3, <1>5 DEF HalfCancelled
  <1>7. QED
    BY <1>4, <1>6

(* The accounts change by as much as their sums.                           *)
LEMMA AccountsAdd ==
    ASSUME AccountsOK, AccountsOK', NEW v \in Variant
    PROVE  /\ Low(v)' = Low(v) - (SumFunction(Sold(v)') - SumFunction(Sold(v)))
                          + (ToLose(v)' - ToLose(v))
           /\ High(v)' = High(v) + (SumFunction(Given(v)') - SumFunction(Given(v)))
                           - (ToGain(v)' - ToGain(v))
           /\ Exact(v)' = Exact(v) - (SumFunction(SoldOnce(v)') - SumFunction(SoldOnce(v)))
                            + (SumFunction(GivenTwice(v)') - SumFunction(GivenTwice(v)))
                            + (ToLose(v)' - ToLose(v)) - (ToGain(v)' - ToGain(v))
  <1>1. /\ QuantityOf(Stock0[v]) \in Int /\ QuantityOf(Stock0[v])' = QuantityOf(Stock0[v])
        /\ SumFunction(Sold(v)) \in Int /\ SumFunction(SoldOnce(v)) \in Int
        /\ SumFunction(Given(v)) \in Int /\ SumFunction(GivenTwice(v)) \in Int
        /\ ToLose(v) \in Int /\ ToGain(v) \in Int
        /\ SumFunction(Sold(v)') \in Int /\ SumFunction(SoldOnce(v)') \in Int
        /\ SumFunction(Given(v)') \in Int /\ SumFunction(GivenTwice(v)') \in Int
        /\ ToLose(v)' \in Int /\ ToGain(v)' \in Int
    BY DEF AccountsOK, QuantityOf
  <1>2. QED
    BY <1>1 DEF Low, High, Exact

(* The lines that are left, when jobs and lines move.                      *)
LEMMA OutstandingNext ==
    ASSUME NEW v \in Variant
    PROVE  /\ ToLose(v)' = Outstanding(Loss(v), queue', todo')
           /\ ToGain(v)' = Outstanding(Gain(v), queue', todo')
  <1>1. Loss(v)' = Loss(v) /\ Gain(v)' = Gain(v)
    BY DEF Loss, Gain, Line
  <1>2. QED
    BY <1>1 DEF ToLose, ToGain, Outstanding, Waiting, Running, Total

\* A job that joins the queue adds its lines to what is outstanding.
LEMMA JobMoves ==
    ASSUME StockJobsTypeOK, NEW v \in Variant, NEW j \in Job
    PROVE  /\ Total(Loss(v), j.lines) \in Int /\ Total(Gain(v), j.lines) \in Int
           /\ queue' = Append(queue, j) \/ queue' = <<j>> \o queue =>
                 /\ Outstanding(Loss(v), queue', todo) = ToLose(v) + Total(Loss(v), j.lines)
                 /\ Outstanding(Gain(v), queue', todo) = ToGain(v) + Total(Gain(v), j.lines)
  <1>1. /\ IsFiniteSet(Agent) /\ queue \in Seq(Job) /\ todo \in [Agent -> Seq(Line)]
        /\ \A i \in Job : i.lines \in Seq(Line)
    BY Kinds DEF StockJobsTypeOK, Job
  <1>l. Lines(Agent, Line, Job, queue, todo)
    BY <1>1 DEF Lines
  <1>2. ASSUME NEW val \in [Line -> Int], queue' = Append(queue, j) \/ queue' = <<j>> \o queue
        PROVE  Outstanding(val, queue', todo) = Outstanding(val, queue, todo) + Total(val, j.lines)
    BY <1>l, <1>2, OutstandingWhenAdded
  <1>3. Total(Loss(v), j.lines) \in Int /\ Total(Gain(v), j.lines) \in Int
    BY <1>1, WeightsTyped, TotalIsInt
  <1>4. QED
    BY <1>2, <1>3, WeightsTyped DEF ToLose, ToGain

\* An agent that gets other lines, or is done with one, changes it by these.
LEMMA LinesMove ==
    ASSUME StockJobsTypeOK, StockJobsTypeOK', NEW v \in Variant, NEW a \in Agent,
           queue' = queue, \A b \in Agent \ {a} : todo'[b] = todo[b]
    PROVE  /\ Total(Loss(v), todo[a]) \in Nat /\ Total(Gain(v), todo[a]) \in Nat
           /\ Total(Loss(v), todo'[a]) \in Nat /\ Total(Gain(v), todo'[a]) \in Nat
           /\ ToLose(v)' = ToLose(v) + (Total(Loss(v), todo'[a]) - Total(Loss(v), todo[a]))
           /\ ToGain(v)' = ToGain(v) + (Total(Gain(v), todo'[a]) - Total(Gain(v), todo[a]))
           /\ todo[a] # <<>> /\ todo'[a] = Tail(todo[a]) =>
                 /\ ToLose(v)' = ToLose(v) - Loss(v)[Head(todo[a])]
                 /\ ToGain(v)' = ToGain(v) - Gain(v)[Head(todo[a])]
  <1>1. /\ IsFiniteSet(Agent) /\ queue \in Seq(Job)
        /\ todo \in [Agent -> Seq(Line)] /\ todo' \in [Agent -> Seq(Line)]
        /\ \A i \in Job : i.lines \in Seq(Line)
    BY Kinds DEF StockJobsTypeOK, Job
  <1>l. Lines(Agent, Line, Job, queue, todo)
    BY <1>1 DEF Lines
  <1>7. OneMoves(Agent, Line, todo, a, todo')
    BY <1>1 DEF OneMoves
  <1>2. ASSUME NEW val \in [Line -> Int]
        PROVE  Outstanding(val, queue, todo')
                 = Outstanding(val, queue, todo) + (Total(val, todo'[a]) - Total(val, todo[a]))
    BY <1>l, <1>7, OutstandingWhenGiven
  <1>3. ASSUME NEW val \in [Line -> Int], todo[a] # <<>>, todo'[a] = Tail(todo[a])
        PROVE  Outstanding(val, queue, todo') = Outstanding(val, queue, todo) - val[Head(todo[a])]
    BY <1>l, <1>3, <1>7, OutstandingWhenDone
  <1>4. \A s \in Seq(Line) : Total(Loss(v), s) \in Nat /\ Total(Gain(v), s) \in Nat
    BY WeightsTyped, TotalIsNatural
  <1>5. todo[a] \in Seq(Line) /\ todo'[a] \in Seq(Line)
    BY <1>1
  <1>6. QED
    BY <1>2, <1>3, <1>4, <1>5, WeightsTyped, OutstandingNext DEF ToLose, ToGain

\* Taking a job moves its lines from the queue to the worker.
LEMMA JobTaken ==
    ASSUME StockJobsTypeOK, StockJobsTypeOK', NEW v \in Variant, NEW w \in Worker, Take(w)
    PROVE  ToLose(v)' = ToLose(v) /\ ToGain(v)' = ToGain(v)
  <1>1. /\ IsFiniteSet(Agent) /\ queue \in Seq(Job) /\ w \in Agent
        /\ todo \in [Agent -> Seq(Line)] /\ todo' \in [Agent -> Seq(Line)]
        /\ \A i \in Job : i.lines \in Seq(Line)
    BY Kinds DEF StockJobsTypeOK, Job
  <1>l. Lines(Agent, Line, Job, queue, todo)
    BY <1>1 DEF Lines
  <1>2. /\ queue # <<>> /\ todo[w] = <<>> /\ queue' = Tail(queue)
        /\ todo'[w] = Head(queue).lines /\ \A b \in Agent \ {w} : todo'[b] = todo[b]
    BY <1>1 DEF Take
  <1>5. OneMoves(Agent, Line, todo, w, todo')
    BY <1>1, <1>2 DEF OneMoves
  <1>3. ASSUME NEW val \in [Line -> Int]
        PROVE  Outstanding(val, Tail(queue), todo') = Outstanding(val, queue, todo)
    BY <1>l, <1>2, <1>5, OutstandingWhenTaken
  <1>4. QED
    BY <1>2, <1>3, WeightsTyped, OutstandingNext DEF ToLose, ToGain

(* The accounts of a variant do not narrow, and stay exact unless the step *)
(* says otherwise or leaves a cancellation half done.                      *)
AccountsStep(v) ==
    /\ Low(v)' <= Low(v) /\ High(v) <= High(v)'
    /\ v \notin inexact' =>
          HalfCancelled(v)' \/ (~HalfCancelled(v) /\ Exact(v)' = Exact(v))

(* Nothing changes that the accounts depend on.                            *)
LEMMA AccountsKept ==
    ASSUME AccountsOK, AccountsOK', NEW v \in Variant,
           ToLose(v)' = ToLose(v), ToGain(v)' = ToGain(v),
           \A r \in Create : /\ adding'[r] = "landed" <=> adding[r] = "landed"
                             /\ stalls'[r] = stalls[r],
           \A r \in Cancel :
               \/ UNCHANGED <<pc[r], target[r], stalls[r]>>
               \/ r \notin Saved /\ r \notin Saved'
    PROVE  AccountsStep(v)
  <1>1. Sold(v)' = Sold(v) /\ SoldOnce(v)' = SoldOnce(v)
    BY SalesKept
  <1>2. /\ Given(v)' = Given(v) /\ GivenTwice(v)' = GivenTwice(v)
        /\ HalfCancelled(v)' <=> HalfCancelled(v)
    BY GiftsKept
  <1>3. /\ SumFunction(Sold(v)) \in Int /\ SumFunction(SoldOnce(v)) \in Int
        /\ SumFunction(Given(v)) \in Int /\ SumFunction(GivenTwice(v)) \in Int
        /\ ToLose(v) \in Int /\ ToGain(v) \in Int
        /\ Low(v) \in Int /\ High(v) \in Int /\ Exact(v) \in Int
    BY DEF AccountsOK
  <1>4. QuantityOf(Stock0[v])' = QuantityOf(Stock0[v])
    BY DEF QuantityOf
  <1>5. Low(v)' = Low(v) /\ High(v)' = High(v) /\ Exact(v)' = Exact(v)
    BY <1>1, <1>2, <1>4 DEF Low, High, Exact
  <1>6. QED
    BY <1>2, <1>3, <1>5 DEF AccountsStep

(* A job reaches Redis: what it takes, it has still to take.               *)
LEMMA AddedAccounts ==
    ASSUME IInv, AccountsOK, AccountsOK', NEW r \in Create, Added(r), NEW v \in Variant
    PROVE  AccountsStep(v)
  <1> DEFINE Q == QuantityIn(r, v)
             j == [id |-> r, lines |-> Sale(r)]
  <1>1. /\ queue' = Append(queue, j) /\ adding[r] = "pending"
        /\ adding' = [adding EXCEPT ![r] = "landed"]
        /\ UNCHANGED <<active, stalls, pc, target, todo, inexact>>
    BY DEF Added, AddJob
  <1>2. j \in Job /\ j.lines = Sale(r)
    BY ItemsTyped, Kinds DEF Job
  <1>3. Q \in Nat /\ Total(Loss(v), j.lines) = Q /\ Total(Gain(v), j.lines) = 0
    BY <1>2, WorthOfLines
  <1>4. StockJobsTypeOK /\ stalls[r] = 0
    BY <1>1 DEF IInv, TypeOK, JobsInv
  <1> HIDE DEF j, Q
  <1>5. ToLose(v)' = ToLose(v) + Q /\ ToGain(v)' = ToGain(v) + 0
    <2>1. /\ Outstanding(Loss(v), queue', todo) = ToLose(v) + Q
          /\ Outstanding(Gain(v), queue', todo) = ToGain(v) + 0
      BY <1>1, <1>2, <1>3, <1>4, JobMoves
    <2>2. QED
      BY <1>1, <2>1, OutstandingNext
  <1>6. adding'[r] = "landed" /\ \A q \in Create \ {r} : adding'[q] = adding[q]
    BY <1>1 DEF IInv, TypeOK
  <1>7. Sold(v)[r] = 0 /\ SoldOnce(v)[r] = 0
    BY <1>1 DEF Sold, SoldOnce, Landed
  <1>8. Sold(v)'[r] = Q /\ SoldOnce(v)'[r] = Q
    <2>1. Deliveries(r)' = 1
      BY <1>1, <1>4, Kinds, StockJobsAssumption DEF Deliveries
    <2>2. r \in Landed' /\ QuantityIn(r, v)' = Q
      BY <1>6 DEF Landed, Q, QuantityIn, Return, Items, Change
    <2>3. Q * 1 = Q
      BY <1>3
    <2>4. QED
      BY <2>1, <2>2, <2>3 DEF Sold, SoldOnce
  <1>9. /\ SumFunction(Sold(v)') = SumFunction(Sold(v)) + (Sold(v)'[r] - Sold(v)[r])
        /\ SumFunction(SoldOnce(v)') = SumFunction(SoldOnce(v)) + (SoldOnce(v)'[r] - SoldOnce(v)[r])
    BY <1>1, <1>6, SalesChange
  <1>10. Q - 0 = Q
    BY <1>3
  <1>11. /\ SumFunction(Sold(v)') = SumFunction(Sold(v)) + Q
         /\ SumFunction(SoldOnce(v)') = SumFunction(SoldOnce(v)) + Q
    BY <1>7, <1>8, <1>9, <1>10, Zenon
  <1>12. /\ Given(v)' = Given(v) /\ GivenTwice(v)' = GivenTwice(v)
         /\ HalfCancelled(v)' <=> HalfCancelled(v)
    BY <1>1, GiftsKept
  <1>13. /\ SumFunction(Given(v)) \in Int /\ SumFunction(GivenTwice(v)) \in Int
         /\ SumFunction(Sold(v)) \in Int /\ SumFunction(SoldOnce(v)) \in Int
         /\ ToLose(v) \in Int /\ ToGain(v) \in Int
         /\ Low(v) \in Int /\ High(v) \in Int /\ Exact(v) \in Int
    BY DEF AccountsOK
  <1>14. Low(v)' = Low(v) /\ High(v)' = High(v) /\ Exact(v)' = Exact(v)
    BY <1>3, <1>5, <1>11, <1>12, <1>13, AccountsAdd
  <1>15. QED
    BY <1>12, <1>13, <1>14 DEF AccountsStep

(* A cancellation that failed half-way stays so.                           *)
LEMMA HalfCancelledStays ==
    ASSUME NEW v \in Variant, target' = target,
           \A q \in Cancel : pc[q] = "failed" => pc'[q] = "failed"
    PROVE  HalfCancelled(v) => HalfCancelled(v)'
  <1> SUFFICES ASSUME NEW q \in Saved, pc[q] = "failed", QuantityIn(target[q], v) > 0
               PROVE  HalfCancelled(v)'
    BY DEF HalfCancelled
  <1>1. q \in Saved' /\ pc'[q] = "failed"
    BY DEF Saved
  <1>2. QuantityIn(target[q], v)' = QuantityIn(target[q], v)
    BY DEF QuantityIn, Return, Items, Change
  <1>3. QED
    BY <1>1, <1>2 DEF HalfCancelled

(* A cancellation saves its invoice: what it gives, it has still to give.  *)
LEMMA CancelSaveAccounts ==
    ASSUME IInv, IInv', AccountsOK, AccountsOK', NEW r \in Cancel, CancelSave(r), NEW v \in Variant
    PROVE  AccountsStep(v)
  <1> DEFINE Q == QuantityIn(target[r], v)
  <1>1. /\ pc[r] = "save" /\ pc' = [pc EXCEPT ![r] = "restore"]
        /\ todo' = [todo EXCEPT ![r] = Return(target[r])]
        /\ UNCHANGED <<queue, stalls, inexact, adding, target>>
    BY DEF CancelSave, Goto
  <1>2. target[r] \in Create /\ todo[r] = <<>> /\ r \in Agent /\ r \in Request
    BY <1>1, Kinds DEF IInv, RequestInv, TodoInv, Cancelling
  <1>3. /\ Q \in Nat /\ Total(Loss(v), Return(target[r])) = 0
        /\ Total(Gain(v), Return(target[r])) = Q
    BY <1>2, WorthOfLines
  <1>4. Total(Loss(v), <<>>) = 0 /\ Total(Gain(v), <<>>) = 0
    BY TotalEmpty
  <1>5. StockJobsTypeOK /\ StockJobsTypeOK'
    BY DEF IInv, TypeOK
  <1>6. todo'[r] = Return(target[r]) /\ \A b \in Agent \ {r} : todo'[b] = todo[b]
    BY <1>1, <1>2, <1>5 DEF StockJobsTypeOK
  <1>7. pc'[r] = "restore" /\ \A q \in Cancel \ {r} : pc'[q] = pc[q]
    BY <1>1, <1>2, Kinds DEF IInv, TypeOK
  <1>8. QuantityIn(target[r], v)' = Q
    BY <1>1 DEF QuantityIn, Return, Items, Change
  <1> HIDE DEF Q
  <1>9. /\ ToLose(v)' = ToLose(v) + (0 - 0) /\ ToGain(v)' = ToGain(v) + (Q - 0)
    BY <1>1, <1>2, <1>3, <1>4, <1>5, <1>6, LinesMove
  <1>10. /\ Given(v)[r] = 0 /\ GivenTwice(v)[r] = 0
         /\ Given(v)'[r] = Q * 1 /\ GivenTwice(v)'[r] = 1 * Q
    BY <1>1, <1>7, <1>8 DEF Given, GivenTwice, Saved
  <1>11. /\ SumFunction(Given(v)') = SumFunction(Given(v)) + (Given(v)'[r] - Given(v)[r])
         /\ SumFunction(GivenTwice(v)')
              = SumFunction(GivenTwice(v)) + (GivenTwice(v)'[r] - GivenTwice(v)[r])
    BY <1>1, <1>7, GiftsChange
  <1>12. Q * 1 - 0 = Q /\ 1 * Q - 0 = Q /\ Q - 0 = Q /\ Q \in Int /\ 0 \in Int /\ 0 - 0 = 0
    BY <1>3
  <1>13. /\ SumFunction(Given(v)') = SumFunction(Given(v)) + Q
         /\ SumFunction(GivenTwice(v)') = SumFunction(GivenTwice(v)) + Q
         /\ ToLose(v)' = ToLose(v) + 0 /\ ToGain(v)' = ToGain(v) + Q
    BY <1>9, <1>10, <1>11, <1>12, Zenon
  <1>14. Sold(v)' = Sold(v) /\ SoldOnce(v)' = SoldOnce(v)
    BY <1>1, SalesKept
  <1>15. /\ SumFunction(Sold(v)) \in Int /\ SumFunction(SoldOnce(v)) \in Int
         /\ SumFunction(Given(v)) \in Int /\ SumFunction(GivenTwice(v)) \in Int
         /\ ToLose(v) \in Int /\ ToGain(v) \in Int
         /\ Low(v) \in Int /\ High(v) \in Int /\ Exact(v) \in Int
    BY DEF AccountsOK
  <1>16. Low(v)' = Low(v) /\ High(v)' = High(v) /\ Exact(v)' = Exact(v)
    BY <1>12, <1>13, <1>14, <1>15, AccountsAdd
  <1>17. HalfCancelled(v) => HalfCancelled(v)'
    BY <1>1, <1>7, HalfCancelledStays
  <1>18. QED
    BY <1>15, <1>16, <1>17 DEF AccountsStep

(* A cancellation adds a job that gives it all again.                      *)
LEMMA CancelAddAccounts ==
    ASSUME IInv, IInv', AccountsOK, AccountsOK', NEW r \in Cancel, CancelAdd(r), NEW v \in Variant
    PROVE  AccountsStep(v)
  <1> DEFINE Q == QuantityIn(target[r], v)
             j == [id |-> r, lines |-> Return(target[r])]
  <1>1. /\ pc[r] = "restore" /\ pc' = [pc EXCEPT ![r] = "done"]
        /\ queue' = Append(queue, j)
        /\ UNCHANGED <<todo, stalls, inexact, adding, target>>
    BY DEF CancelAdd, AddJob, Goto
  <1>2. target[r] \in Create /\ r \in Request /\ stalls[r] = 0
    BY <1>1, Kinds DEF IInv, RequestInv, JobsInv, Cancelling
  <1>3. j \in Job /\ j.lines = Return(target[r])
    BY <1>2, ItemsTyped DEF Job
  <1>4. Q \in Nat /\ Total(Loss(v), j.lines) = 0 /\ Total(Gain(v), j.lines) = Q
    BY <1>2, <1>3, WorthOfLines
  <1>5. StockJobsTypeOK
    BY DEF IInv, TypeOK
  <1>6. pc'[r] = "done" /\ \A q \in Cancel \ {r} : pc'[q] = pc[q]
    BY <1>1, <1>2, Kinds DEF IInv, TypeOK
  <1>7. QuantityIn(target[r], v)' = Q
    BY <1>1 DEF QuantityIn, Return, Items, Change
  <1>8. Deliveries(r)' = 1
    BY <1>1, <1>2, StockJobsAssumption DEF Deliveries
  <1> HIDE DEF Q, j
  <1>9. ToLose(v)' = ToLose(v) + 0 /\ ToGain(v)' = ToGain(v) + Q
    <2>1. /\ Outstanding(Loss(v), queue', todo) = ToLose(v) + 0
          /\ Outstanding(Gain(v), queue', todo) = ToGain(v) + Q
      BY <1>1, <1>3, <1>4, <1>5, JobMoves
    <2>2. QED
      BY <1>1, <2>1, OutstandingNext
  <1>10. /\ Given(v)[r] = Q * 1 /\ GivenTwice(v)[r] = 1 * Q
         /\ Given(v)'[r] = Q * (1 + 1) /\ GivenTwice(v)'[r] = 2 * Q
    BY <1>1, <1>6, <1>7, <1>8 DEF Given, GivenTwice, Saved, Q
  <1>11. /\ SumFunction(Given(v)') = SumFunction(Given(v)) + (Given(v)'[r] - Given(v)[r])
         /\ SumFunction(GivenTwice(v)')
              = SumFunction(GivenTwice(v)) + (GivenTwice(v)'[r] - GivenTwice(v)[r])
    BY <1>1, <1>6, GiftsChange
  <1>12. Q * (1 + 1) - Q * 1 = Q /\ 2 * Q - 1 * Q = Q /\ Q \in Int /\ 0 \in Int
    BY <1>4
  <1>13. /\ SumFunction(Given(v)') = SumFunction(Given(v)) + Q
         /\ SumFunction(GivenTwice(v)') = SumFunction(GivenTwice(v)) + Q
    BY <1>10, <1>11, <1>12, Zenon
  <1>14. Sold(v)' = Sold(v) /\ SoldOnce(v)' = SoldOnce(v)
    BY <1>1, SalesKept
  <1>15. /\ SumFunction(Sold(v)) \in Int /\ SumFunction(SoldOnce(v)) \in Int
         /\ SumFunction(Given(v)) \in Int /\ SumFunction(GivenTwice(v)) \in Int
         /\ ToLose(v) \in Int /\ ToGain(v) \in Int
         /\ Low(v) \in Int /\ High(v) \in Int /\ Exact(v) \in Int
    BY DEF AccountsOK
  <1>16. Low(v)' = Low(v) /\ High(v)' = High(v) /\ Exact(v)' = Exact(v)
    BY <1>9, <1>12, <1>13, <1>14, <1>15, AccountsAdd
  <1>17. HalfCancelled(v) => HalfCancelled(v)'
    BY <1>1, <1>6, HalfCancelledStays
  <1>18. QED
    BY <1>15, <1>16, <1>17 DEF AccountsStep

(* A request fails: a create takes nothing with it, a cancellation gives   *)
(* less than it should have.                                               *)
LEMMA FailAccounts ==
    ASSUME IInv, IInv', AccountsOK, AccountsOK', NEW r \in Request, Fail(r), NEW v \in Variant
    PROVE  AccountsStep(v)
  <1>1. /\ pc[r] \in InTransaction \cup Cancelling /\ pc' = [pc EXCEPT ![r] = "failed"]
        /\ todo' = [todo EXCEPT ![r] = <<>>]
        /\ UNCHANGED <<queue, stalls, inexact, adding, target>>
    BY DEF Fail, Abandon, Goto
  <1>2. StockJobsTypeOK /\ StockJobsTypeOK' /\ r \in Agent
    BY Kinds DEF IInv, TypeOK
  <1>3. todo'[r] = <<>> /\ \A b \in Agent \ {r} : todo'[b] = todo[b]
    BY <1>1, <1>2 DEF StockJobsTypeOK
  <1>4. pc'[r] = "failed" /\ \A q \in Request \ {r} : pc'[q] = pc[q]
    BY <1>1 DEF IInv, TypeOK
  <1>5. Total(Loss(v), <<>>) = 0 /\ Total(Gain(v), <<>>) = 0
    BY TotalEmpty
  <1> DEFINE tl == Total(Loss(v), todo[r])
             tg == Total(Gain(v), todo[r])
  <1> HIDE DEF tl, tg
  <1>6. /\ tl \in Nat /\ tg \in Nat
        /\ ToLose(v)' = ToLose(v) + (0 - tl) /\ ToGain(v)' = ToGain(v) + (0 - tg)
    BY <1>1, <1>2, <1>3, <1>5, LinesMove DEF tl, tg
  <1>7. /\ SumFunction(Sold(v)) \in Int /\ SumFunction(SoldOnce(v)) \in Int
        /\ SumFunction(Given(v)) \in Int /\ SumFunction(GivenTwice(v)) \in Int
        /\ ToLose(v) \in Int /\ ToGain(v) \in Int
        /\ Low(v) \in Int /\ High(v) \in Int /\ Exact(v) \in Int
    BY DEF AccountsOK
  <1>8. CASE r \in Create
    <2>1. todo[r] = <<>>
      BY <1>8 DEF IInv, TodoInv
    <2>2. tl = 0 /\ tg = 0
      BY <1>5, <2>1 DEF tl, tg
    <2>3. ToLose(v)' = ToLose(v) /\ ToGain(v)' = ToGain(v)
      BY <1>6, <1>7, <2>2
    <2>4. \A q \in Cancel : UNCHANGED <<pc[q], target[q], stalls[q]>>
      BY <1>1, <1>4, <1>8, Kinds
    <2>5. QED
      BY <1>1, <2>3, <2>4, AccountsKept
  <1>9. CASE r \in Cancel
    <2> DEFINE Q == QuantityIn(target[r], v)
               g == Given(v)'[r] - Given(v)[r]
               t == GivenTwice(v)'[r] - GivenTwice(v)[r]
    <2>1. pc[r] \in Cancelling /\ target[r] \in Create
      BY <1>1, <1>9 DEF IInv, RequestInv
    <2>2. Q \in Nat /\ (Q = 0 => v \notin VariantsOf(Return(target[r])))
      BY <2>1, WorthOfLines
    <2>3. QuantityIn(target[r], v)' = Q
      BY <1>1 DEF QuantityIn, Return, Items, Change
    <2>4. r \in Saved' /\ pc'[r] = "failed"
      BY <1>4, <1>9 DEF Saved
    <2> HIDE DEF Q
    <2>5. Given(v)'[r] = Q * 1 /\ GivenTwice(v)'[r] = 2 * Q
      BY <1>9, <2>3, <2>4 DEF Given, GivenTwice
    <2>6. \/ Given(v)[r] = 0 /\ GivenTwice(v)[r] = 0
          \/ Given(v)[r] = Q * 1 /\ GivenTwice(v)[r] = 1 * Q
      BY <1>9, <2>1 DEF Given, GivenTwice, Saved, Cancelling, Q
    <2>7. Q * 1 = Q /\ 1 * Q = Q /\ 2 * Q = Q + Q
      BY <2>2
    <2>8. g \in Nat /\ t \in Nat /\ (Q = 0 => t = 0)
      BY <2>2, <2>5, <2>6, <2>7
    <2>9. /\ SumFunction(Given(v)') = SumFunction(Given(v)) + g
          /\ SumFunction(GivenTwice(v)') = SumFunction(GivenTwice(v)) + t
      BY <1>1, <1>4, <1>9, Kinds, GiftsChange
    <2> HIDE DEF g, t
    <2>10. Sold(v)' = Sold(v) /\ SoldOnce(v)' = SoldOnce(v)
      BY <1>1, SalesKept
    <2>11. /\ Low(v)' = Low(v) - tl /\ High(v)' = High(v) + g + tg
           /\ Exact(v)' = Exact(v) + t - tl + tg
      BY <1>6, <1>7, <2>8, <2>9, <2>10, AccountsAdd
    <2>14. Low(v)' <= Low(v) /\ High(v) <= High(v)'
      BY <1>6, <1>7, <2>8, <2>11
    <2>15. CASE Q # 0
      <3>1. Q > 0
        BY <2>2, <2>15
      <3>2. HalfCancelled(v)'
        BY <2>3, <2>4, <3>1 DEF HalfCancelled
      <3>3. QED
        BY <2>14, <3>2 DEF AccountsStep
    <2>16. CASE Q = 0
      <3>1. v \notin VariantsOf(todo[r])
        <4>1. todo[r] = <<>> \/ VariantsOf(todo[r]) \subseteq VariantsOf(Return(target[r]))
          BY <1>9 DEF IInv, TodoInv
        <4>2. VariantsOf(<<>>) = {}
          BY DEF VariantsOf
        <4>3. QED
          BY <2>2, <2>16, <4>1, <4>2
      <3>2. tl = 0 /\ tg = 0
        BY <1>2, <3>1, WorthOfOthers DEF StockJobsTypeOK, tl, tg
      <3>3. Exact(v)' = Exact(v)
        BY <1>7, <2>8, <2>11, <2>16, <3>2
      <3>4. HalfCancelled(v) => HalfCancelled(v)'
        BY <1>1, <1>4, Kinds, HalfCancelledStays
      <3>5. QED
        BY <2>14, <3>3, <3>4 DEF AccountsStep
    <2>17. QED
      BY <2>15, <2>16
  <1>10. QED
    BY <1>8, <1>9, Kinds

(* An agent is done with a line, in one way or another.                    *)
LEMMA LineDoneAccounts ==
    ASSUME IInv, IInv', AccountsOK, AccountsOK', NEW a \in Agent, todo[a] # <<>>,
           todo' = [todo EXCEPT ![a] = Tail(@)],
           UNCHANGED <<queue, stalls, pc, adding, target>>, NEW v \in Variant
    PROVE  /\ Low(v)' = Low(v) - Loss(v)[Head(todo[a])]
           /\ High(v)' = High(v) + Gain(v)[Head(todo[a])]
           /\ Exact(v)' = Exact(v) - Loss(v)[Head(todo[a])] + Gain(v)[Head(todo[a])]
           /\ HalfCancelled(v)' <=> HalfCancelled(v)
  <1> DEFINE l == Head(todo[a])
  <1>1. StockJobsTypeOK /\ StockJobsTypeOK'
    BY DEF IInv, TypeOK
  <1>2. todo'[a] = Tail(todo[a]) /\ \A b \in Agent \ {a} : todo'[b] = todo[b]
    BY <1>1 DEF StockJobsTypeOK
  <1>3. l \in Line
    BY <1>1, LinesTyped
  <1> HIDE DEF l
  <1>4. ToLose(v)' = ToLose(v) - Loss(v)[l] /\ ToGain(v)' = ToGain(v) - Gain(v)[l]
    BY <1>1, <1>2, LinesMove DEF l
  <1>5. Loss(v)[l] \in Nat /\ Gain(v)[l] \in Nat
    BY <1>3, WeightsTyped
  <1>6. Sold(v)' = Sold(v) /\ SoldOnce(v)' = SoldOnce(v)
    BY SalesKept
  <1>7. /\ Given(v)' = Given(v) /\ GivenTwice(v)' = GivenTwice(v)
        /\ HalfCancelled(v)' <=> HalfCancelled(v)
    BY GiftsKept
  <1>8. /\ SumFunction(Sold(v)) \in Int /\ SumFunction(SoldOnce(v)) \in Int
        /\ SumFunction(Given(v)) \in Int /\ SumFunction(GivenTwice(v)) \in Int
        /\ ToLose(v) \in Int /\ ToGain(v) \in Int
        /\ Low(v) \in Int /\ High(v) \in Int /\ Exact(v) \in Int
    BY DEF AccountsOK
  <1> DEFINE d == Loss(v)[l]
             e == Gain(v)[l]
  <1>9. d \in Int /\ e \in Int /\ ToLose(v)' = ToLose(v) - d /\ ToGain(v)' = ToGain(v) - e
    BY <1>4, <1>5
  <1> HIDE DEF d, e
  <1>11. Low(v)' = Low(v) - d
    BY <1>6, <1>8, <1>9, AccountsAdd
  <1>12. High(v)' = High(v) + e
    BY <1>7, <1>8, <1>9, AccountsAdd
  <1>13. Exact(v)' = Exact(v) - d + e
    <2>1. Exact(v)' = Exact(v) - (SumFunction(SoldOnce(v)') - SumFunction(SoldOnce(v)))
                        + (SumFunction(GivenTwice(v)') - SumFunction(GivenTwice(v)))
                        + (ToLose(v)' - ToLose(v)) - (ToGain(v)' - ToGain(v))
      BY AccountsAdd
    <2>2. SumFunction(SoldOnce(v)') = SumFunction(SoldOnce(v))
          /\ SumFunction(GivenTwice(v)') = SumFunction(GivenTwice(v))
      BY <1>6, <1>7
    <2>3. QED
      BY <1>8, <1>9, <2>1, <2>2
  <1>10. QED
    BY <1>7, <1>11, <1>12, <1>13 DEF l, d, e

(* A worker skips a line that it cannot process.                           *)
LEMMA SkipLineAccounts ==
    ASSUME IInv, IInv', AccountsOK, AccountsOK', NEW w \in Worker, SkipLine(w),
           UNCHANGED invoiceVars, NEW v \in Variant
    PROVE  AccountsStep(v)
  <1> DEFINE l == Head(todo[w])
  <1>1. /\ todo[w] # <<>> /\ todo' = [todo EXCEPT ![w] = Tail(@)]
        /\ UNCHANGED <<queue, stalls, pc, adding, target>>
        /\ l.variant \in inexact'
    BY DEF SkipLine, invoiceVars
  <1>2. w \in Agent /\ l \in Line
    BY <1>1, Kinds, LinesTyped DEF IInv, TypeOK
  <1>3. /\ Low(v)' = Low(v) - Loss(v)[l] /\ High(v)' = High(v) + Gain(v)[l]
        /\ Exact(v)' = Exact(v) - Loss(v)[l] + Gain(v)[l]
        /\ HalfCancelled(v)' <=> HalfCancelled(v)
    BY <1>1, <1>2, LineDoneAccounts
  <1> HIDE DEF l
  <1>4. /\ Loss(v)[l] \in Nat /\ Gain(v)[l] \in Nat
        /\ l.variant # v => Loss(v)[l] = 0 /\ Gain(v)[l] = 0
    BY <1>2, WeightsTyped
  <1>5. Low(v) \in Int /\ High(v) \in Int /\ Exact(v) \in Int
    BY DEF AccountsOK
  <1>6. Low(v)' <= Low(v) /\ High(v) <= High(v)'
    BY <1>3, <1>4, <1>5
  <1>7. v \notin inexact' => Exact(v)' = Exact(v)
    BY <1>1, <1>3, <1>4, <1>5
  <1>8. QED
    BY <1>3, <1>6, <1>7 DEF AccountsStep

(* A stalled job goes back to the queue or not; its loop goes on or not.   *)
LEMMA JobGoesBack ==
    ASSUME StockJobsTypeOK, StockJobsTypeOK', NEW v \in Variant, NEW a \in Agent, NEW j \in Job,
           NEW back \in BOOLEAN, queue' = IF back THEN <<j>> \o queue ELSE queue,
           todo'[a] \in {todo[a], <<>>}, \A b \in Agent \ {a} : todo'[b] = todo[b]
    PROVE  \E l, g \in Nat :
              /\ ToLose(v)' = ToLose(v) + (IF back THEN Total(Loss(v), j.lines) ELSE 0) - l
              /\ ToGain(v)' = ToGain(v) + (IF back THEN Total(Gain(v), j.lines) ELSE 0) - g
              /\ v \notin VariantsOf(todo[a]) => l = 0 /\ g = 0
  <1> DEFINE l == Total(Loss(v), todo[a]) - Total(Loss(v), todo'[a])
             g == Total(Gain(v), todo[a]) - Total(Gain(v), todo'[a])
  <1>1. /\ IsFiniteSet(Agent) /\ queue \in Seq(Job) /\ queue' \in Seq(Job)
        /\ todo \in [Agent -> Seq(Line)] /\ todo' \in [Agent -> Seq(Line)]
        /\ \A i \in Job : i.lines \in Seq(Line)
    BY Kinds DEF StockJobsTypeOK, Job
  <1>2. /\ Lines(Agent, Line, Job, queue, todo) /\ Lines(Agent, Line, Job, queue', todo')
        /\ OneMoves(Agent, Line, todo, a, todo')
    BY <1>1 DEF Lines, OneMoves
  <1>3. ASSUME NEW val \in [Line -> Int]
        PROVE  /\ Outstanding(val, queue, todo')
                    = Outstanding(val, queue, todo) + (Total(val, todo'[a]) - Total(val, todo[a]))
               /\ Total(val, todo'[a]) \in Int /\ Total(val, todo[a]) \in Int
    BY <1>2, OutstandingWhenGiven
  <1>4. ASSUME NEW val \in [Line -> Int]
        PROVE  /\ Outstanding(val, queue', todo') = Outstanding(val, queue', todo)
                    + (Outstanding(val, queue, todo') - Outstanding(val, queue, todo))
               /\ Outstanding(val, queue', todo) \in Int /\ Outstanding(val, queue, todo') \in Int
    BY <1>2, OutstandingAddsUp
  <1>5. /\ Total(Loss(v), j.lines) \in Int /\ Total(Gain(v), j.lines) \in Int
        /\ Outstanding(Loss(v), queue', todo)
             = ToLose(v) + (IF back THEN Total(Loss(v), j.lines) ELSE 0)
        /\ Outstanding(Gain(v), queue', todo)
             = ToGain(v) + (IF back THEN Total(Gain(v), j.lines) ELSE 0)
    <2>1. ToLose(v) \in Int /\ ToGain(v) \in Int
      BY OutstandingTyped
    <2>2. Total(Loss(v), j.lines) \in Int /\ Total(Gain(v), j.lines) \in Int
      BY JobMoves
    <2>3. CASE back
      BY <2>1, <2>2, <2>3, JobMoves
    <2>4. CASE ~back
      BY <2>1, <2>2, <2>4 DEF ToLose, ToGain
    <2>5. QED
      BY <2>2, <2>3, <2>4
  <1>6. l \in Nat /\ g \in Nat /\ (v \notin VariantsOf(todo[a]) => l = 0 /\ g = 0)
    <2>1. todo[a] \in Seq(Line) /\ todo'[a] \in Seq(Line)
      BY <1>1
    <2>2. Total(Loss(v), todo[a]) \in Nat /\ Total(Gain(v), todo[a]) \in Nat
      BY <2>1, WeightsTyped, TotalIsNatural
    <2>3. Total(Loss(v), <<>>) = 0 /\ Total(Gain(v), <<>>) = 0
      BY TotalEmpty
    <2>4. v \notin VariantsOf(todo[a]) => Total(Loss(v), todo[a]) = 0 /\ Total(Gain(v), todo[a]) = 0
      BY <2>1, WorthOfOthers
    <2>5. CASE todo'[a] = todo[a]
      BY <2>2, <2>5
    <2>6. CASE todo'[a] = <<>>
      BY <2>2, <2>3, <2>4, <2>6
    <2>7. QED
      BY <2>5, <2>6
  <1>7. /\ ToLose(v)' = ToLose(v) + (IF back THEN Total(Loss(v), j.lines) ELSE 0) - l
        /\ ToGain(v)' = ToGain(v) + (IF back THEN Total(Gain(v), j.lines) ELSE 0) - g
    <2>1. Loss(v) \in [Line -> Int] /\ Gain(v) \in [Line -> Int]
      BY WeightsTyped
    <2>2. ToLose(v) \in Int /\ ToGain(v) \in Int
      BY OutstandingTyped
    <2>3. ToLose(v)' = Outstanding(Loss(v), queue', todo)
              + (Outstanding(Loss(v), queue, todo') - ToLose(v))
      BY <1>4, <2>1, OutstandingNext DEF ToLose
    <2>4. ToGain(v)' = Outstanding(Gain(v), queue', todo)
              + (Outstanding(Gain(v), queue, todo') - ToGain(v))
      BY <1>4, <2>1, OutstandingNext DEF ToGain
    <2>5. /\ Outstanding(Loss(v), queue, todo')
               = ToLose(v) + (Total(Loss(v), todo'[a]) - Total(Loss(v), todo[a]))
          /\ Total(Loss(v), todo'[a]) \in Int /\ Total(Loss(v), todo[a]) \in Int
      BY <1>3, <2>1 DEF ToLose
    <2>6. /\ Outstanding(Gain(v), queue, todo')
               = ToGain(v) + (Total(Gain(v), todo'[a]) - Total(Gain(v), todo[a]))
          /\ Total(Gain(v), todo'[a]) \in Int /\ Total(Gain(v), todo[a]) \in Int
      BY <1>3, <2>1 DEF ToGain
    <2> DEFINE L == IF back THEN Total(Loss(v), j.lines) ELSE 0
               G == IF back THEN Total(Gain(v), j.lines) ELSE 0
    <2>7. /\ L \in Int /\ Outstanding(Loss(v), queue', todo) = ToLose(v) + L
          /\ G \in Int /\ Outstanding(Gain(v), queue', todo) = ToGain(v) + G
      BY <1>5
    <2> HIDE DEF L, G
    <2>8. ToLose(v)' = ToLose(v) + L - l
      BY <2>2, <2>3, <2>5, <2>7
    <2>9. ToGain(v)' = ToGain(v) + G - g
      BY <2>2, <2>4, <2>6, <2>7
    <2>10. QED
      BY <2>8, <2>9 DEF L, G
  <1> HIDE DEF l, g
  <1>8. QED
    BY <1>6, <1>7

\* A stalled job whose lines go back to the queue is paid for by a delivery.
LEMMA StalledAccounts ==
    ASSUME IInv, IInv', AccountsOK, AccountsOK', NEW w \in Worker, Stalled(w),
           UNCHANGED invoiceVars, NEW v \in Variant
    PROVE  AccountsStep(v)
  <1>1. StockJobsTypeOK /\ StockJobsTypeOK' /\ w \in Agent
    BY Kinds DEF IInv, TypeOK
  <1>2. active[w] # None
    BY DEF Stalled
  <1>3. active[w] \in Held(queue, active, None)
    BY <1>1, <1>2 DEF Held, StockJobsTypeOK
  <1>4. PICK job \in Job : job = active[w]
    BY <1>1, <1>3, HeldAreJobs
  <1>5. RightJob(job) /\ job.id \in Request /\ job.lines \in Seq(Line)
    BY <1>1, <1>3, <1>4, HeldAreJobs DEF IInv, JobsInv
  <1> DEFINE x == job.id
             back == stalls[x] < MaxStalled
  <1>6. /\ queue' = IF back THEN <<job>> \o queue ELSE queue
        /\ stalls' = [stalls EXCEPT ![x] = @ + 1]
        /\ inexact' = inexact \cup VariantsOf(job.lines)
        /\ todo' = todo \/ todo' = [todo EXCEPT ![w] = <<>>]
        /\ UNCHANGED <<pc, adding, target>>
    BY <1>4 DEF Stalled, Abandon, invoiceVars
  <1>7. todo'[w] \in {todo[w], <<>>} /\ \A b \in Agent \ {w} : todo'[b] = todo[b]
    BY <1>1, <1>6 DEF StockJobsTypeOK
  <1>8. back \in BOOLEAN
    BY <1>1, <1>5, StockJobsAssumption DEF StockJobsTypeOK
  <1>9. PICK l \in Nat, g \in Nat :
            /\ ToLose(v)' = ToLose(v) + (IF back THEN Total(Loss(v), job.lines) ELSE 0) - l
            /\ ToGain(v)' = ToGain(v) + (IF back THEN Total(Gain(v), job.lines) ELSE 0) - g
            /\ v \notin VariantsOf(todo[w]) => l = 0 /\ g = 0
    BY <1>1, <1>6, <1>7, <1>8, JobGoesBack
  <1>10. v \notin inexact' =>
             v \notin VariantsOf(job.lines) /\ v \notin VariantsOf(todo[w])
    BY <1>2, <1>4, <1>6 DEF IInv, TodoInv
  <1>11. v \notin VariantsOf(job.lines) =>
             Total(Loss(v), job.lines) = 0 /\ Total(Gain(v), job.lines) = 0
    BY <1>5, WorthOfOthers
  <1>12. /\ stalls'[x] = stalls[x] + 1 /\ stalls[x] \in Nat /\ stalls[x] <= MaxStalled
         /\ \A r \in Request \ {x} : stalls'[r] = stalls[r]
    BY <1>1, <1>5, <1>6, StockJobsAssumption DEF StockJobsTypeOK, RightJob
  <1>13. /\ Deliveries(x) \in Nat
         /\ Deliveries(x)' = IF back THEN Deliveries(x) + 1 ELSE Deliveries(x)
    BY <1>1, <1>5, <1>12, StockJobsAssumption, DeliveriesTyped DEF Deliveries
  <1>14. /\ SumFunction(Sold(v)) \in Int /\ SumFunction(SoldOnce(v)) \in Int
         /\ SumFunction(Given(v)) \in Int /\ SumFunction(GivenTwice(v)) \in Int
         /\ ToLose(v) \in Int /\ ToGain(v) \in Int
         /\ Low(v) \in Int /\ High(v) \in Int /\ Exact(v) \in Int
    BY DEF AccountsOK
  <1>15. /\ \A m, n \in Nat : m * (n + 1) - m * n = m /\ m * n - m * n = 0
         /\ \A m, n \in Nat : m * (1 + (n + 1)) - m * (1 + n) = m /\ m * (1 + n) - m * (1 + n) = 0
    OBVIOUS
  <1>16. HalfCancelled(v) => HalfCancelled(v)'
    BY <1>6, HalfCancelledStays
  <1> HIDE DEF x, back
  <1>17. CASE x \in Create
    <2> DEFINE Q == QuantityIn(x, v)
    <2>1. job.lines = Sale(x) /\ adding[x] = "landed"
      BY <1>5, <1>17 DEF RightJob, x
    <2>2. Q \in Nat /\ Total(Loss(v), job.lines) = Q /\ Total(Gain(v), job.lines) = 0
      BY <1>17, <2>1, WorthOfLines
    <2>3. QuantityIn(x, v)' = Q
      BY <1>6 DEF QuantityIn, Return, Items, Change, x
    <2> HIDE DEF Q
    <2>4. /\ Sold(v)[x] = Q * Deliveries(x) /\ Sold(v)'[x] = Q * Deliveries(x)'
          /\ SoldOnce(v)[x] = Q /\ SoldOnce(v)'[x] = Q
      BY <1>6, <1>17, <2>1, <2>3 DEF Sold, SoldOnce, Landed, Q
    <2>5. /\ SumFunction(Sold(v)') = SumFunction(Sold(v)) + (Sold(v)'[x] - Sold(v)[x])
          /\ SumFunction(SoldOnce(v)') = SumFunction(SoldOnce(v)) + (SoldOnce(v)'[x] - SoldOnce(v)[x])
      BY <1>6, <1>12, <1>17, Kinds, SalesChange
    <2>6. Sold(v)'[x] - Sold(v)[x] = (IF back THEN Q ELSE 0) /\ SoldOnce(v)'[x] - SoldOnce(v)[x] = 0
      BY <1>13, <1>15, <2>2, <2>4
    <2>7. Given(v)' = Given(v) /\ GivenTwice(v)' = GivenTwice(v)
      BY <1>6, <1>12, <1>17, Kinds, GiftsKept
    <2>8. /\ Low(v)' = Low(v) - l /\ High(v)' = High(v) + g
          /\ Exact(v)' = Exact(v) + (IF back THEN Q ELSE 0) - l + g
      BY <1>9, <1>14, <2>2, <2>5, <2>6, <2>7, AccountsAdd
    <2>9. Low(v)' <= Low(v) /\ High(v) <= High(v)'
      BY <1>14, <2>8
    <2>10. v \notin inexact' => Exact(v)' = Exact(v)
      BY <1>9, <1>10, <1>11, <1>14, <2>2, <2>8
    <2>11. QED
      BY <1>16, <2>9, <2>10 DEF AccountsStep
  <1>18. CASE x \in Cancel /\ x \notin Create
    <2> DEFINE Q == QuantityIn(target[x], v)
    <2>1. job.lines = Return(target[x]) /\ pc[x] = "done" /\ target[x] \in Create
      BY <1>5, <1>18 DEF RightJob, x, IInv, RequestInv
    <2>2. Q \in Nat /\ Total(Loss(v), job.lines) = 0 /\ Total(Gain(v), job.lines) = Q
      BY <2>1, WorthOfLines
    <2>3. QuantityIn(target[x], v)' = Q
      BY <1>6 DEF QuantityIn, Return, Items, Change, x
    <2> HIDE DEF Q
    <2>4. /\ Given(v)[x] = Q * (1 + Deliveries(x)) /\ Given(v)'[x] = Q * (1 + Deliveries(x)')
          /\ GivenTwice(v)[x] = 2 * Q /\ GivenTwice(v)'[x] = 2 * Q
      BY <1>6, <1>18, <2>1, <2>3 DEF Given, GivenTwice, Saved, Q
    <2>5. /\ SumFunction(Given(v)') = SumFunction(Given(v)) + (Given(v)'[x] - Given(v)[x])
          /\ SumFunction(GivenTwice(v)')
               = SumFunction(GivenTwice(v)) + (GivenTwice(v)'[x] - GivenTwice(v)[x])
      BY <1>6, <1>12, <1>18, Kinds, GiftsChange
    <2>6. Given(v)'[x] - Given(v)[x] = (IF back THEN Q ELSE 0) /\ GivenTwice(v)'[x] - GivenTwice(v)[x] = 0
      <3>1. /\ back => Deliveries(x)' = Deliveries(x) + 1
            /\ ~back => Deliveries(x)' = Deliveries(x)
        BY <1>13
      <3>2. /\ Q * (1 + (Deliveries(x) + 1)) - Q * (1 + Deliveries(x)) = Q
            /\ Q * (1 + Deliveries(x)) - Q * (1 + Deliveries(x)) = 0
        BY <1>13, <1>15, <2>2
      <3>3. back => Given(v)'[x] - Given(v)[x] = Q
        BY <2>4, <3>1, <3>2, Zenon
      <3>4. ~back => Given(v)'[x] - Given(v)[x] = 0
        BY <2>4, <3>1, <3>2, Zenon
      <3>5. GivenTwice(v)'[x] - GivenTwice(v)[x] = 0
        BY <2>2, <2>4
      <3>6. QED
        BY <3>3, <3>4, <3>5
    <2>7. Sold(v)' = Sold(v) /\ SoldOnce(v)' = SoldOnce(v)
      BY <1>6, <1>12, <1>18, Kinds, SalesKept
    <2>8. /\ Low(v)' = Low(v) - l /\ High(v)' = High(v) + g
          /\ Exact(v)' = Exact(v) - (IF back THEN Q ELSE 0) - l + g
      BY <1>9, <1>14, <2>2, <2>5, <2>6, <2>7, AccountsAdd
    <2>9. Low(v)' <= Low(v) /\ High(v) <= High(v)'
      BY <1>14, <2>8
    <2>10. v \notin inexact' => Exact(v)' = Exact(v)
      BY <1>9, <1>10, <1>11, <1>14, <2>2, <2>8
    <2>11. QED
      BY <1>16, <2>9, <2>10 DEF AccountsStep
  <1>19. QED
    BY <1>5, <1>17, <1>18, Kinds DEF x

(* Every step but the save of adjustStock.                                 *)
LEMMA AccountsStepHolds ==
    ASSUME IInv, IInv', AccountsOK, AccountsOK', [Next]_vars,
           \A a \in Agent : ~(AdjustSave(a) /\ UNCHANGED invoiceVars), NEW v \in Variant
    PROVE  AccountsStep(v)
  <1>1. StockJobsTypeOK /\ StockJobsTypeOK'
    BY DEF IInv, TypeOK
  <1>2. ASSUME UNCHANGED <<queue, todo>> PROVE ToLose(v)' = ToLose(v) /\ ToGain(v)' = ToGain(v)
    BY <1>2, OutstandingNext DEF ToLose, ToGain
  <1>3. ASSUME \/ \E r \in Create : \/ Begin(r) \/ CheckStock(r) \/ LookUpUser(r)
                                    \/ Respond(r) \/ Commit(r) \/ AddLost(r)
               \/ \E r \in Cancel : CancelLoad(r)
        PROVE  AccountsStep(v)
    <2>1. /\ UNCHANGED stockJobVars
          /\ \A i \in Create : adding'[i] = "landed" <=> adding[i] = "landed"
          /\ \A c \in Cancel :
                \/ pc'[c] = pc[c] /\ target'[c] = target[c]
                \/ pc[c] = "new" /\ pc'[c] \in {"save", "rejected"}
      BY <1>3, RequestSteps DEF IInv
    <2>2. \A c \in Cancel : \/ UNCHANGED <<pc[c], target[c], stalls[c]>>
                            \/ c \notin Saved /\ c \notin Saved'
      BY <2>1 DEF Saved, stockJobVars
    <2>3. UNCHANGED <<queue, todo, stalls>>
      BY <2>1 DEF stockJobVars
    <2>4. QED
      BY <1>2, <2>1, <2>2, <2>3, AccountsKept
  <1>4. ASSUME NEW a \in Agent, AdjustLoad(a), UNCHANGED invoiceVars PROVE AccountsStep(v)
    BY <1>2, <1>4, AccountsKept DEF AdjustLoad, invoiceVars
  <1>5. ASSUME NEW w \in Worker, Take(w), UNCHANGED invoiceVars PROVE AccountsStep(v)
    <2>1. ToLose(v)' = ToLose(v) /\ ToGain(v)' = ToGain(v)
      BY <1>1, <1>5, JobTaken
    <2>2. UNCHANGED <<stalls, pc, adding, target>>
      BY <1>5 DEF Take, invoiceVars
    <2>3. QED
      BY <2>1, <2>2, AccountsKept
  <1>6. ASSUME NEW w \in Worker, Finish(w), UNCHANGED invoiceVars PROVE AccountsStep(v)
    BY <1>2, <1>6, AccountsKept DEF Finish, invoiceVars
  <1>7. ASSUME UNCHANGED vars PROVE AccountsStep(v)
    BY <1>2, <1>7, AccountsKept DEF vars, stockJobVars, invoiceVars
  <1>8. QED
    BY <1>3, <1>4, <1>5, <1>6, <1>7, Steps, Kinds, AddedAccounts, CancelSaveAccounts,
       CancelAddAccounts, FailAccounts, SkipLineAccounts, StalledAccounts
-----------------------------------------------------------------------------
(* 5. What the stock is                                                    *)

(* Only the save of adjustStock writes the stock; what others have read of *)
(* it stays what it was.                                                   *)
LEMMA OthersLeaveTheStock ==
    ASSUME IInv, [Next]_vars, \A a \in Agent : ~(AdjustSave(a) /\ UNCHANGED invoiceVars)
    PROVE  /\ stock' = stock /\ inexact \subseteq inexact'
           /\ \A a \in loaded' :
                 \/ a \in loaded /\ seen'[a] = seen[a] /\ todo'[a] = todo[a]
                 \/ todo'[a] = todo[a] /\ seen'[a] = stock[Head(todo[a]).variant]
  <1>1. /\ todo \in [Agent -> Seq(Line)] /\ seen \in [Agent -> Nat \cup {None}]
        /\ loaded \subseteq Agent /\ \A a \in loaded : todo[a] # <<>>
    BY DEF IInv, TypeOK, StockJobsTypeOK
  <1> DEFINE Goal == /\ stock' = stock /\ inexact \subseteq inexact'
                     /\ \A a \in loaded' :
                           \/ a \in loaded /\ seen'[a] = seen[a] /\ todo'[a] = todo[a]
                           \/ todo'[a] = todo[a] /\ seen'[a] = stock[Head(todo[a]).variant]
  <1>2. ASSUME UNCHANGED <<stock, inexact, loaded, seen, todo>> PROVE Goal
    BY <1>2
  <1>3. ASSUME \/ \E r \in Create : \/ Begin(r) \/ CheckStock(r) \/ LookUpUser(r)
                                    \/ Respond(r) \/ Commit(r) \/ AddLost(r)
               \/ \E r \in Cancel : CancelLoad(r)
        PROVE  Goal
    <2>1. UNCHANGED stockJobVars
      BY <1>3 DEF Begin, CheckStock, LookUpUser, Respond, Commit, AddLost, CancelLoad
    <2>2. QED
      BY <1>2, <2>1 DEF stockJobVars
  <1>4. ASSUME NEW r \in Create, Added(r) PROVE Goal
    BY <1>2, <1>4 DEF Added
  <1>5. ASSUME NEW r \in Cancel, CancelAdd(r) PROVE Goal
    BY <1>2, <1>5 DEF CancelAdd
  <1>6. ASSUME NEW a \in Agent, todo[a] = <<>>,
               UNCHANGED <<stock, inexact, loaded, seen>>, \E s : todo' = [todo EXCEPT ![a] = s]
        PROVE  Goal
    BY <1>1, <1>6
  <1>7. ASSUME NEW a \in Agent, \E s : todo' = [todo EXCEPT ![a] = s],
               loaded' = loaded \ {a}, seen' = [seen EXCEPT ![a] = None],
               stock' = stock, inexact \subseteq inexact'
        PROVE  Goal
    BY <1>1, <1>7
  <1>8. ASSUME NEW r \in Cancel, CancelSave(r) PROVE Goal
    <2>1. todo[r] = <<>> /\ r \in Agent
      BY <1>8, Kinds DEF CancelSave, IInv, TodoInv
    <2>2. /\ UNCHANGED <<stock, inexact, loaded, seen>>
          /\ todo' = [todo EXCEPT ![r] = Return(target[r])]
      BY <1>8 DEF CancelSave
    <2>3. QED
      BY <1>6, <2>1, <2>2
  <1>9. ASSUME NEW r \in Request, Fail(r) PROVE Goal
    <2>1. /\ todo' = [todo EXCEPT ![r] = <<>>] /\ loaded' = loaded \ {r}
          /\ seen' = [seen EXCEPT ![r] = None] /\ stock' = stock /\ inexact' = inexact
      BY <1>9 DEF Fail, Abandon
    <2>2. QED
      BY <1>7, <2>1, Kinds
  <1>10. ASSUME NEW a \in Agent, AdjustLoad(a) PROVE Goal
    BY <1>1, <1>10 DEF AdjustLoad
  <1>11. ASSUME NEW w \in Worker, Take(w) PROVE Goal
    <2>1. /\ todo[w] = <<>> /\ UNCHANGED <<stock, inexact, loaded, seen>>
          /\ todo' = [todo EXCEPT ![w] = Head(queue).lines]
      BY <1>11 DEF Take
    <2>2. QED
      BY <1>6, <2>1, Kinds
  <1>12. ASSUME NEW w \in Worker, SkipLine(w) PROVE Goal
    <2>1. /\ todo' = [todo EXCEPT ![w] = Tail(todo[w])] /\ loaded' = loaded \ {w}
          /\ seen' = [seen EXCEPT ![w] = None] /\ stock' = stock /\ inexact \subseteq inexact'
      BY <1>12 DEF SkipLine
    <2>2. QED
      BY <1>7, <2>1, Kinds
  <1>13. ASSUME NEW w \in Worker, Finish(w) PROVE Goal
    BY <1>2, <1>13 DEF Finish
  <1>14. ASSUME NEW w \in Worker, Stalled(w) PROVE Goal
    <2>1. stock' = stock /\ inexact \subseteq inexact'
      BY <1>14 DEF Stalled
    <2>2. \/ UNCHANGED <<todo, loaded, seen>>
          \/ /\ todo' = [todo EXCEPT ![w] = <<>>] /\ loaded' = loaded \ {w}
             /\ seen' = [seen EXCEPT ![w] = None]
      BY <1>14 DEF Stalled, Abandon
    <2>3. QED
      BY <1>7, <2>1, <2>2, Kinds
  <1>15. ASSUME UNCHANGED vars PROVE Goal
    BY <1>2, <1>15 DEF vars, stockJobVars
  <1>16. Goal
    BY <1>3, <1>4, <1>5, <1>8, <1>9, <1>10, <1>11, <1>12, <1>13, <1>14, <1>15, Steps, Kinds
  <1>17. QED
    BY <1>16

(* What a save stores.                                                     *)
LEMMA SaveStores ==
    ASSUME StockJobsTypeOK, NEW a \in Agent, AdjustSave(a)
    PROVE  LET l == Head(todo[a])
               after == QuantityOf(seen[a]) + l.change
           IN  /\ l \in Line /\ l.variant \in Variant /\ l.change \in Int
               /\ QuantityOf(seen[a]) \in Nat
               /\ QuantityOf(stock'[l.variant]) = IF after > 0 THEN after ELSE 0
               /\ \A v \in Variant \ {l.variant} : stock'[v] = stock[v]
               /\ l.variant \notin inexact' =>
                     after >= 0 /\ QuantityOf(seen[a]) = QuantityOf(stock[l.variant])
               /\ inexact \subseteq inexact' /\ inexact' \subseteq inexact \cup {l.variant}
  <1> DEFINE l == Head(todo[a])
             q == QuantityOf(seen[a])
             after == q + l.change
             new == IF after > 0 THEN after ELSE 0
  <1>1. l \in Line /\ l.variant \in Variant /\ l.change \in Int
    BY LinesTyped DEF AdjustSave, StockJobsTypeOK
  <1>2. q \in Nat /\ after \in Int /\ new \in Nat /\ None \notin Nat
    BY <1>1, Kinds DEF StockJobsTypeOK, QuantityOf
  <1>3. stock' = [stock EXCEPT ![l.variant] = new]
    BY DEF AdjustSave
  <1>4. inexact' = inexact \cup {u \in {l.variant} : after < 0 \/ q # QuantityOf(stock[l.variant])}
    BY DEF AdjustSave
  <1> HIDE DEF l, q, after, new
  <1>5. stock'[l.variant] = new /\ \A v \in Variant \ {l.variant} : stock'[v] = stock[v]
    BY <1>1, <1>3 DEF StockJobsTypeOK
  <1>6. QuantityOf(new) = new
    BY <1>2 DEF QuantityOf
  <1>7. l.variant \notin inexact' => after >= 0 /\ q = QuantityOf(stock[l.variant])
    BY <1>2, <1>4
  <1>8. inexact \subseteq inexact' /\ inexact' \subseteq inexact \cup {l.variant}
    BY <1>4
  <1>9. QuantityOf(stock'[l.variant]) = new
    BY <1>5, <1>6
  <1>10. QED
    BY <1>1, <1>2, <1>5, <1>7, <1>8, <1>9 DEF l, q, after, new

(* Stale saves, clamps and redeliveries leave the stock within its bounds. *)
LEMMA BoundsInvStep ==
    ASSUME IInv, IInv', AccountsOK, AccountsOK', BoundsInv, [Next]_vars
    PROVE  BoundsInv'
  <1>1. StockJobsTypeOK /\ StockJobsTypeOK'
    BY DEF IInv, TypeOK
  <1>2. \A v \in Variant : Low(v) \in Int /\ High(v) \in Int /\ Low(v)' \in Int /\ High(v)' \in Int
    BY DEF AccountsOK
  <1>3. /\ \A v \in Variant : QuantityOf(stock[v]) \in Nat
        /\ \A a \in Agent : QuantityOf(seen[a]) \in Nat
    BY <1>1 DEF StockJobsTypeOK, QuantityOf
  <1>4. \A a \in loaded : a \in Agent /\ Head(todo[a]).variant \in Variant
    BY <1>1, LinesTyped DEF StockJobsTypeOK
  <1>5. ASSUME NEW v \in Variant, NEW row, QuantityOf(row) \in Nat, Within(v, row),
               Low(v)' <= Low(v), High(v) <= High(v)'
        PROVE  Low(v)' <= QuantityOf(row) /\ QuantityOf(row) <= High(v)'
    BY <1>2, <1>5 DEF Within
  <1>10. \A a \in loaded' : a \in Agent /\ Head(todo'[a]).variant \in Variant
    <2>1. ASSUME NEW a \in loaded' PROVE a \in Agent /\ Head(todo'[a]) \in Line
      <3>1. a \in Agent /\ todo'[a] \in Seq(Line) /\ todo'[a] # <<>>
        BY <1>1 DEF StockJobsTypeOK
      <3>2. QED
        BY <3>1, HeadTailProperties
    <2>2. QED
      BY <2>1 DEF Line
  <1>6. ASSUME \A v \in Variant : Low(v)' <= QuantityOf(stock'[v]) /\ QuantityOf(stock'[v]) <= High(v)',
               \A a \in loaded', v \in Variant : v = Head(todo'[a]).variant =>
                   Low(v)' <= QuantityOf(seen'[a]) /\ QuantityOf(seen'[a]) <= High(v)'
        PROVE  BoundsInv'
    <2>1. \A v \in Variant : Within(v, stock[v])'
      BY <1>6 DEF Within, QuantityOf
    <2>2. ASSUME NEW a \in loaded' PROVE Within(Head(todo[a]).variant, seen[a])'
      <3>1. PICK v \in Variant : v = Head(todo'[a]).variant
        BY <1>10
      <3>2. Low(v)' <= QuantityOf(seen'[a]) /\ QuantityOf(seen'[a]) <= High(v)'
        BY <1>6, <3>1
      <3>3. QED
        BY <3>1, <3>2 DEF Within, QuantityOf
    <2>3. QED
      BY <2>1, <2>2 DEF BoundsInv
  <1>7. CASE \A a \in Agent : ~(AdjustSave(a) /\ UNCHANGED invoiceVars)
    <2>1. \A v \in Variant : Low(v)' <= Low(v) /\ High(v) <= High(v)'
      BY <1>7, AccountsStepHolds DEF AccountsStep
    <2>2. /\ stock' = stock
          /\ \A a \in loaded' :
                \/ a \in loaded /\ seen'[a] = seen[a] /\ todo'[a] = todo[a]
                \/ todo'[a] = todo[a] /\ seen'[a] = stock[Head(todo[a]).variant]
      BY <1>7, OthersLeaveTheStock
    <2>4. \A v \in Variant : Low(v)' <= QuantityOf(stock'[v]) /\ QuantityOf(stock'[v]) <= High(v)'
      BY <1>3, <1>5, <2>1, <2>2 DEF BoundsInv
    <2>5. ASSUME NEW a \in loaded', NEW v \in Variant, v = Head(todo'[a]).variant
          PROVE  Low(v)' <= QuantityOf(seen'[a]) /\ QuantityOf(seen'[a]) <= High(v)'
      <3>1. a \in Agent /\ todo'[a] = todo[a] /\ v = Head(todo[a]).variant
        BY <1>10, <2>2, <2>5
      <3>2. Low(v)' <= Low(v) /\ High(v) <= High(v)'
        BY <2>1
      <3>3. CASE a \in loaded /\ seen'[a] = seen[a]
        <4>1. Within(v, seen[a])
          BY <3>1, <3>3 DEF BoundsInv
        <4>2. QuantityOf(seen[a]) \in Nat
          BY <1>3, <3>1
        <4>3. Low(v)' <= QuantityOf(seen[a]) /\ QuantityOf(seen[a]) <= High(v)'
          BY <1>5, <3>2, <4>1, <4>2
        <4>4. QED
          BY <3>3, <4>3
      <3>4. CASE seen'[a] = stock[v]
        <4>1. Within(v, stock[v]) /\ QuantityOf(stock[v]) \in Nat
          BY <1>3 DEF BoundsInv
        <4>2. Low(v)' <= QuantityOf(stock[v]) /\ QuantityOf(stock[v]) <= High(v)'
          BY <1>5, <3>2, <4>1
        <4>3. QED
          BY <3>4, <4>2
      <3>5. QED
        BY <2>2, <3>1, <3>3, <3>4
    <2>6. QED
      BY <1>6, <2>4, <2>5
  <1>8. ASSUME NEW a \in Agent, AdjustSave(a), UNCHANGED invoiceVars PROVE BoundsInv'
    <2>1. PICK l \in Line : l = Head(todo[a])
      BY <1>1, <1>8, SaveStores
    <2>2. PICK u \in Variant : u = l.variant
      BY DEF Line
    <2> DEFINE q == QuantityOf(seen[a])
    <2>3. /\ l.change \in Int /\ q \in Nat
          /\ QuantityOf(stock'[u]) = IF q + l.change > 0 THEN q + l.change ELSE 0
          /\ \A v \in Variant \ {u} : stock'[v] = stock[v]
      BY <1>1, <1>8, <2>1, <2>2, SaveStores
    <2>4. /\ todo[a] # <<>> /\ a \in loaded /\ loaded' = loaded \ {a}
          /\ todo' = [todo EXCEPT ![a] = Tail(@)] /\ seen' = [seen EXCEPT ![a] = None]
          /\ UNCHANGED <<queue, stalls, pc, adding, target>>
      BY <1>1, <1>8 DEF AdjustSave, invoiceVars, StockJobsTypeOK
    <2>5. \A v \in Variant : /\ Low(v)' = Low(v) - Loss(v)[l]
                             /\ High(v)' = High(v) + Gain(v)[l]
      BY <2>1, <2>4, LineDoneAccounts
    <2>6. Low(u) <= q /\ q <= High(u)
      BY <2>1, <2>2, <2>4 DEF BoundsInv, Within
    <2>7. /\ \A v \in Variant : Loss(v)[l] \in Nat /\ Gain(v)[l] \in Nat
          /\ Loss(u)[l] = IF l.change < 0 THEN -l.change ELSE 0
          /\ Gain(u)[l] = IF l.change > 0 THEN l.change ELSE 0
      BY <2>2, WeightsTyped
    <2> HIDE DEF q
    <2>8. \A v \in Variant : Low(v)' <= Low(v) /\ High(v) <= High(v)'
      <3>1. ASSUME NEW v \in Variant PROVE Low(v)' <= Low(v) /\ High(v) <= High(v)'
        <4>1. Low(v) \in Int /\ High(v) \in Int /\ Loss(v)[l] \in Nat /\ Gain(v)[l] \in Nat
          BY <1>2, <2>7
        <4>2. Low(v)' = Low(v) - Loss(v)[l] /\ High(v)' = High(v) + Gain(v)[l]
          BY <2>5
        <4>3. QED
          BY <4>1, <4>2
      <3>2. QED
        BY <3>1
    <2>9. Low(u)' <= QuantityOf(stock'[u]) /\ QuantityOf(stock'[u]) <= High(u)'
      <3>1. Low(u) \in Int /\ High(u) \in Int
        BY <1>2
      <3>2. Low(u)' = Low(u) - Loss(u)[l] /\ High(u)' = High(u) + Gain(u)[l]
        BY <2>5
      <3>3. QED
        BY <2>3, <2>6, <2>7, <3>1, <3>2
    <2>10. \A v \in Variant : Low(v)' <= QuantityOf(stock'[v]) /\ QuantityOf(stock'[v]) <= High(v)'
      <3>1. ASSUME NEW v \in Variant, v # u
            PROVE  Low(v)' <= QuantityOf(stock'[v]) /\ QuantityOf(stock'[v]) <= High(v)'
        <4>1. stock'[v] = stock[v] /\ Within(v, stock[v]) /\ QuantityOf(stock[v]) \in Nat
          BY <1>3, <2>3, <3>1 DEF BoundsInv
        <4>2. Low(v)' <= QuantityOf(stock[v]) /\ QuantityOf(stock[v]) <= High(v)'
          BY <1>5, <2>8, <4>1
        <4>3. QED
          BY <4>1, <4>2
      <3>2. QED
        BY <2>9, <3>1
    <2>11. ASSUME NEW b \in loaded', NEW v \in Variant, v = Head(todo'[b]).variant
           PROVE  Low(v)' <= QuantityOf(seen'[b]) /\ QuantityOf(seen'[b]) <= High(v)'
      <3>1. b \in loaded /\ b \in Agent /\ b # a
        BY <1>4, <2>4
      <3>2. todo'[b] = todo[b] /\ seen'[b] = seen[b]
        BY <1>1, <2>4, <3>1 DEF StockJobsTypeOK
      <3>3. Within(v, seen[b]) /\ QuantityOf(seen[b]) \in Nat
        BY <1>3, <2>11, <3>1, <3>2 DEF BoundsInv
      <3>4. Low(v)' <= QuantityOf(seen[b]) /\ QuantityOf(seen[b]) <= High(v)'
        BY <1>5, <2>8, <3>3
      <3>5. QED
        BY <3>2, <3>4
    <2>12. QED
      BY <1>6, <2>10, <2>11
  <1>9. QED
    BY <1>7, <1>8

(* A row that every line changed by its change holds what it should.       *)
LEMMA ExactInvStep ==
    ASSUME IInv, IInv', AccountsOK, AccountsOK', ExactInv, [Next]_vars
    PROVE  ExactInv'
  <1>1. StockJobsTypeOK
    BY DEF IInv, TypeOK
  <1>2. ASSUME \A v \in Variant : v \notin inexact' =>
                   HalfCancelled(v)' \/ QuantityOf(stock'[v]) = Exact(v)'
        PROVE  ExactInv'
    BY <1>2 DEF ExactInv, QuantityOf
  <1>3. CASE \A a \in Agent : ~(AdjustSave(a) /\ UNCHANGED invoiceVars)
    <2>1. ASSUME NEW v \in Variant, v \notin inexact', ~HalfCancelled(v)'
          PROVE  QuantityOf(stock'[v]) = Exact(v)'
      <3>1. ~HalfCancelled(v) /\ Exact(v)' = Exact(v)
        BY <1>3, <2>1, AccountsStepHolds DEF AccountsStep
      <3>2. stock' = stock /\ v \notin inexact
        BY <1>3, <2>1, OthersLeaveTheStock
      <3>3. QED
        BY <3>1, <3>2 DEF ExactInv
    <2>2. QED
      BY <1>2, <2>1
  <1>4. ASSUME NEW a \in Agent, AdjustSave(a), UNCHANGED invoiceVars PROVE ExactInv'
    <2>1. PICK l \in Line : l = Head(todo[a])
      BY <1>1, <1>4, SaveStores
    <2>2. PICK u \in Variant : u = l.variant
      BY DEF Line
    <2> DEFINE q == QuantityOf(seen[a])
    <2>3. /\ l.change \in Int /\ q \in Nat
          /\ QuantityOf(stock'[u]) = IF q + l.change > 0 THEN q + l.change ELSE 0
          /\ \A v \in Variant \ {u} : stock'[v] = stock[v]
          /\ u \notin inexact' => q + l.change >= 0 /\ q = QuantityOf(stock[u])
          /\ inexact \subseteq inexact'
      BY <1>1, <1>4, <2>1, <2>2, SaveStores
    <2>4. /\ todo[a] # <<>> /\ todo' = [todo EXCEPT ![a] = Tail(@)]
          /\ UNCHANGED <<queue, stalls, pc, adding, target>>
      BY <1>1, <1>4 DEF AdjustSave, invoiceVars, StockJobsTypeOK
    <2>5. \A v \in Variant : /\ Exact(v)' = Exact(v) - Loss(v)[l] + Gain(v)[l]
                             /\ HalfCancelled(v)' <=> HalfCancelled(v)
      BY <2>1, <2>4, LineDoneAccounts
    <2>6. /\ \A v \in Variant : v # u => Loss(v)[l] = 0 /\ Gain(v)[l] = 0
          /\ Loss(u)[l] = IF l.change < 0 THEN -l.change ELSE 0
          /\ Gain(u)[l] = IF l.change > 0 THEN l.change ELSE 0
      BY <2>2, WeightsTyped
    <2> HIDE DEF q
    <2>7. ASSUME NEW v \in Variant, v \notin inexact', ~HalfCancelled(v)'
          PROVE  QuantityOf(stock'[v]) = Exact(v)'
      <3>1. QuantityOf(stock[v]) = Exact(v) /\ Exact(v) \in Int
        BY <2>3, <2>5, <2>7 DEF ExactInv, AccountsOK
      <3>2. Exact(v)' = Exact(v) - Loss(v)[l] + Gain(v)[l]
        BY <2>5
      <3>3. CASE v = u
        BY <2>3, <2>6, <2>7, <3>1, <3>2, <3>3
      <3>4. CASE v # u
        BY <2>3, <2>6, <3>1, <3>2, <3>4
      <3>5. QED
        BY <3>3, <3>4
    <2>8. QED
      BY <1>2, <2>7
  <1>5. QED
    BY <1>3, <1>4

(* Nothing is sold, given or still to be processed to begin with.          *)
LEMMA AccountsInit == Init => BoundsInv /\ ExactInv
  <1> SUFFICES ASSUME Init PROVE BoundsInv /\ ExactInv
    OBVIOUS
  <1>1. /\ stock = Stock0 /\ queue = <<>> /\ loaded = {} /\ DOMAIN todo = Agent
        /\ \A a \in Agent : todo[a] = <<>>
    BY DEF Init, StockJobsInit
  <1>2. Landed = {} /\ Saved = {}
    BY Kinds DEF Init, Landed, Saved
  <1>3. ASSUME NEW v \in Variant PROVE Within(v, stock[v]) /\ QuantityOf(stock[v]) = Exact(v)
    <2>1. /\ \A r \in Create : Sold(v)[r] = 0 /\ SoldOnce(v)[r] = 0
          /\ \A r \in Cancel : Given(v)[r] = 0 /\ GivenTwice(v)[r] = 0
          /\ DOMAIN Sold(v) = Create /\ DOMAIN SoldOnce(v) = Create
          /\ DOMAIN Given(v) = Cancel /\ DOMAIN GivenTwice(v) = Cancel
      BY <1>2 DEF Sold, SoldOnce, Given, GivenTwice
    <2>2. SumFunction(Sold(v)) = 0 /\ SumFunction(SoldOnce(v)) = 0
      BY <2>1, Kinds, SumOfZeroes DEF SumFunction
    <2>3. SumFunction(Given(v)) = 0 /\ SumFunction(GivenTwice(v)) = 0
      BY <2>1, Kinds, SumOfZeroes DEF SumFunction
    <2>4. Outstanding(Loss(v), <<>>, todo) = 0
      BY <1>1, Kinds, NothingOutstanding
    <2>5. Outstanding(Gain(v), <<>>, todo) = 0
      BY <1>1, Kinds, NothingOutstanding
    <2>6. ToLose(v) = 0 /\ ToGain(v) = 0
      BY <1>1, <2>4, <2>5 DEF ToLose, ToGain
    <2>7. QuantityOf(Stock0[v]) \in Nat
      BY StockJobsAssumption DEF QuantityOf
    <2>8. QED
      BY <1>1, <2>2, <2>3, <2>6, <2>7 DEF Within, Low, High, Exact
  <1>4. QED
    BY <1>1, <1>3 DEF BoundsInv, ExactInv

(* The accounts are those of the code in every reachable state.            *)
LEMMA AccountsHold == Spec => [](IInv /\ AccountsOK /\ BoundsInv /\ ExactInv)
  <1>1. Init => IInv /\ BoundsInv /\ ExactInv
    BY TypeOKInit, JobsInvInit, AccountsInit DEF IInv
  <1>2. IInv => AccountsOK
    BY AccountsTyped DEF IInv
  <1>3. IInv /\ [Next]_vars => IInv'
    BY TypeOKStep, RequestInvStep, JobsInvStep, TodoInvStep DEF IInv
  <1>4. IInv /\ IInv' /\ AccountsOK /\ AccountsOK' /\ BoundsInv /\ ExactInv /\ [Next]_vars
            => BoundsInv' /\ ExactInv'
    BY BoundsInvStep, ExactInvStep
  <1>5. QED
    BY <1>1, <1>2, <1>3, <1>4, PTL DEF Spec

(***************************************************************************)
(* Whatever updates of adjustStock are lost, jobs stall and loops fail,    *)
(* no stock appears from nowhere: a row is never below what it held minus  *)
(* what delivered sale jobs took, nor above what it held plus what         *)
(* cancellations gave, by themselves and by the deliveries of their jobs.  *)
(***************************************************************************)
THEOREM StockStaysWithin == Spec => []StockWithinDeliveries
  <1>1. IInv /\ AccountsOK /\ BoundsInv => StockWithinDeliveries
    <2> SUFFICES ASSUME IInv, AccountsOK, BoundsInv, NEW v \in Variant
                 PROVE  /\ QuantityOf(stock[v]) >= QuantityOf(Stock0[v])
                             - SumFunction([r \in Landed |-> QuantityIn(r, v) * Deliveries(r)])
                        /\ QuantityOf(stock[v]) <= QuantityOf(Stock0[v])
                             + SumFunction([r \in Saved |->
                                   QuantityIn(target[r], v) * (1 + Deliveries(r))])
      BY DEF StockWithinDeliveries
    <2> DEFINE took == [r \in Landed |-> QuantityIn(r, v) * Deliveries(r)]
               gave == [r \in Saved |-> QuantityIn(target[r], v) * (1 + Deliveries(r))]
               given == [r \in Cancel |-> IF r \in Saved THEN gave[r] ELSE 0]
    <2>1. /\ QuantityOf(Stock0[v]) \in Nat
          /\ Sold(v) \in [Create -> Int] /\ Given(v) \in [Cancel -> Int]
          /\ SumFunction(Sold(v)) \in Int /\ SumFunction(Given(v)) \in Int
          /\ ToLose(v) \in Nat /\ ToGain(v) \in Nat
      BY DEF AccountsOK
    <2>2. Low(v) <= QuantityOf(stock[v]) /\ QuantityOf(stock[v]) <= High(v)
      BY DEF BoundsInv, Within
    <2>3. QuantityOf(stock[v]) \in Nat /\ StockJobsTypeOK
      BY Kinds DEF IInv, TypeOK, StockJobsTypeOK, QuantityOf
    <2>4. /\ DOMAIN took = Landed /\ Landed \in SUBSET Create
          /\ \A r \in Landed : took[r] = Sold(v)[r]
          /\ \A r \in Create \ Landed : Sold(v)[r] = 0
      BY DEF Sold, Landed
    <2> HIDE DEF took
    <2>5. SumFunction(took) = SumFunction(Sold(v))
      BY <2>1, <2>4, Kinds, SumFunctionRestricted
    <2>6. \A r \in Saved : /\ QuantityIn(target[r], v) \in Nat /\ Deliveries(r) \in Nat
                           /\ r \in Cancel /\ r \in Request
      <3>1. \A r \in Saved : r \in Cancel /\ r \in Request /\ target[r] \in Create
        BY Kinds DEF Saved, IInv, RequestInv, Cancelling
      <3>2. QED
        BY <2>3, <3>1, WorthOfLines, DeliveriesTyped
    <2>7. \A m, n \in Nat : /\ m * (1 + n) \in Int /\ m * 1 <= m * (1 + n)
      OBVIOUS
    <2>8. \A r \in Saved : gave[r] \in Int /\ Given(v)[r] <= gave[r]
      <3>1. \A r \in Saved : gave[r] = QuantityIn(target[r], v) * (1 + Deliveries(r))
        OBVIOUS
      <3>2. \A r \in Saved :
                \/ Given(v)[r] = QuantityIn(target[r], v) * (1 + Deliveries(r))
                \/ Given(v)[r] = QuantityIn(target[r], v) * 1
        BY <2>6 DEF Given
      <3>3. ASSUME NEW r \in Saved PROVE gave[r] \in Int /\ Given(v)[r] <= gave[r]
        <4>1. /\ QuantityIn(target[r], v) * (1 + Deliveries(r)) \in Int
              /\ QuantityIn(target[r], v) * 1 <= QuantityIn(target[r], v) * (1 + Deliveries(r))
          BY <2>6, <2>7
        <4> HIDE DEF gave
        <4>2. QED
          BY <3>1, <3>2, <4>1
      <3>4. QED
        BY <3>3
    <2>9. /\ DOMAIN gave = Saved /\ Saved \in SUBSET Cancel
          /\ \A r \in Cancel \ Saved : Given(v)[r] = 0
      BY DEF Given, Saved
    <2> HIDE DEF gave
    <2>10. /\ given \in [Cancel -> Int]
           /\ \A r \in Saved : gave[r] = given[r]
           /\ \A r \in Cancel \ Saved : given[r] = 0
           /\ \A r \in Cancel : Given(v)[r] <= given[r]
      BY <2>8, <2>9
    <2>11. SumFunction(gave) = SumFunction(given) /\ SumFunction(given) \in Int
      <3> HIDE DEF given
      <3>1. QED
        BY <2>9, <2>10, Kinds, SumFunctionRestricted
    <2>12. SumFunction(Given(v)) <= SumFunction(given)
      <3> HIDE DEF given
      <3>1. SumFunctionOnSet(Given(v), Cancel) <= SumFunctionOnSet(given, Cancel)
        BY <2>1, <2>10, Kinds, SumIsMonotone
      <3>2. QED
        BY <2>1, <2>10, <3>1 DEF SumFunction
    <2> HIDE DEF given
    <2>13. /\ QuantityOf(stock[v]) >= QuantityOf(Stock0[v]) - SumFunction(took)
           /\ QuantityOf(stock[v]) <= QuantityOf(Stock0[v]) + SumFunction(gave)
      BY <2>1, <2>2, <2>3, <2>5, <2>11, <2>12 DEF Low, High
    <2>14. QED
      BY <2>13 DEF took, gave
  <1>2. QED
    BY <1>1, AccountsHold, PTL

(***************************************************************************)
(* When all is quiet, a row that nothing disturbed has been changed once   *)
(* by every sale whose job reached Redis, committed or not, and twice by   *)
(* every cancellation: no interleaving of requests and workers, no order   *)
(* of jobs and no number of pods makes any other difference.               *)
(***************************************************************************)
THEOREM StockIsExplained == Spec => []StockExplained
  <1>1. IInv /\ AccountsOK /\ ExactInv => StockExplained
    <2> SUFFICES ASSUME IInv, AccountsOK, ExactInv, Quiet, NEW v \in Variant \ inexact,
                        ~HalfCancelled(v)
                 PROVE  QuantityOf(stock[v]) = QuantityOf(Stock0[v])
                          - SumFunction([r \in Landed |-> QuantityIn(r, v)])
                          + SumFunction([r \in Saved |-> 2 * QuantityIn(target[r], v)])
      BY DEF StockExplained, HalfCancelled
    <2> DEFINE took == [r \in Landed |-> QuantityIn(r, v)]
               gave == [r \in Saved |-> 2 * QuantityIn(target[r], v)]
    <2>1. /\ QuantityOf(Stock0[v]) \in Nat
          /\ SoldOnce(v) \in [Create -> Int] /\ GivenTwice(v) \in [Cancel -> Int]
          /\ SumFunction(SoldOnce(v)) \in Int /\ SumFunction(GivenTwice(v)) \in Int
      BY DEF AccountsOK
    <2>2. QuantityOf(stock[v]) = Exact(v)
      BY DEF ExactInv
    <2>3. ToLose(v) = 0 /\ ToGain(v) = 0
      <3>1. queue = <<>> /\ DOMAIN todo = Agent /\ \A a \in Agent : todo[a] = <<>>
        BY DEF Quiet, Idle, IInv, TypeOK, StockJobsTypeOK
      <3>2. Outstanding(Loss(v), <<>>, todo) = 0
        BY <3>1, Kinds, NothingOutstanding
      <3>3. Outstanding(Gain(v), <<>>, todo) = 0
        BY <3>1, Kinds, NothingOutstanding
      <3>4. QED
        BY <3>1, <3>2, <3>3 DEF ToLose, ToGain
    <2>4. /\ DOMAIN took = Landed /\ Landed \in SUBSET Create
          /\ \A r \in Landed : took[r] = SoldOnce(v)[r]
          /\ \A r \in Create \ Landed : SoldOnce(v)[r] = 0
      BY DEF SoldOnce, Landed
    <2>5. \A r \in Saved : pc[r] # "restore"
      BY Kinds DEF Quiet, Saved, Ended
    <2>6. /\ DOMAIN gave = Saved /\ Saved \in SUBSET Cancel
          /\ \A r \in Saved : gave[r] = GivenTwice(v)[r]
          /\ \A r \in Cancel \ Saved : GivenTwice(v)[r] = 0
      BY <2>5 DEF GivenTwice, Saved
    <2> HIDE DEF took, gave
    <2>7. SumFunction(took) = SumFunction(SoldOnce(v))
      BY <2>1, <2>4, Kinds, SumFunctionRestricted
    <2>8. SumFunction(gave) = SumFunction(GivenTwice(v))
      BY <2>1, <2>6, Kinds, SumFunctionRestricted
    <2>9. QuantityOf(stock[v]) = QuantityOf(Stock0[v]) - SumFunction(took) + SumFunction(gave)
      BY <2>1, <2>2, <2>3, <2>7, <2>8 DEF Exact
    <2>10. QED
      BY <2>9 DEF took, gave
  <1>2. QED
    BY <1>1, AccountsHold, PTL
=============================================================================
