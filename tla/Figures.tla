------------------------------- MODULE Figures -------------------------------
(***************************************************************************)
(* What the dashboards and reports add up                                  *)
(* (src/module/analytics/analytics.service.ts, reports/reports.service.ts, *)
(* and the statistics of branches and invoices), over tables that go on    *)
(* changing.  A report is several queries, one after another or all at     *)
(* once, in no transaction.  A left join hides rows with a deletedAt, so   *)
(* what belonged to them is added up under null.                           *)
(*                                                                         *)
(* Time is counted in ticks, the first of a day being its midnight.  An    *)
(* invoice has one item.  There are fewer products and rows than the       *)
(* shortest limit of a list.                                               *)
(***************************************************************************)
EXTENDS Integers, Sequences, FiniteSets, FiniteSetsExt, TLC

CONSTANTS
    Branch, User, Variant, Product,
    Category,       \* of all products
    ProductOf,      \* per variant, its product
    Price,          \* per variant, its list price
    Cost,           \* cost prices
    Sale,           \* invoices
    Purchase,       \* purchases
    Order,          \* what invoices are created from
    Stock0,         \* the rows to begin with
    Quantity,       \* what a row may hold
    Threshold,      \* its minThreshold
    Report,         \* requests for a report
    Period, Asked,  \* the period and the branches, or None, of the dashboard
    DaysIn,         \* days in a week, a month, a quarter, a year and by default
    DayLength,      \* ticks in a day
    MaxNow,         \* when the clock stops
    MaxWrites,      \* how often the tables change
    None

Removable == Branch \cup User \cup Variant \cup Product \cup {Category}
Kind == {"widgets", "inventoryStatus", "weekly", "tax"}
Periods == {"today", "week", "month", "year", "custom", "default"}
Tables == {"sales", "purchases", "stock", "variants", "products", "branches", "users", "categories"}
Unit == {"day", "week", "month", "quarter", "year", "default"}

ASSUME FiguresAssumption ==
    /\ \A v \in Variant : ProductOf[v] \in Product /\ Price[v] \in Nat
    /\ Period \in Periods /\ Asked \subseteq Branch \cup {None}
    /\ Cost \subseteq Nat /\ Quantity \subseteq Nat /\ Threshold \subseteq Int
    /\ DaysIn \in [Unit -> Nat \ {0}] /\ DaysIn["day"] = 1
    /\ DayLength \in Nat \ {0} /\ MaxNow \in Nat /\ MaxWrites \in Nat
    /\ Cardinality(Product) < 5

VARIABLES
    now,
    creating,       \* per sale, when its transaction began, and the row it is to commit
    invoice, purchase,
    stock,          \* the inventory, a row per branch and variant
    costPrice,      \* of the variants
    removed,        \* rows with a deletedAt
    report,         \* per request, its queries and what they answered
    overtaken,      \* history: requests, and tables that changed between two of their queries
    writes          \* bound: how often the tables changed

vars == <<now, creating, invoice, purchase, stock, costPrice, removed, report, overtaken, writes>>

Invoice == [createdAt : Nat, branch : Branch, user : User, variant : Variant, quantity : Nat,
            unitPrice : Nat, itemDiscount : Nat, discount : Nat, tax : Nat,
            status : {"pending", "paid", "cancelled", "refunded"}]

Init ==
    /\ now = 0
    /\ creating = [s \in Sale |-> None]
    /\ invoice = [s \in Sale |-> None]
    /\ purchase = [p \in Purchase |-> None]
    /\ stock = [b \in Branch |-> [v \in Variant |-> Stock0]]
    /\ costPrice = [v \in Variant |-> CHOOSE c \in Cost : TRUE]
    /\ removed = {}
    /\ report = [r \in Report |-> None]
    /\ overtaken = {}
    /\ writes = 0
-----------------------------------------------------------------------------
(* Sums, and what SQL makes of GROUP BY and LEFT JOIN *)

GroupSum(S, Key(_), Value(_)) ==
    [k \in {Key(s) : s \in S} |-> MapThenSumSet(Value, {s \in S : Key(s) = k})]

Total(sums) == MapThenSumSet(LAMBDA k : sums[k], DOMAIN sums)

Joined(x) == IF x \in removed THEN None ELSE x
JoinedProduct(v) == IF v \in removed THEN None ELSE Joined(ProductOf[v])
JoinedCategory(v) == IF JoinedProduct(v) = None THEN None ELSE Joined(Category)

\* At the price the client gives.
Subtotal(i) == i.quantity * i.unitPrice
TotalAmount(i) == Subtotal(i) - i.discount + i.tax
ItemSubtotal(i) == Subtotal(i) - i.itemDiscount

Amount(s) == TotalAmount(invoice[s])
ItemAmount(s) == ItemSubtotal(invoice[s])
\* The cost of a removed variant is null, and a sum leaves it out.
ItemCost(s) ==
    LET i == invoice[s]
    IN  IF i.variant \in removed THEN 0 ELSE i.quantity * costPrice[i.variant]

\* The paid invoices of a period, of one branch or, without one, of all.
Paid(p, b) ==
    {s \in Sale : /\ invoice[s] # None /\ invoice[s].status = "paid"
                  /\ invoice[s].createdAt \in p.from .. p.to
                  /\ b # None => invoice[s].branch = b}
-----------------------------------------------------------------------------
(* Periods *)

DayOf(t) == t \div DayLength
Midnight(d) == d * DayLength
EndOf(d) == Midnight(d + 1) - 1
StartOf(unit, d) == d - (d % DaysIn[unit])

\* A custom period has the client's dates, if any: the first one at any time of
\* its day, the second one to the end of its day.
GetDateRange(period, startDate, endDate) ==
    LET today == DayOf(now)
        start == CASE period = "today" -> Midnight(today)
                   [] period \in {"week", "month", "year"} -> Midnight(StartOf(period, today))
                   [] period = "custom" ->
                         IF startDate = None THEN Midnight(StartOf("month", today)) ELSE startDate
                   [] OTHER -> Midnight(today - DaysIn["default"])
    IN  [from |-> start,
         to |-> EndOf(IF period = "custom" /\ endDate # None THEN DayOf(endDate) ELSE today)]

\* Whole days between two instants, without the fraction.
DiffInDays(from, to) == IF to >= from THEN (to - from) \div DayLength ELSE -((from - to) \div DayLength)

\* Mutated form: forgets the day in between.
GetPreviousPeriodAdjoining(p) ==
    [from |-> p.from - DiffInDays(p.from, p.to) * DayLength, to |-> p.from]

\* It ends a day before the start of the period, an instant: what is left of
\* that day is in neither.
GetPreviousPeriod(p) ==
    LET prevEnd == p.from - DayLength
    IN  [from |-> prevEnd - DiffInDays(p.from, p.to) * DayLength, to |-> prevEnd]

\* The jobs report on the last week, month or quarter; the weekly report compares
\* its week with the one before.
Last(unit) ==
    LET start == StartOf(unit, DayOf(now))
    IN  [from |-> Midnight(start - DaysIn[unit]), to |-> EndOf(start - 1)]
WeekBefore(p) == [from |-> p.from - Midnight(DaysIn["week"]), to |-> p.to - Midnight(DaysIn["week"])]
-----------------------------------------------------------------------------
(* Sales *)

GetPeriodData(p, b) ==
    [revenue |-> MapThenSumSet(Amount, Paid(p, b)), orders |-> Cardinality(Paid(p, b))]

GetSalesTrends(p, b, unit) ==
    GroupSum(Paid(p, b), LAMBDA s : StartOf(unit, DayOf(invoice[s].createdAt)), Amount)

\* Mutated form: an inner join.
GetSalesByBranchInner(p) ==
    GroupSum({s \in Paid(p, None) : invoice[s].branch \notin removed},
             LAMBDA s : invoice[s].branch, Amount)

GetSalesByBranch(p) == GroupSum(Paid(p, None), LAMBDA s : Joined(invoice[s].branch), Amount)

GetSalesByUser(p, b) == GroupSum(Paid(p, b), LAMBDA s : Joined(invoice[s].user), Amount)

\* The invoices' own statistics, of all times, per day.
GetBranchStats(b) ==
    GroupSum(Paid([from |-> 0, to |-> now], b), LAMBDA s : DayOf(invoice[s].createdAt), Amount)

GenerateDailySalesReport(b, d) ==
    MapThenSumSet(Amount, Paid([from |-> Midnight(d), to |-> EndOf(d)], b))

\* The weekly summary of the cashiers and the check of the day's targets, of users
\* (all of them cashiers here) and branches that are not removed.
EmployeePerformance(p) ==
    [u \in User \ removed |->
        MapThenSumSet(Amount, {s \in Paid(p, None) : invoice[s].user = u})]
DailySales ==
    LET today == [from |-> Midnight(DayOf(now)), to |-> EndOf(DayOf(now))]
    IN  [b \in Branch \ removed |-> MapThenSumSet(Amount, Paid(today, b))]

(* Items *)

GetSalesByCategory(p, b) ==
    GroupSum(Paid(p, b), LAMBDA s : JoinedCategory(invoice[s].variant), ItemAmount)

GetTopProducts(p, b) ==
    GroupSum(Paid(p, b), LAMBDA s : JoinedProduct(invoice[s].variant), ItemAmount)

GetProductPerformance(p, b) ==
    GroupSum(Paid(p, b), LAMBDA s : JoinedProduct(invoice[s].variant), ItemAmount)

GetProfitMarginByProduct(p, b) ==
    LET product(s) == JoinedProduct(invoice[s].variant)
    IN  [revenue |-> GroupSum(Paid(p, b), product, ItemAmount),
         cost |-> GroupSum(Paid(p, b), product, ItemCost)]

Cogs(p, b) == MapThenSumSet(ItemCost, Paid(p, b))

GenerateProfitLossReport(p) ==
    LET revenue == MapThenSumSet(Amount, Paid(p, None))
        cogs == Cogs(p, None)
        expenses == MapThenSumSet(LAMBDA x : purchase[x].total,
                       {x \in Purchase : /\ purchase[x] # None /\ purchase[x].status = "completed"
                                         /\ purchase[x].createdAt \in p.from .. p.to})
    IN  [revenue |-> revenue, cogs |-> cogs, expenses |-> expenses,
         netProfit |-> revenue - cogs - expenses]

TaxTotals(p) ==
    [totalSales |-> MapThenSumSet(Amount, Paid(p, None)),
     totalTaxCollected |-> MapThenSumSet(LAMBDA s : invoice[s].tax, Paid(p, None)),
     taxableAmount |-> MapThenSumSet(LAMBDA s : Subtotal(invoice[s]), Paid(p, None))]

\* Mutated form: counts every invoice.
TaxByMonthOfAll(p) ==
    GroupSum({s \in Sale : invoice[s] # None /\ invoice[s].createdAt \in p.from .. p.to},
             LAMBDA s : StartOf("month", DayOf(invoice[s].createdAt)), Amount)

TaxByMonth(p) ==
    GroupSum(Paid(p, None), LAMBDA s : StartOf("month", DayOf(invoice[s].createdAt)), Amount)
-----------------------------------------------------------------------------
(* The inventory *)

RowsOf(b) == {r \in Branch \X Variant : b # None => r[1] = b}
At(r) == stock[r[1]][r[2]]

\* Mutated form: an empty row is low as well.
MatchesWithEmpty(row, status) ==
    LET q == row.quantity
        t == row.minThreshold
    IN  CASE status = "out-of-stock" -> q = 0
          [] status = "low-stock" -> q <= t
          [] status = "overstocked" -> q > t * 5
          [] status = "in-stock" -> q > t /\ q <= t * 5

\* The conditions in SQL, of the summary and of the filter.
Matches(row, status) ==
    LET q == row.quantity
        t == row.minThreshold
    IN  CASE status = "out-of-stock" -> q = 0
          [] status = "low-stock" -> q > 0 /\ q <= t
          [] status = "overstocked" -> q > t * 5
          [] status = "in-stock" -> q > t /\ q <= t * 5

Status == {"out-of-stock", "low-stock", "overstocked", "in-stock"}

\* What a listed row is labelled with.
StatusOf(row) ==
    CASE row.quantity = 0 -> "out-of-stock"
      [] row.quantity # 0 /\ row.quantity <= row.minThreshold -> "low-stock"
      [] row.quantity # 0 /\ row.quantity > row.minThreshold /\ row.quantity > row.minThreshold * 5 ->
            "overstocked"
      [] OTHER -> "in-stock"

\* The label of the inventory's own pages.
GetStockStatus(row) ==
    CASE row.quantity = 0 -> "out-of-stock"
      [] row.quantity # 0 /\ row.quantity <= row.minThreshold -> "low-stock"
      [] row.quantity # 0 /\ row.quantity > row.minThreshold /\ row.quantity > row.minThreshold * 10 ->
            "overstocked"
      [] OTHER -> "in-stock"

\* Three columns are read as instock, lowstock and outofstock, names no column of
\* the result has.
GetInventoryStatus(b) ==
    [total |-> Cardinality(RowsOf(b)),
     overstocked |-> Cardinality({r \in RowsOf(b) : Matches(At(r), "overstocked")}),
     inStock |-> 0, lowStock |-> 0, outOfStock |-> 0]

GetLowStockItems(b) == {r \in RowsOf(b) : At(r).quantity <= At(r).minThreshold}
GetLowStockCount(b) == Cardinality({r \in RowsOf(b) : At(r).quantity <= At(r).minThreshold})

\* The rows that the hourly check, the reorder suggestions and the refill
\* recommendations start from.
BelowThreshold(b) == {r \in RowsOf(b) : At(r).quantity < At(r).minThreshold}

RowCost(r) == IF r[2] \in removed THEN 0 ELSE At(r).quantity * costPrice[r[2]]
RowRetail(r) == IF r[2] \in removed THEN 0 ELSE At(r).quantity * Price[r[2]]

GetInventoryValuation(b) ==
    [cost |-> MapThenSumSet(RowCost, RowsOf(b)), retail |-> MapThenSumSet(RowRetail, RowsOf(b))]

\* Thrown out of by a sale of a removed variant.
GetActualBranchProfit(b) ==
    LET sold == Paid([from |-> 0, to |-> now], b)
        profit(s) == (invoice[s].unitPrice - costPrice[invoice[s].variant]) * invoice[s].quantity
    IN  IF \E s \in sold : invoice[s].variant \in removed THEN None ELSE MapThenSumSet(profit, sold)

\* A branch's own statistics: not found for a removed branch, and thrown out of by
\* a row of a removed variant or product.
BranchStatistics(b) ==
    LET profit(r) == (Price[r[2]] - costPrice[r[2]]) * At(r).quantity
    IN  IF \/ b \in removed
           \/ \E r \in RowsOf(b) : JoinedProduct(r[2]) = None
           \/ GetActualBranchProfit(b) = None
        THEN None
        ELSE [inventoryCost |-> MapThenSumSet(RowCost, RowsOf(b)),
              potentialProfit |-> MapThenSumSet(profit, {r \in RowsOf(b) : profit(r) >= 0}),
              potentialLoss |-> MapThenSumSet(LAMBDA r : -profit(r), {r \in RowsOf(b) : profit(r) < 0}),
              actualProfit |-> GetActualBranchProfit(b)]
-----------------------------------------------------------------------------
(* What changes the tables.  Their own modules have the detail: here every  *)
(* change is one step, and the listeners' changes of the stock are free.    *)

\* A report is under way between its first and its last query.
Underway(r) ==
    report[r] # None /\ report[r].state = "running" /\ DOMAIN report[r].answers # {}

Overtake(table) == overtaken' = overtaken \cup ({r \in Report : Underway(r)} \X {table})

Write(table) ==
    /\ writes < MaxWrites
    /\ writes' = writes + 1
    /\ Overtake(table)
    /\ UNCHANGED <<now, report>>

RowOf(o, t) ==
    [createdAt |-> t, branch |-> o.branch, user |-> o.user, variant |-> o.variant,
     quantity |-> o.quantity, unitPrice |-> o.unitPrice, itemDiscount |-> o.itemDiscount,
     discount |-> o.discount, tax |-> o.tax, status |-> o.status]

Orderable(o) ==
    /\ o.branch \notin removed /\ JoinedProduct(o.variant) # None
    /\ stock[o.branch][o.variant].quantity >= o.quantity

\* Mutated form: the date of a clock that is a day behind.
CreateInvoiceDated(s) ==
    /\ invoice[s] = None /\ creating[s] = None
    /\ \E o \in Order, t \in {now, now - DayLength} :
        /\ Orderable(o) /\ t >= 0
        /\ creating' = [creating EXCEPT ![s] = [began |-> now, row |-> RowOf(o, t)]]
    /\ writes < MaxWrites /\ writes' = writes + 1
    /\ UNCHANGED <<now, invoice, purchase, stock, costPrice, removed, report, overtaken>>

\* createdAt is the start of the transaction, whenever it commits.  It checks the
\* order as it begins.
CreateInvoice(s) ==
    /\ invoice[s] = None /\ creating[s] = None
    /\ \E o \in Order :
        /\ Orderable(o)
        /\ creating' = [creating EXCEPT ![s] = [began |-> now, row |-> RowOf(o, now)]]
    /\ writes < MaxWrites /\ writes' = writes + 1
    /\ UNCHANGED <<now, invoice, purchase, stock, costPrice, removed, report, overtaken>>

CommitInvoice(s) ==
    /\ creating[s] # None
    /\ creating' = [creating EXCEPT ![s] = None]
    /\ invoice' = [invoice EXCEPT ![s] = creating[s].row]
    /\ Overtake("sales")
    /\ UNCHANGED <<now, purchase, stock, costPrice, removed, report, writes>>

RollBack(s) ==
    /\ creating[s] # None
    /\ creating' = [creating EXCEPT ![s] = None]
    /\ UNCHANGED <<now, invoice, purchase, stock, costPrice, removed, report, overtaken, writes>>

\* Mutated form: spelled as in the name of the queue's job.
CancelInvoiceMisspelled(s) ==
    /\ invoice[s] # None /\ invoice[s].status # "cancelled"
    /\ invoice' = [invoice EXCEPT ![s].status = "canceled"]
    /\ Write("sales")
    /\ UNCHANGED <<creating, purchase, stock, costPrice, removed>>

CancelInvoice(s) ==
    /\ invoice[s] # None /\ invoice[s].status # "cancelled"
    /\ invoice' = [invoice EXCEPT ![s].status = "cancelled"]
    /\ Write("sales")
    /\ UNCHANGED <<creating, purchase, stock, costPrice, removed>>

\* Its cost becomes the variant's cost price.  Its transaction, of which it has its
\* createdAt as well, may have begun earlier.
CreatePurchase(p) ==
    /\ purchase[p] = None
    /\ \E v \in Variant \ removed, c \in Cost, t \in 0 .. now :
        /\ purchase' = [purchase EXCEPT ![p] = [createdAt |-> t, total |-> c, status |-> "pending"]]
        /\ costPrice' = [costPrice EXCEPT ![v] = c]
    /\ Write("purchases")
    /\ UNCHANGED <<creating, invoice, stock, removed>>

\* With the race of Purchases, a completed one may be cancelled too.
DecidePurchase(p) ==
    /\ purchase[p] # None
    /\ \/ purchase[p].status = "pending" /\ purchase' = [purchase EXCEPT ![p].status = "completed"]
       \/ purchase[p].status # "cancelled" /\ purchase' = [purchase EXCEPT ![p].status = "cancelled"]
    /\ Write("purchases")
    /\ UNCHANGED <<creating, invoice, stock, costPrice, removed>>

AdjustStock(r, q) ==
    /\ At(r).quantity # q
    /\ stock' = [stock EXCEPT ![r[1]][r[2]].quantity = q]
    /\ Write("stock")
    /\ UNCHANGED <<creating, invoice, purchase, costPrice, removed>>

\* By create, too, which takes a negative one.
ChangeThreshold(r, t) ==
    /\ At(r).minThreshold # t
    /\ stock' = [stock EXCEPT ![r[1]][r[2]].minThreshold = t]
    /\ Write("stock")
    /\ UNCHANGED <<creating, invoice, purchase, costPrice, removed>>

TableOf(x) ==
    CASE x \in Branch -> "branches" [] x \in User -> "users" [] x \in Variant -> "variants"
      [] x \in Product -> "products" [] x = Category -> "categories"

RemoveOrRestore(x) ==
    /\ removed' = IF x \in removed THEN removed \ {x} ELSE removed \cup {x}
    /\ Write(TableOf(x))
    /\ UNCHANGED <<creating, invoice, purchase, stock, costPrice>>

Tick ==
    /\ now < MaxNow
    /\ now' = now + 1
    /\ UNCHANGED <<creating, invoice, purchase, stock, costPrice, removed, report, overtaken, writes>>
-----------------------------------------------------------------------------
(* Reports: their queries, each list of them awaited one by one *)

GetOverview == <<"current", "previous", "topProducts", "lowStockCount">>
GetAllWidgets == {GetOverview, <<"salesTrend">>, <<"topTen">>, <<"lowStock">>}
InventoryStatusQueries == {<<"summary", "items">>}
GenerateWeeklyReport == {<<"weekCurrent", "weekPrevious", "weekTop">>}
GenerateTaxSummary == {<<"taxTotals", "taxByMonth">>}

Queries(kind) ==
    CASE kind = "widgets" -> GetAllWidgets
      [] kind = "inventoryStatus" -> InventoryStatusQueries
      [] kind = "weekly" -> GenerateWeeklyReport
      [] kind = "tax" -> GenerateTaxSummary

Answer(part, p, b) ==
    CASE part = "current" -> GetPeriodData(p, b)
      [] part = "previous" -> GetPeriodData(GetPreviousPeriod(p), b)
      [] part \in {"topProducts", "topTen"} -> GetTopProducts(p, b)
      [] part = "lowStockCount" -> GetLowStockCount(b)
      [] part = "salesTrend" -> GetSalesTrends(p, b, "day")
      [] part = "lowStock" -> GetLowStockItems(b)
      [] part = "summary" -> GetInventoryStatus(b)
      [] part = "items" -> [r \in RowsOf(b) |-> [status |-> StatusOf(At(r)), low |-> At(r).minThreshold]]
      [] part = "weekCurrent" -> GetPeriodData(p, None)
      [] part = "weekPrevious" -> GetPeriodData(WeekBefore(p), None)
      [] part = "weekTop" -> GetTopProducts(p, None)
      [] part = "taxTotals" -> TaxTotals(p)
      [] part = "taxByMonth" -> TaxByMonth(p)

\* The lists show names of variants, products and branches, which are null for
\* removed rows.
Throws(part, b) ==
    /\ part \in {"lowStock", "items"}
    /\ \E r \in IF part = "items" THEN RowsOf(b) ELSE GetLowStockItems(b) :
          r[1] \in removed \/ JoinedProduct(r[2]) = None

PerBranch == {"widgets", "inventoryStatus"}

PeriodOf(kind) ==
    CASE kind = "inventoryStatus" -> None
      [] kind = "weekly" -> Last("week")
      [] kind = "tax" -> Last("quarter")
      [] OTHER -> GetDateRange(Period, None, None)

\* The period is worked out once, when the request arrives.
Ask(r) ==
    /\ report[r] = None
    /\ \E kind \in Kind, b \in Asked :
        report' = [report EXCEPT ![r] =
            [kind |-> kind, branch |-> IF kind \in PerBranch THEN b ELSE None,
             period |-> PeriodOf(kind), queries |-> Queries(kind), answers |-> <<>>,
             state |-> "running"]]
    /\ UNCHANGED <<now, creating, invoice, purchase, stock, costPrice, removed, overtaken, writes>>

\* Queries asked together answer in any order.
Query(r) ==
    LET a == report[r]
    IN  /\ a # None /\ a.state = "running"
        /\ \E qs \in a.queries :
            LET part == Head(qs)
                rest == (a.queries \ {qs}) \cup ({Tail(qs)} \ {<<>>})
            IN  report' = [report EXCEPT ![r] =
                    IF Throws(part, a.branch) THEN [a EXCEPT !.state = "failed", !.answers = <<>>]
                    ELSE [a EXCEPT !.queries = rest,
                                   !.answers = (part :> Answer(part, a.period, a.branch)) @@ @,
                                   !.state = IF rest = {} THEN "answered" ELSE "running"]]
        /\ UNCHANGED <<now, creating, invoice, purchase, stock, costPrice, removed, overtaken, writes>>

Quiet ==
    /\ now = MaxNow /\ writes = MaxWrites /\ \A s \in Sale : creating[s] = None
    /\ \A r \in Report : report[r] # None /\ report[r].state # "running"

Next ==
    \/ Tick
    \/ \E s \in Sale : CreateInvoice(s) \/ CommitInvoice(s) \/ RollBack(s) \/ CancelInvoice(s)
    \/ \E p \in Purchase : CreatePurchase(p) \/ DecidePurchase(p)
    \/ \E r \in RowsOf(None), q \in Quantity : AdjustStock(r, q)
    \/ \E r \in RowsOf(None), t \in Threshold : ChangeThreshold(r, t)
    \/ \E x \in Removable : RemoveOrRestore(x)
    \/ \E r \in Report : Ask(r) \/ Query(r)
    \/ Quiet /\ UNCHANGED vars

Spec == Init /\ [][Next]_vars
-----------------------------------------------------------------------------
TypeOK ==
    /\ now \in 0 .. MaxNow /\ writes \in 0 .. MaxWrites
    /\ creating \in [Sale -> [began : 0 .. now, row : Invoice] \cup {None}]
    /\ invoice \in [Sale -> Invoice \cup {None}]
    /\ purchase \in [Purchase -> [createdAt : Nat, total : Cost,
                                  status : {"pending", "completed", "cancelled"}] \cup {None}]
    /\ stock \in [Branch -> [Variant -> [quantity : Quantity, minThreshold : Threshold]]]
    /\ costPrice \in [Variant -> Cost]
    /\ removed \subseteq Removable /\ overtaken \subseteq Report \X Tables
    /\ \A r \in Report : report[r] = None \/ report[r].state \in {"running", "answered", "failed"}

\* No report changes a table: what concerns tables and clock alone is said of the
\* states in which none was asked for, which have all tables there can be.
Unasked == \A r \in Report : report[r] = None

(***************************************************************************)
(* The same sales are added up in many ways, and the sums agree whatever   *)
(* was removed meanwhile: per day, week or month, branch, user, product    *)
(* and category, with and without tax.  What a job adds up for a branch or *)
(* a cashier that is not removed is what the dashboard shows of them.  A   *)
(* branch's own statistics, when they do not throw, have the cost and the  *)
(* profit the valuation has; the profit of its sales, which ignores their  *)
(* discounts, is never below that of the dashboard.                        *)
(***************************************************************************)
RevenueAgrees(p, b) ==
    LET revenue == GetPeriodData(p, b).revenue
    IN  /\ \A unit \in {"day", "week", "month"} : Total(GetSalesTrends(p, b, unit)) = revenue
        /\ Total(GetSalesByUser(p, b)) = revenue

ItemsAgree(p, b) ==
    LET items == Total(GetSalesByCategory(p, b))
        margins == GetProfitMarginByProduct(p, b)
    IN  /\ Total(GetTopProducts(p, b)) = items
        /\ Total(GetProductPerformance(p, b)) = items
        /\ Total(margins.revenue) = items
        /\ Total(margins.cost) = Cogs(p, b)

JobsAgree ==
    LET quarter == Last("quarter")
        tax == TaxTotals(quarter)
        byUser == GetSalesByUser(Last("week"), None)
    IN  /\ GenerateProfitLossReport(quarter).revenue = tax.totalSales
        /\ Total(TaxByMonth(quarter)) = tax.totalSales
        /\ tax.taxableAmount + tax.totalTaxCollected >= tax.totalSales
        /\ \A u \in User \ removed :
              EmployeePerformance(Last("week"))[u] = IF u \in DOMAIN byUser THEN byUser[u] ELSE 0
        /\ \A b \in Branch \ removed :
              /\ DailySales[b] = GenerateDailySalesReport(b, DayOf(now))
              /\ \A d \in DOMAIN GetBranchStats(b) :
                    GetBranchStats(b)[d] = GenerateDailySalesReport(b, d)

BranchAgrees(b) ==
    LET own == BranchStatistics(b)
        valuation == GetInventoryValuation(b)
        ever == [from |-> 0, to |-> now]
    IN  own # None =>
            /\ own.inventoryCost = valuation.cost
            /\ own.potentialProfit - own.potentialLoss = valuation.retail - valuation.cost
            /\ own.actualProfit >= Total(GetSalesByCategory(ever, b)) - Cogs(ever, b)

FiguresAgree ==
    Unasked =>
        /\ LET p == GetDateRange(Period, None, None)
            IN  /\ \A b \in Branch \cup {None} : RevenueAgrees(p, b) /\ ItemsAgree(p, b)
                /\ GetPeriodData(p, None).revenue
                      = MapThenSumSet(LAMBDA b : GetPeriodData(p, b).revenue, Branch)
                /\ Total(GetSalesByBranch(p)) = GetPeriodData(p, None).revenue
        /\ JobsAgree
        /\ GetInventoryValuation(None).cost
              = MapThenSumSet(LAMBDA b : GetInventoryValuation(b).cost, Branch)
        /\ \A b \in Branch : BranchAgrees(b)

(***************************************************************************)
(* Two parts of a report that say the same thing say the same, unless a    *)
(* table that both read changed between the report's queries: the days of  *)
(* the trend and the revenue, the two lists of top products, the low rows  *)
(* and their count, the status of the rows and how many are overstocked    *)
(* (when no threshold is negative), the week's orders and its products,    *)
(* the tax of the months and of the quarter.  Changes of other tables, and *)
(* midnight, do no harm.  The summary's inStock, lowStock and outOfStock   *)
(* are 0 whatever the rows are labelled: they agree with nothing.          *)
(***************************************************************************)
Consistent(kind, a, changed) ==
    CASE kind = "widgets" ->
            /\ "sales" \notin changed => Total(a["salesTrend"]) = a["current"].revenue
            /\ changed \cap {"sales", "variants", "products"} = {} => a["topProducts"] = a["topTen"]
            /\ "stock" \notin changed => Cardinality(a["lowStock"]) = a["lowStockCount"]
      [] kind = "inventoryStatus" /\ "stock" \notin changed ->
            /\ a["summary"].total = Cardinality(DOMAIN a["items"])
            /\ (\A r \in DOMAIN a["items"] : a["items"][r].low >= 0) =>
                  a["summary"].overstocked =
                     Cardinality({r \in DOMAIN a["items"] : a["items"][r].status = "overstocked"})
      [] kind = "weekly" /\ "sales" \notin changed -> a["weekCurrent"].orders = 0 <=> a["weekTop"] = <<>>
      [] kind = "tax" /\ "sales" \notin changed -> Total(a["taxByMonth"]) = a["taxTotals"].totalSales
      [] OTHER -> TRUE

ReportsAgree ==
    \A r \in Report :
        report[r] # None /\ report[r].state = "answered" =>
            Consistent(report[r].kind, report[r].answers, {t \in Tables : <<r, t>> \in overtaken})

(***************************************************************************)
(* The profit and loss of days that are over.  A sale adds to them after   *)
(* their end only if its transaction was begun before.  Otherwise their    *)
(* revenue rises only when a sale is cancelled whose discount exceeds it,  *)
(* their cost of goods only when a cost price does or a removed variant is *)
(* restored, and their expenses change only when a purchase is decided.    *)
(***************************************************************************)
ClosedDaysOnlyLose ==
    [][\A d \in 0 .. DayOf(now) - 1 :
          LET p == [from |-> 0, to |-> EndOf(d)]
              before == GenerateProfitLossReport(p)
              after == GenerateProfitLossReport(p)'
              late == {s \in Sale : /\ creating[s] # None /\ creating[s].began <= p.to
                                    /\ invoice[s] = None /\ invoice'[s] # None}
          IN  /\ after.revenue > before.revenue =>
                    \/ late # {}
                    \/ \E s \in Sale : /\ invoice[s] # None /\ Amount(s) < 0
                                       /\ invoice'[s].status # invoice[s].status
              /\ after.cogs > before.cogs =>
                    \/ late # {}
                    \/ \E v \in Variant : costPrice'[v] > costPrice[v]
                    \/ removed \ removed' # {}
              /\ after.expenses # before.expenses =>
                    \E x \in Purchase : purchase[x] # None /\ purchase'[x].status # purchase[x].status]_<<invoice, purchase, costPrice, removed>>

(***************************************************************************)
(* A row is in one of the four classes of the dashboard, under the filter  *)
(* it is labelled with, and the inventory's own label differs from it only *)
(* by a later "overstocked"; what the jobs call low is low there.  All of  *)
(* this but the last needs a threshold that is not negative, which update  *)
(* asks for and create does not.                                           *)
(***************************************************************************)
StatusesAgree ==
    Unasked => \A r \in RowsOf(None) :
        /\ At(r).minThreshold >= 0 =>
              /\ {status \in Status : Matches(At(r), status)} = {StatusOf(At(r))}
              /\ GetStockStatus(At(r)) # StatusOf(At(r)) =>
                    StatusOf(At(r)) = "overstocked" /\ GetStockStatus(At(r)) = "in-stock"
        /\ r \in BelowThreshold(None) => r \in GetLowStockItems(None)

(***************************************************************************)
(* No instant, and so no sale, is in a period and in the one the overview  *)
(* compares it with; the instants between the two, whose sales are in      *)
(* neither, are less than a day before the period.  This holds of custom   *)
(* periods too, with any dates, in any order, at any time of the day.  The *)
(* weekly report's two weeks leave out nothing.                            *)
(***************************************************************************)
Dates == {None} \cup (1 - DayLength .. MaxNow)
Overviewed ==
    {GetDateRange(period, None, None) : period \in Periods}
        \cup {GetDateRange("custom", start, end) : start \in Dates, end \in Dates}

NoSaleComparedTwice ==
    Unasked =>
        /\ \A p \in Overviewed :
            LET q == GetPreviousPeriod(p)
            IN  /\ (q.from .. q.to) \cap (p.from .. p.to) = {}
                /\ \A t \in q.to + 1 .. p.from - 1 : p.from - t < DayLength
        /\ LET week == Last("week")
           IN  WeekBefore(week).to + 1 = week.from
=============================================================================
