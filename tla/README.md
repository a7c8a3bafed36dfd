# A TLA+ model of the inventory application

This directory models the parts of the repository in which requests, jobs and
transactions interleave, checks them with TLC on small instances, and proves with
TLAPS, for every instance, the safety properties of all modules but `Figures`:
stock levels and movements, invoices and purchases with their jobs, accounts and
refresh tokens, cached lists, the catalogue, and scheduler jobs.
Source paths are relative to `src/src/` unless they start with `README.md`.

## The system

A NestJS application runs in three kinds of pods that share one PostgreSQL
database and one Redis (`app.module.ts`, `START_MODE`): `api` pods serve HTTP,
`worker` pods consume BullMQ queues, one `scheduler` pod registers repeatable
jobs. Within a pod, Node runs a handler up to its next `await`, so handlers
interleave at awaits; across pods they run in parallel and meet in the database.

| component | state it keeps | operations | interacts with | what makes it correct |
|---|---|---|---|---|
| inventory (`module/inventory`) | a row (quantity, threshold, alert flag) per branch and variant; movement rows; list cache | create, adjustStock, update, transferStock; reads | called by invoices and by both queue listeners | no stock invented, locks released, movements account for the stock |
| low-stock jobs (`module/jobs/processors`) | the alert flags of the inventory rows | hourly check, nightly reset | write the inventory table | do not undo stock changes; every run ends |
| queues and listeners (`module/events/listener`) | jobs in Redis, locks of workers on jobs | process a job line by line with adjustStock | jobs from invoices and purchases | each line applied as often as the job is delivered, every job settles |
| invoices (`module/invoices`) | invoices with a status | create, cancel | stock check, INVOICES_QUEUE, adjustStock | sales take their items once, cancellations give them back |
| purchases (`module/purchases`) | purchases with a status; cost prices of variants | create, complete, cancel, remove | PURCHASES_QUEUE | decisions are final, cost prices belong to one purchase |
| sessions (`module/users`, `module/auth`) | accounts with a role; one refresh token per account; the access tokens clients hold | register, login, refresh, update role or profile, assign to a branch, remove | the guards believe the role an access token states | at most one session, a spent token is dead, e-mails differ, roles and removals last |
| categories (`module/categories`) | a tree, four cached lists per pod | CRUD, restore; cached reads | cache | a finished write shows, caches end up fresh |
| products, variants (`module/products`) | catalogue rows; images and their files in a storage provider | CRUD, restore, addVariants, upload images | purchases write cost prices; storage provider | no image without its file, uploads stay, updates change what they were asked |
| branches, suppliers, events | catalogue rows | CRUD | referred to by users, stock and products | as above |
| scheduler and jobs (`module/scheduler`, `module/jobs`) | schedules and jobs in Redis | eleven processors on one queue | SCHEDULER_QUEUE, inventory rows, events | every job is run by its processor and settles; repeats come from retries |
| reports and analytics (`module/analytics`, `module/reports`, statistics of branches and invoices) | none | several queries per report | read invoices, items, purchases, stock, products | the sums agree, a report does not contradict itself, closed periods stay |
| stock movements, notifications, deployment | movement rows | queries, mail | - | - |

The hard behaviours: handlers that read a row, compute, and save the whole
entity later; row locks of a transaction that calls repositories outside of it;
jobs added before a commit or after a save; stalled jobs delivered again and
jobs taken by the wrong processor; processes that die between two steps; caches
that are filled while their keys are deleted; reports whose tables change between
two queries; soft-deleted rows that joins hide; and a connection pool that
transactions hold while they ask it for a second connection. PROJECT.json lists
each of them with its line.

## Modules

| module | models |
|---|---|
| `StockLedger` | what the services may rely on about stock and movements (abstract) |
| `Inventory` | `inventory.service.ts`, `low-stock-check.processor.ts`, `reset-low-stock-alerts.processor.ts`; implements `StockLedger` |
| `InventoryProofs` | theorems of `Inventory`, the refinement among them, and their proofs |
| `SumLemmas` | lemmas about sums over finite sets and along sequences, and about what queues of jobs and their agents have left to do |
| `StockJobs` | a BullMQ queue of stock jobs, the workers, and the listeners' loops over adjustStock |
| `Invoices` | extends `StockJobs` with `createInvoice` and `cancelInvoice` |
| `InvoicesProofs` | theorems of `Invoices` and their proofs |
| `Purchases` | extends `StockJobs` with `createPurchase`, `completePurchase`, `cancelPurchase`, `remove` |
| `PurchasesProofs` | theorems of `Purchases` and their proofs |
| `RefreshTokens` | what clients may rely on about refresh tokens (abstract) |
| `Sessions` | `users.service.ts`, `auth.service.ts`, `assignUserToBranch` of `branches.service.ts`; implements `RefreshTokens` |
| `SessionsProofs` | theorems of `Sessions`, the refinement among them, and their proofs |
| `ListCaches` | the cached lists of `categories.service.ts` and `inventory.service.ts`, their readers and what each writer deletes |
| `ListCachesProofs` | theorems of `ListCaches` and their proofs |
| `SchedulerQueue` | `scheduler.service.ts` and the processors of `module/jobs` as consumers of one queue |
| `SchedulerQueueProofs` | theorems of `SchedulerQueue` and their proofs |
| `Catalogue` | categories, suppliers, branches, events, products, variants and images: their services' writes |
| `CatalogueProofs` | theorems of `Catalogue` and their proofs |
| `Figures` | `analytics.service.ts`, `reports.service.ts` and the other services' statistics, over tables that change |
| `MCInventory`, `MCInvoices`, `MCPurchases`, `MCSessions`, `MCSchedulerQueue`, `MCCatalogue`, `MCFigures` | values of the constants for TLC (`ListCaches` needs none) |

`Invoices` and `Purchases` compose their service with `StockJobs` (EXTENDS).
`Inventory` instantiates `StockLedger`, and `Sessions` `RefreshTokens`. The other modules meet in the database
only: where one component's writes matter to another, the other has a coarse
action for them: `UpdateCostPrice` of `Catalogue` is createPurchase, `InventoryJob`
of `ListCaches` the two jobs, `LoadRow`, `SaveLoaded` and `Abandon` of `SchedulerQueue` are
the requests that save whole inventory rows, and `Figures` takes every write as one
step, except createInvoice, whose begin and commit are two.

### Inventory, StockLedger

`rows` are the committed rows, `mem[r]` the entities that request `r` has in
memory, `pc[r]` the await it stands at, `lock` the transaction that holds a row,
`conns` the requests that keep a pooled connection between steps. Actions are the
stretches between two awaits that matter:

* `Receive` decides on what needs no database: the role guard of the route, the
  branch access, the cashier rule, the two branches of a transfer.
* `Load`, `Save`, `RecordMovement` are create, adjustStock and update.
  `Save` stores `Saved(c, mem)`, computed from the row as it was *loaded*, with
  all its columns: this is what TypeORM's `save` does with a whole entity.
  `SaveRefused` is the unique index on (variant, branch).
* `TransferLoadFrom` ... `TransferCommit` are transferStock. Its updates are
  visible to nobody before the commit, so the model applies them there and keeps
  `lock` from the statement on. The movements are saved through `movementRepo`,
  outside of the transaction: `TransferRecord` needs a free connection and takes
  effect at once.
* `LowStockCheckLoad`, `LowStockCheckSave`, `ResetAlerts` are the two jobs. The reset is
  one UPDATE: it has a connection, and keeps it while it waits for the flagged rows
  (`Flagged`) that are locked.
* `Fail` ends a handler at any await and rolls an open transaction back;
  `TransferAborted` is the deadlock victim and the duplicate insert.

`floor`, `ceiling`, `overwritten` are history variables: they are never read by
an action. A `save` whose values equal the row's sends no UPDATE in TypeORM; the
model writes the same values, and in a transfer takes the lock.
DTO validation is `ValidCall`; requests it refuses never start. Branches and
variants exist.

`StockLedger` knows quantities, the net of the movements, and of each request its
order, how far it is, what it has seen, and what it owes: stored and not entered, or
entered and not stored. A request sees what rows hold now (`See`), at any time and
as often as it likes, and stores by what it saw, stale or not: a `Store` followed by
its `Enter`, a `Set` that enters nothing, a `Rewrite` of the jobs, or a `Move` of both
rows at once after its two `EnterMove`s. After `Leave` it does nothing any more, and
what it owed stays owed. `Inventory` implements it with `Quantities` for the stock,
`audit` for the movements, and `Phases`, `Orders`, `Views` and `Debts` computed from the
awaits the handlers stand at and what they have in memory. Locks, connections,
permissions, thresholds, alert flags and the index are stutters or reasons to leave.

### StockJobs, Invoices, Purchases

One branch is modelled, since jobs of different branches touch different rows.
A job is its list of lines; a worker takes the first waiting job and for each
line runs `AdjustLoad` and `AdjustSave`, the two halves of adjustStock.
`SkipLine` is the `catch` around a line; `Finish` completes the job whatever
errors it met (the listeners swallow them, so the queue's `attempts: 3` never
applies). `Stalled` is the expiry of a worker's lock: BullMQ hands the job on at
most `MaxStalled` times (default 1), from its first line, while the first worker
may be dead or still running. `inexact` is a history variable: the rows to which
a stale save, a clamp at zero, a skipped line or a redelivery happened.

`Invoices`: `Begin` to `Commit` is createInvoice's transaction, which holds a
connection and takes a second one for every stock check and user lookup.
`LookUpUser` fires `queue.add` without awaiting it; `Added` or `AddLost` follows
at any time, whether the transaction commits or not. `CancelLoad` to `CancelAdd`
is cancelInvoice. `Fail` is an exception or the death of the process.

`Purchases`: `UpdateCostPrice` locks one variant's row at a time until
`CommitPurchase`; `CreateAborted` is PostgreSQL's deadlock victim. `Load` reads a
purchase and decides; `SaveStatus` saves the entity - including its null
`deletedAt`, so that it restores a purchase removed meanwhile - and `Add` queues
the job. complete saves first, cancel adds first.

### Sessions, RefreshTokens

`account` and `session` are the two tables; `badges` are the access tokens in
circulation, whose role the guards believe (`Admitted`) whatever the table says
by now. Every operation is the awaits it makes: `RegisterCheck`, `Insert`;
`Login`, `FindOldToken`, `RemoveOldToken`, `Issue`; `Refresh` decides what the
token's row and age allow (`Outcome`); `UpdateRole`, `UpdateProfile` and
`AssignUserToBranch` read an entity that `SaveUser` writes back whole, a null
`deletedAt` included; `RemoveLoad`, `SoftRemove`. `Refused` is a unique index,
`Fail` an exception or a dead process. A refresh token is named after the request
that inserted it.

`RefreshTokens` knows only the token each account can be refreshed with and the
tokens spent: an account has one at most, a token is issued once, and a spent one
is never good again. The mapping takes `session` for `current` and, for `spent`,
the tokens inserted so far that are no row's any more. A rotation is two abstract
steps, `Spend` and `Issue`, because the code makes it two.

### ListCaches

The content of a list is the number of writes its table has seen; `cache` is per
pod. An operation is the sequence of keys it deletes and its save, in the order of
its source: `CreateCategory == <<"tree", "flat", "save">>` deletes before it
saves, `RemoveCategory` after, `TransferStock` deletes before its transaction
commits, jobs delete nothing. `Miss`, `Find`, `CacheList` are the three steps of a
read-through fill. An operation may throw before its save, and adjustStock also after
it, when the movement is refused (`Fails`): the deletions are then left out. The mark
`raced` on an entry and `overtaken` are history: they say that a deletion or an
early-deleting save fell into the fill.

### SchedulerQueue

`job` holds, for every name and occurrence, what BullMQ keeps in Redis: state,
attempts, stalls, and who holds its lock. `consumer` is, per pod and processor,
the list it walks. `Dismiss` is the early return of a processor that took another
name's job. `Throw` and `Retried` are the queue's three attempts, `Stalled` the
expiry of a lock whose holder may be dead or slow, `PodDies` a worker's death.
`Walk` says over what each processor loops. A missing supplier (`None`) is what
`groupBySupplier` dereferences: with it nothing can be emitted and the consumer
can only throw.

The alert flags are written by others too: create, adjustStock, transferStock and
update load a row and later save all of it. A `Writer` does the part of this that
concerns the flag (`LoadRow`, `SaveLoaded`, or `Abandon` when it fails; `Inventory` has the
quantities), and so may write a flag back over a reset. `InMemory` are the rows whose
flag a check or a writer holds; `late` remembers those of the last reset.

### Catalogue

All kinds of rows share their life: `Create`/`Insert`, `Update`/`Save`,
`Remove`/`SoftRemove`, `Restore`. What differs per kind is what is looked for before
the insert (`CreateCategory`, `CreateBranch`, ...), what is assigned
(`UpdateCategory`, `UpdateVariant`, ...) and what has a unique name. `Loaded` reads
a reference to a removed row as null, as a join does, and `Save` writes it back.
The images of a product have a life of their own: `UploadFiles`, `SaveImages`,
`SaveProduct` (which takes the product from all older images) against `SoftRemove`
(which cascades to the images that were loaded), `DeleteFiles`, which may delete some of
the files and throw, `DeleteRows`.

### Figures

Each query of analytics and reports is an operator over the tables, named for its
method: the period (`GetDateRange`, with the custom one and its dates, `GetPreviousPeriod`,
`Last`), the filter (`Paid`), the group (`GroupSum`) and the join (`Joined`,
`JoinedProduct`: a removed row's sales are added up under null). Where the code reads a
field of a removed row, it throws: `Throws` for the lists, `None` for a branch's statistics
(`BranchStatistics`, `GetActualBranchProfit`). `GetInventoryStatus` has three columns that are
always 0, since the code reads them under a name the result does not have.

`Ask` and `Query` run the queries of a report one after another or, where the code
awaits them together, in any order, while sales, cancellations, purchases, stock,
thresholds and removals change the tables; `overtaken` remembers which table changed
between two queries of which report. `CreateInvoice` begins a transaction, which fixes
`createdAt`, and `CommitInvoice` makes the invoice visible later, perhaps on another day;
prices are the client's, as in the code.

## Runs

| run | instance | shows |
|---|---|---|
| `inventory` | 3 requests, 8 calls, 2 branches, 1 variant, pool of 4 | `TypeOK`; `StockEnvelope`: nothing is ever created or destroyed beyond what committed requests account for; `LocksOfOpenTransfers`; `AuditTrailExplained`: movements add up to the stock unless a stale save, a failed request or an update touched the row; `EveryRequestEnds`; and `LedgerIsKept`: the implementation of `StockLedger` |
| `audit_trail` (violated) | 2 manual adjustments of +1 | README.md:21's complete audit trail does not survive a lost update |
| `invoices` | 2 sales, 1 cancellation, 1 worker, 1 redelivery, pool of 3 | `StockWithinDeliveries`, `StockExplained`, `EveryRequestEnds`, `EveryJobSettles` |
| `cancellations` | 1 sale, 2 cancellations, 2 workers, 1 redelivery | `StockExplained` with jobs processed side by side |
| `cancel_restores` (violated) | as `cancellations` | a cancellation gives the items back twice |
| `purchases` | 2 purchases, 2 decisions, 1 worker | `StockExplained`, `CostPricesOfOnePurchase`, `DecisionsFinalUnlessRaced`, `EveryRequestEnds` with deadlocks broken |
| `sessions` | 2 accounts, 3 requests, 3 e-mails | `SessionLostByFailureOnly`, `RotatedOnceUnlessOvertaken`, `EmailsDiffer`, `DecisionsOnAccountsLast`, and `TokensKeepTheirPromise`: the implementation of `RefreshTokens` |
| `list_caches` | 2 readers, 2 writers, 1 API and 1 worker pod, 2 lists | `WritesShowUnlessRaced`, `ListsBecomeFresh` |
| `scheduler` | 2 names, 2 consumers, 1 row, 1 request that saves it | `RepeatsExplained`, `FlagsFollowAlerts`, `EveryJobSettles` |
| `scheduler_dispatch` (violated) | as `scheduler` | a completed job that never ran |
| `catalogue` | a category, a product, a variant, 3 requests | `NoBrokenImages`, `ImagesKept`, `UpdatesDoWhatTheyWereAsked` |
| `figures` | 2 branches, 2 sales, 1 purchase, 1 report, 2 changes, 3 ticks | `FiguresAgree`, `ReportsAgree`, `StatusesAgree`, `NoSaleComparedTwice`, `ClosedDaysOnlyLose` |

*Bounds.* A lost update, a double insert, a lock cycle and a reversed decision
each need two actors on one row; the third request of `inventory` lets something
else (a job, an update, a failing transfer) happen in between. Two branches give
a transfer both directions; a branch without a row gives the insert races; one
row below its threshold gives the jobs something to do. Stock of one piece makes
sales compete and decrements clamp. Two items in opposite orders are the smallest
deadlock of two creates. `MaxStalled` is BullMQ's default in the invoice runs and
0 in the purchase run, whose workers are the same. `cancellations` uses symmetry of
workers and of cancelling requests, `sessions` and `catalogue` of requests,
`figures` of sales; none of them has a liveness property.

Three requests in `sessions` are the two that race for one token and a third that
overtakes both, or that changes an account between a read and a save; they find an
administrator and a clerk, and a third e-mail to change to. In `list_caches` one
list of each table suffices, since keys of a table never meet: "stats", which some
writers forget, and "all", which every writer of the inventory deletes. In
`catalogue` one product with its category and variant has all three references, and
three requests are an upload or a removal, one that overtakes it, and a restore.
`scheduler` has the two names whose processors write the same rows; the other
processors differ in what they walk only, and a third consumer is beyond TLC's
time (every consumer may hold an expired lock). The walks of the other names are
therefore modelled and not run.
One writer suffices there, since a flag survives a reset in one memory as well as in
two, and a schedule whose occurrences have all come due is not removed any more.

In `figures`, a day has two ticks and the clock reaches the second day
(`MaxNow` = 2), so that there is a closed day and a sale on either side of midnight or
across it; a week, month or quarter is a day and a year two, the period of the
dashboard being the year. `NoSaleComparedTwice` is about instants, not about the two
sales, and takes all periods at every tick and custom dates from the day before the
first to the last tick, in either order. Two changes (`MaxWrites`) are a sale and what
alters it, or two that fall between the queries of a report; a sale counts when it begins.
The three orders are below, at and above the list price of 3, one refunded, one with a
discount above its subtotal. Quantities 0, 1, 2, 5, 6, 10, 11 with thresholds -1, 0, 1 are
both sides of every boundary of the classes of stock, 1, 5 and 10 times the
threshold; the row begins with 2.
The dashboard is asked for one branch (`Asked`); the other one's changes are then
those a report must not see. What concerns the tables and the clock alone is
evaluated where no report was asked for (`Unasked`): reports change no table, so
those states have all tables there are. One sold product is less than the limits of
the top lists, which are thereby out of scope. No counter is bounded otherwise:
requests serve one call each, jobs come due `MaxDue` times.

*Pool.* `PoolSize` exceeds the number of handlers that hold a connection while
they ask for another. This is a condition of `EveryRequestEnds`, not a fact about
the code: with 3 connections and 3 requests the property of `Inventory`, and with
2 connections and 2 creates that of `Invoices`, is violated. The code sets no pool
size (`config/typeorm.config.ts`), so the limit is the driver's default of 10
with no timeout.

*Fairness.* `FairSpec` asks weak fairness of every handler's steps (Node resumes
a settled await; PostgreSQL answers and breaks deadlocks) and of every worker's
steps (BullMQ workers poll; a line either succeeds or is skipped). An add that was
fired ends one way or the other (`Added` or `AddLost`). In `ListCaches` readers and
writers go on, and every cached entry expires (the cache module's ttl of 300 is
passed with each set or by default); nobody need ask for a list. In
`SchedulerQueue` every consumer goes on - a step may be a throw - and BullMQ's
stalled check takes an active job from whoever holds it: `EveryJobSettles` needs
nothing else, since attempts and stalls are both limited. Nothing is assumed of
`Fail`, of `Stalled` in the stock queues, of pods dying, or of requests arriving.

## Proofs

Each theorem holds for every value of the constants that satisfies the ASSUMEs of
its module. These say what the data are (initial rows, items, calls), that `None`
is no row, job, decision or memory, that workers are not requests, and, for the
stock queues, that the agents of one behaviour are finitely many (`Agent`), since
what they have left to do is added up. TLC evaluates them on every run.

Sums are folds over finite sets, and the library has no induction the provers can
use for them. `SumLemmas` instead argues by a smallest counterexample: strict
inclusion is well founded on the subsets of a finite set, so a nonempty collection
of them has a minimal one (`MinimalSubset`), and taking one element away from it
contradicts minimality. From this follow that the fold exists (`FoldExists`), that
any element can be taken out first (`SumOfOne`), the change of a sum by one of its
terms, monotony, and the sums along a sequence of lines, a queue of jobs and the
lines with the agents (`Outstanding`) when a job is added, taken, dropped or given
back. `OnceEach` and `Held` are the jobs that are in one place only.

`InventoryProofs`:

* `TypeCorrect`: `Spec => []TypeOK`. TypeOK is not inductive: a transfer saves
  `quantity - qty`, which is a natural number only because of the row it loaded
  some awaits earlier. `HandlerState` says what a handler holds at each await (a
  transfer past its check has a row of at least `qty` pieces in memory and two
  different branches, an update has a row, and so on).
* `NoLeakedLocks`: `Spec => []LocksOfOpenTransfers`, strengthened by its converse,
  that a transfer past a save still holds the row (`LockInv`).
* `EnvelopeHolds`: `Spec => []StockEnvelope`. The envelope alone is not
  inductive, since a save computes from what was loaded earlier: `EnvelopeInv`
  adds that everything in a handler's memory lies within the envelope too, which
  stays true because the envelope only widens, and that a transfer which is to
  insert the receiving row, and holds its index entry, still finds no row.
* `AuditTrailHolds`: `Spec => []AuditTrailExplained`. `BooksInv` says that a row is
  its initial quantity, plus its movements, plus what each started request owes
  it (`Owed`): stored and not yet recorded, or recorded and not yet stored. Each step
  changes one summand by as much as the row or the movements; at rest nothing is
  owed.
* `InventoryKeepsLedger`: `Spec => LedgerIsKept`, the refinement of `StockLedger`, from
  `HandlerInv` and `AlertState` (only the low-stock check saves a list of rows). `LedgerOfOne` reduces a step of one request to its own phase, view and debt;
  `LedgerSees`, `LedgerWaits`, `LedgerStores` and `LedgerLeaves` treat the families of actions
  that load, wait, save without recording and end; `LedgerStep` goes through the
  actions of `Next`. A transfer's step to `Move` is where the invariant is needed: that
  its two branches differ and that the row it loaded had enough is known from
  awaits earlier.

`InvoicesProofs`, from `IInv == TypeOK /\ RequestInv /\ JobsInv /\ TodoInv`: where
a request can be, that a request adds one job, which is in one place and is what
the request was to add, and that an agent has lines of its own job only.

* `TypeCorrect`. `stalls` would leave its bound, and a worker take nonsense,
  without `JobsInv`.
* `StockStaysWithin`: `Spec => []StockWithinDeliveries`. `BoundsInv` extends the
  property to states that are not quiet: a row, and what an agent has read of it,
  lie between `Low` (initial stock less what is sold, plus what outstanding lines
  are still to take) and `High`. No step narrows these bounds except the save of a
  line, which moves the row by what the bounds move (`AccountsStepHolds`); so what
  was read earlier still lies within, and a stale save cannot leave them.
* `StockIsExplained`: `Spec => []StockExplained`, from `ExactInv`: an undisturbed
  row is exactly what sales and cancellations make of it, less what is outstanding.

`PurchasesProofs`; `OrdersInv`, the types and the state at each await, comes first.

* `CostPricesNeverMix`: `Spec => []CostPricesOfOnePurchase`. `UpdatedAreLocked`
  carries it: a create keeps the row of every variant it has updated locked, so at
  its commit it holds all of them and overwrites any earlier purchase's prices
  as a whole.
* `DecisionsAreFinal`: `Spec => DecisionsFinalUnlessRaced`. `DecisionInv` carries
  it: what a request found when it read a purchase still holds unless somebody
  acted on the purchase since, which `stale` records.
* `TypeCorrect`, from `IInv == OrdersInv /\ PathInv /\ StockJobsTypeOK /\ JobsInv /\
  TodoInv`. `Adders` are the requests that have added their job - a cancellation
  before it saves, a completion after - and nobody adds a second one.
* `StockIsExplained`: `Spec => []StockExplained`. `ExactInv` keeps the books: an
  undisturbed row's `Balance` - its quantity and the signed worth of all lines that
  wait or are with a worker - is its initial quantity plus what is `Booked` for
  the requests that have added a job. A worker's step moves worth from the lines to
  the row (`WorkerKeepsBalance`), an add raises both sides (`AddIsBooked`), and any
  other step leaves both alone or a cancellation half done (`BooksKept`).

`SessionsProofs`, from `IInv == TypeOK /\ HandlerInv /\ SessionInv`:

* `TypeCorrect` and `EmailsAreUnique`. `HandlerInv` says what a request holds at each
  await: the account it is about exists, an insert is of the request's own
  account, and changes of an account never issue a token. `EmailsDiffer`
  follows because only an insert and a save write e-mails, and both meet the
  unique index.
* `SessionsImplementRefreshTokens`: `Spec => TokensKeepTheirPromise`, the refinement
  of `RefreshTokens`. `SessionInv` says that the token in a row of the auth table was
  inserted, that its account exists, and that no other account has it.
  `CreatedBySteps` and `SessionSteps` say what each action does to the tokens ever
  created and to the current ones; each case is a step of the abstract
  specification or a stutter.
* `SessionsLostByFailure`, `RotationsAreOvertaken`, `DecisionsLast`, from a second
  invariant, `JInv`, which adds to `IInv` which awaits a request comes by (`WayInv`), that
  a request not marked `stale` holds what the table holds (`UpToDate`), whose a token is
  (`OwnersInv`), that an inserted token is in its row or was read by somebody who
  removed it (`InsertedInv`), and that an account without a session has a request
  that is about to issue one, failed before it, or removed one (`ExplainedInv`).

`ListCachesProofs`, from `IInv == TypeOK /\ WritersInv`:

* `TypeCorrect`, and `WritesShow`: `Spec => []WritesShowUnlessRaced`. `WritersInv` follows
  an operation's plan: every list it shows in has been deleted or is still in what it
  has left; after its save, a list is still to be deleted or neither the entry nor
  a reader about to cache it is older than the save, unless marked as raced
  (`Fresh`, which every step preserves).

`SchedulerQueueProofs`:

* `TypeCorrect`. `JobInv` says that a job which may still be run has an attempt and
  a stall left, without which the counters would leave their bounds; `ConsumerInv`
  says what a processor holds between two steps.
* `FlagsTellTheTruth`: `Spec => []FlagsFollowAlerts`, strengthened by
  `SavingIsAlerted`, that the row a check is about to flag has had its alert emitted
  since the last reset or was in memory at it, and `LoadedIsAlerted`, the same of a row a
  request holds flagged.
* `RepeatsAreExplained`: `Spec => []RepeatsExplained`. `WalksCounted` bounds the events
  emitted for an item together with the consumers that still have it on their list
  by the job's attempts, stalls and whether it is taken; only taking a job adds a
  consumer, and a job is taken again only after an attempt or a stall was counted.

`CatalogueProofs`, from `IInv == TypeOK /\ HandlerInv /\ UpToDate /\ UploadsInv /\
RemovalsInv /\ ImagesKept`:

* `TypeCorrect`, and `UpdatesAreAsAsked`: `Spec => UpdatesDoWhatTheyWereAsked`, from
  `UpToDate`: what an update not marked `stale` is about to save differs from the row
  in what it was asked to change and in references cut by the load.
* `ImagesAreNotBroken` and `UploadedImagesAreKept`: `Spec => []NoBrokenImages` and
  `Spec => []ImagesKept`. An image that is not removed has its file unless
  overtaken (`UploadsInv`), and a removal holds images of its own product only, which
  are saved, and gone before their files are (`RemovalsInv`).

The steps of each proof follow the actions of `Next`; lemmas on the operators
and on what a family of actions leaves alone come before them. TLC confirmed the
inductive invariants on the runs' instances before they were proved.

Only model-checked: liveness (`EveryRequestEnds`, `EveryJobSettles`,
`ListsBecomeFresh`), which is out of the prover's reach; and everything of `Figures`, whose
reports are nested sums over grouped and joined tables with no state to
carry an inductive invariant: `FiguresAgree`, `ReportsAgree` and `StatusesAgree` compare
two ways to add up the same tables, which are facts about folds within folds that
`SumLemmas` does not reach, `NoSaleComparedTwice` is arithmetic on a calendar, and
`ClosedDaysOnlyLose` relates such sums across a step. The violated runs are
counterexamples and have nothing to prove.

## Findings

1. Two concurrent adjustments both succeed, the stock shows one and the movements
   two (`audit_trail`): the trail promised by README.md:21 is not complete.
   `update` moreover records no movement at all.
2. `cancelInvoice` restores the items twice (`cancel_restores`).
3. A periodic job is completed without having run when another processor's worker
   takes it (`scheduler_dispatch`), against `jobs.module.ts:36-38`.

Divergences the models show without a run of their own, as exceptions a property
states or as what it says:

- A completed purchase can be cancelled by a request that read it earlier, against
  `purchases.controller.ts:119-120` (`DecisionsFinalUnlessRaced`).
- A product or category saved while the row it refers to is soft-deleted loses its
  reference for good (`UpdatesDoWhatTheyWereAsked`).
- An alert flag loaded before the nightly reset is written back by whoever saves the
  row after it, and the row raises no alert until the next reset (`FlagsFollowAlerts`).
- `getPreviousPeriod` ends a day before the start of the period, an instant: the sales of
  up to a day between the two are in neither (`NoSaleComparedTwice`).
- Three of the five counts of the inventory status page are always 0
  (`analytics.service.ts:460-462`), whatever its rows are labelled (`ReportsAgree`).
- A sale whose transaction spans midnight is added to the day that is over, though
  its report may have been sent (`ClosedDaysOnlyLose`).
- The statistics of a branch throw once one of its products is removed (`FiguresAgree`).

## Not modelled

- Notifications: `notification.service.ts` formats mail and keeps no state. It alone
  would add to EMAIL_QUEUE, but no module provides it; LOW_STOCK_QUEUE has a consumer
  (`stock.listener.ts`) and no producer either.
- Attributes and variant values (`products.service.ts:420-577`): plain inserts and
  reads of rows no other operation changes.
- The cleanup job: three DELETE statements that keep no state. Rows outside of what
  `Catalogue` keeps (stock, movements, items) refer to variants, and PostgreSQL
  refuses the statement for all of them when they refer to one.
- Refill recommendations beyond the rows they start from: `suppliers.service.ts`
  joins the branch of past purchases without selecting it, so the lookup never
  matches and the answer is empty in every state.
- The shrinkage report: nothing in the code records a movement of type damage.
- What no route or job reaches: `getTotalRevenue`, `getTotalExpenses`, `getTotalCOGS`,
  `getFinancialSummary`, `getProfitLossStatement`, `getCashFlowAnalysis`, `getTaxSummary`,
  `getPeakHoursAnalysis`, `getPaymentMethodsBreakdown` and `getShrinkageReport` of
  `analytics.service.ts`, `generateForecastingData` of `reports.service.ts`, and `getCategoryTree`.
  Cycles among categories' parents, which two updates can make, concern only the last
  of these.
- Page and limit parameters, growth percentages, ratios, mail and log texts, the
  format of answers, password hashing and token encoding.
- Deployment files enter only through the kinds and the number of pods.

## Plan

1. The models, their runs, and the safety proofs of `Inventory`, `Invoices`,
   `Purchases`, `Sessions`, `ListCaches`, `SchedulerQueue` and `Catalogue` - done.
2. The abstract specifications `RefreshTokens` and `StockLedger`, implemented by
   `Sessions` and `Inventory`, with both refinements proved - done.
3. Further lemmas about the operators of `Figures` (periods, joins), which would let
   `ClosedDaysOnlyLose` be proved.
