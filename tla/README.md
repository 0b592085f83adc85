# Verification of the plant backend and its browser client

TLA+ models of this repository (`src/backend`, an Express + Prisma + PostgreSQL
service for planning, production, purchasing and finished goods; `src/frontend`,
the React application over it), the TLC runs that check them and the TLAPS
proofs about them.

Contents: [the system](#the-system) · [inventory](#inventory) ·
[modules](#the-modules-and-the-code) · [runs](#the-runs) ·
[what interleaving breaks](#what-interleaving-breaks) ·
[other observations](#other-observations) · [proofs](#the-proofs) ·
[not modelled](#not-modelled) · [plan](#plan)

## The system

Every request to the backend is one asynchronous handler of a Node process. It
validates its input, reads rows, decides, and writes rows, partly in
`prisma.$transaction`. All state is in PostgreSQL; nothing is kept in memory
between requests. Three facts shape the models of the backend:

1. **READ COMMITTED, no explicit locks.** Each statement sees what is committed
   when it starts. An `UPDATE` locks the row until its transaction ends, and an
   update that waited for the lock then writes the values the program computed
   from an older read.
2. **Many handlers read outside the transaction they write in** (`reserveFgBatch`,
   `createGrn`, `updateQuotation`, `createFromRfq`, `unscheduleOrder`, ...). Some
   columns are incremented in place (`{ increment: ... }`), others are written
   from a value computed in JavaScript. Which one it is decides what survives
   two requests at a time.
3. **A handler can end anywhere**: a rule rejects it, a statement fails, the
   transaction times out, the process dies. A transaction then rolls back; what
   was written before it stays (`runScheduling` relies on that, and cleans up).

So these modules share one shape. The tables are variables. A request is a record
in `req[c]` for a client `c`: a handler's reads, its decision and its writes are
separate actions where the code awaits in between, and one action where a single
transaction is entered with everything already read. What a transaction has
written but not committed is kept in the request's `w...` fields, and these
fields are its row locks. Every request may end by `Rollback`.

How many requests run at a time is part of the initial state (`InFlight`, the
clients of the behaviour, is any non-empty set of `Clients`): one run covers the
code with requests one after the other and with two interleaving. A property
that the code keeps only in the first case says so (`Alone => ...`); the section
on interleaving says what happens otherwise.

The browser keeps a cache of query results (TanStack Query) that each write
must invalidate by hand; which pages a role finds and what it may do there is
decided a second time, apart from the backend. That is the other half.

## Inventory

| component | state | operations | what is hard | correct when |
|---|---|---|---|---|
| `fgBatch` | FG batches (stock status, dispatch status, reserved and dispatched quantity, place), reservations, stock movements | generate from a QC inspection, transfer, hold, release, reserve, cancel | counters written from stale reads; three tables that must agree; holds between other requests' steps | nothing is promised or shipped twice; counters are the sums of their rows; the ledger replays to the row |
| `fgDispatch` | dispatches and their line items | `createDispatch`: many batches in one transaction, netting reservations oldest first | the same batch twice in one dispatch; another order's reservations | it draws only on its own order's reservations |
| `salesOrders` | sales orders and their derived status | create, edit, delete, recompute | status is derived from rows of other components | status is what reservations and dispatches make it |
| `purchaseIndents`, `rfq` | indents with approval history, RFQs, quotations, the selection | create, submit, approve, reject, ask, quote, edit, select | checks before the write; an indent with several RFQs | one selected quotation, one order per indent, on the selected terms |
| `purchaseOrders` | orders, lines, amendment history | create (also from an RFQ), status with hold/resume, amend | resume target found in the history; receipt status driven by GRNs only | never back in the flow; the receipt status is what its lines say |
| `grn` | GRN lines, their inspection | receive, inspect | excess decided before the transaction; one receipt for several lines | each unit is credited once; the receipt status tells the truth |
| `rmInventory` | raw material stock and its ledger | adjust (read-modify-write), edit | lost updates | stock is the sum of its ledger |
| `orders` | production orders, status history, closure summary | create, status, delete | stale reads in the status machine | gap-free history; one summary with each closure |
| `scheduling` | schedule rows | a run over all eligible orders, un-schedule | not one transaction: partial failure, a clean-up that fails too, crash | no schedule row left behind but for a death or a failed clean-up; a run ends |
| `qc` | QC batches, serial sequence | generate | a sequence moved by two statements | serial ranges do not overlap |
| `ctb` | clear-to-build status and shortages of an order | evaluate, recheck all | stock read before the write; status and shortage rows replaced by separate statements | status and shortages are of one evaluation |
| `purchaseRequisitions` | requisitions with line items | generate, status, credit on Fulfilled | demand, stock and pipeline read side by side, inserted later; the insert retried; credit twice | a shortfall is asked for once, credited once |
| `bomExplosion` | BOM requirement rows of an order | explode a SKU, get or compute, recompute, delete | fetch and walk count levels each for itself; cyclic BOMs; two first readers both insert | the answer is the sum over all ways down; one copy per order |
| `productionPlan` | daily plan rows of an order | generate (replace), read against actual, forecast | days from the exact output, quantities from the rounded one | the plan sums to the order and asks nothing impossible |
| `sequentialIds` | the date-sequence identifiers of every document | read the largest, insert, retry | contention | no gap, no duplicate; who gives up has a reason for each attempt |
| `dailyLogs`, `qcInspection` | logs, inspections | create, edit, delete | edit windows | |
| master data (`products`, `suppliers`, `warehouses`, `machines`, `lines`, `hr`, `purchaseItems`, `bom`, testing plans) | rows | create, edit, delete | foreign keys only | |
| reports (`dashboard`, `fgDashboard`, `orderStatusDashboard`, `materials`, `shortageReport`, `risk`, `oee`, `search`) | none of their own, but for one threshold | read | | computed from the facts a write says it changes |
| `frontend` | the cache of query results, the page | 63 queries, some 57 writes offered, 42 routes | a missing invalidation; a load under way when a write is answered; role tests in two places; links by string | no page goes on showing what the user's own write changed; offers are accepted; links resolve |
| `auth`, `http`, `db` | users, sessions | log in, authorize, validate, reconnect | | |

Interaction is by shared rows and by calls inside one transaction: `createGrn`
and `inspectGrnLineItem` call `recomputePoReceiptStatus` and `adjustStock`,
`updatePrStatus` calls `adjustStock`, `runScheduling` calls `updateOrderStatus`,
reserve, cancel and dispatch call `recomputeSalesOrderStatus`, `createFromRfq`
changes an indent, a clear-to-build check and a requisition both read the BOM
snapshot of an order. The browser talks to all of them by HTTP only.
`PROJECT.json` lists the components with their state of modelling and, under
`hazards`, each hard behaviour at its line.

## The modules and the code

`PROJECT.json` maps every definition to its lines. An operator that is preceded
by `Mutant:` is not part of the model: it is a plausible bug in the definition
that follows it, kept to show that a property would notice.

**`FgStock`** – `fgBatch`, `fgReservation`, `fgStockMovement`, `fgDispatch`,
`salesOrders`. `batch`, `resv`, `lineItems`, `order` are the tables; `ledger`
is what replaying `fg_stock_movements` gives for each batch. `Load` is the read
every batch handler starts with; `reserveLoad`/`WriteReserved`/`reserveFgBatch`,
`cancelLoad`/`cancelReadBatch`/`cancelReservation`, `createDispatch` /
`lineReadBatch` / `lineReadClaims` / `processDispatchLineItem` /
`dispatchRecompute` are the handlers' steps, `Commit` the end of the transaction
with the sales order's status. The reservation ids grow, so "oldest first" is
the order of ids. A QC inspection is immutable, hence the constant `PassedQty`.
`createDispatch` starts its transaction with the insert of the dispatch, whose
`dispatchNo` is unique and follows the largest committed one of the day: a second
dispatch waits there, gets P2002 when the first commits, and starts over with
nothing read. Two dispatches are in flight beyond that insert only if their
numbers are of two dates (`InDispatch`, `Days`).

**`FgPool`** – the abstract specification: a pool of stock that is received,
claimed for a sales order, given back, shipped, held and released. It knows no
requests, no counters and no statuses. `FgStock!ImplementsPool` is the refinement
(`free` is the available quantity, `claim` the Active reservations of an order).
That a hold freezes the stock and only a release ends it is part of the pool.
One request at a time implements it; two do not (below).

**`PoReceipt`** – `purchaseOrders` after creation, `grn`, `inventoryCrediting`,
`adjustStock`. A GRN is one transaction: `grnLoad` outside (status,
`prepareGrnLines`), then for each line `grnReadStock` and `createGrnLine`, then
`grnRecompute` and `Commit`. The transaction starts with the insert of the GRN,
whose `grnNo` is unique like a dispatch number, so the first `grnReadStock` of a
receipt waits while another one of its day is past it (`Numbered`, `Days`); what it
prepared outside, it keeps over the retry. `heldFrom` is the old value of the newest `OnHold`
entry of the amendment history, which is all `getPreHoldStatus` reads of it.
Quantities are whole units of price 1; the 0.01 tolerances never decide then.

**`Sourcing`** – `purchaseIndents`, `rfq`, `createFromRfq`. The terms of a
quotation are its rate; `pos` are the orders made from RFQs.

**`OrderFlow`** – `orders`, the persistence of `scheduling`, `qc`, and the status
`ctb` leaves. A scheduling run takes any sequence of eligible orders as the
result of the pass over them (`gatherSchedulingInputs`), so what is shown holds
whatever the engine proposes. `createScheduleRow`, `scheduleReadStatus`,
`scheduleWriteStatus` and `scheduleCleanup` are its steps for one order. The clean-up
is best effort, so it may fail and leave its row (`scheduleCleanupFails`); `Crash`
ends the process in a run. `faults` counts both.

**`Requisition`** – what the open orders need and what is asked for: the snapshot
of `bomExplosion` (`snap[o]`: the copies of the explosion in
`order_bom_requirements`), `ctb`, `purchaseRequisitions`, `adjustStock`. A
generate reads the snapshots one order after the other while the stock
(`fetchCurrentStockByPart`) and the pipeline (`fetchPending`) are read at any
moment beside that, as `Promise.all` allows; then it nets (`netLines`) and
inserts under a number, again and again with the same lines. A clear-to-build
check judges the stock it read (`liveEvaluate`), takes the rows of its orders, sees
which shortage rows there are to delete, and commits the status and new rows
(`commitVerdicts`); `ctb` and `short` remember whose evaluation they are of. Sums of quantities count
units (`Total`, `Asked`), as everywhere in the project, so that they can be reasoned
about. A change of status
writes the row, then credits one line after the other (`creditRead`,
`creditWrite`), and commits. `Need` is what the explosion gives. What
`Explosion` checks about it is not needed here.

**`SequentialId`** – `generateWithRetry` and `nextSequentialId`, with any number of
requests at a time. An attempt fails because the number is taken (`Collide`,
`GiveUp`) or on another unique column of the row (`CollideElsewhere`,
`GiveUpElsewhere`); the code does not tell these apart. It is the abstract specification of numbering:
`Requisition!ImplementsNumbering` maps the requisitions and the requests in
their retry loop to it, and the other documents (daily logs, GRNs, purchase
orders, batches, ...) call the same two functions.

**`Explosion`** – `fetchBomTree` (`FetchLevel`, one level a query) and `explodeBom`
(`Enter`, `Row`, `Return`, `Reject`: the recursive walk with its frames as
`stack`). The initial state is any table of BOM rows of the bounded size. The
table does not change during an explosion (an edit between two levels gives a
mixture of both tables; nothing in the code promises otherwise).

**`Planning`** – the greedy pass of `schedulingEngine`, the run that persists it
(`gatherOrders`, `pass`, `createRow`, `toScheduled`, `cleanup`), `unscheduleOrder`,
and `generateProductionPlan` with `distributeDailyPlanQty`. It has what
`OrderFlow` abstracts (the result of the pass, in days and quantities) and
abstracts what that has (the history, crashes and failed clean-ups, two runs at a time): the statuses
behind `Scheduled` are one, `Closed`. Dates are day numbers, quantities
hundredths, outputs fractions, so rounding is the code's.

**`Footprints`** – every service function the browser calls, as the facts its
answer is computed from or the facts it changes and the roles its route admits.
**`QueryHooks`** – the key factories and hooks of the browser: a query is a key
and the facts of its endpoint, a mutation the facts of its endpoint and the keys
its `onSuccess` invalidates or removes. **`Screens`** – the pages and their parts
(queries shown, writes offered and where each leads, links), the navigation and
`App`, by role. These three have no state; they are what **`Browser`** runs: a
user at a page, one entry of the cache, one load and one write under way, a
server that answers late, fails or loses answers, other clients. A behaviour
follows one *scene*, a pair of a write and a query that depends on what it
changes; entries of the cache do not influence each other, so pairs are enough.

`FgStockProofs`, `PoReceiptProofs`, `SourcingProofs`, `OrderFlowProofs`,
`RequisitionProofs`, `PlanningProofs`, `ExplosionProofs` and `BrowserProofs` hold
the proofs. The `MC...` modules give the constants of the small instances.

Guards that are bounds and not code: `MaxReservations`, `MaxLineItems`,
`MaxHolds` and `MaxLines` (FgStock); `Limits` (PoReceipt: the orders, GRN lines,
lines of a GRN and stock, and OrderFlow: the orders, status changes, serials and
faults, by the number of requests at a time); `MaxPos` and `Asked` (Sourcing);
`MaxStock`, `MaxCopies`, `MaxPrs`, `Coming` and `Kinds` (Requisition: which orders
come and which kinds of requests mix); `MaxRows` (Explosion); `LastDay`, `Horizon`
and `MaxPlans` (Planning); `MaxWrites` (Browser). `Days` (FgStock, PoReceipt) is no such
bound: it is 1, or 2 for requests around a midnight. With the bounds reached, or at
its end, a model may stop, so all but OrderFlow are run without the deadlock
check.

## The runs

| run | instance | checks |
|---|---|---|
| `fg_shared` | 1 client, 2 batches of 2 and 1, 2 sales orders of 2 | `ReservedIsActiveSum`, `LedgerReplaysToRow`, `StatusOfItsStage`, `ImplementsPool`, `ReservationsEndOnce` |
| `fg_races` | 2 clients, 1 batch of 2 | `TypeOK`, `LedgerMatchesLineItems`, `DispatchStatusAgrees`, `OnlyOwnReservations`, `OldestFirst` |
| `po_receipt` | 1 client on an order of a raw material line and a general one, or 2 on an order of one general line | `StockMatchesLedger`, `ReceiptStatusSound`, `LineCountersMatchGrns`, `StockIsAccepted`, `NeverGoesBack`, `ReceiptCompletes`, `ExcessIsApproved` |
| `sourcing` | 1 indent; 1 client and 2 RFQs, or 2 clients and 1 RFQ | `OneSelected`, `ConvertsOnce`, `ConvertedIsOrdered`, `OnlyApprovedIsSourced`, `OrderedAsSelected` |
| `ord_flow` | 1 client on 2 orders, or 2 clients on 1 order, with 1 fault; fairness | `HistoryIsGapFree`, `OrphansWithinFaults`, `SerialsAreUnique`, `ClosedHasSummary`, `RunEnds` |
| `requisition` | 1 client on 2 orders, or 2 clients on 1; one part, one component without a part | `CopiesWithinRequests`, `FulfilledIsCredited`, `ShortagesFitVerdict`, `AsksForShortfall`, `ImplementsNumbering` |
| `explosion` | all BOMs of 3 SKUs with at most 2 rows each, depth limit 2 | `ExplosionIsPathSum`, `RejectsOnlyBadBoms`, `RecursionIsBounded` |
| `planning` | 3 orders, 2 lines, 2 days of the calendar | `NoDoubleBooking`, `PlanCoversOrder` |
| `browser` | every pair of an offered write and a query it touches, shown where the write is made or leads | `RefreshesAfterOwnWrite`, `OffersAreAccepted`, `LinksResolve` |
| `fg_release`, `fg_ship_race`, `browser_credit` | smallest instance that shows it | one property each, violated ([below](#what-interleaving-breaks), [and here](#other-observations)) |

Why the bounds are enough for what each run asks:

- *fg_shared*: two sales orders compete for a batch of two and one of them can
  spread over both batches; a dispatch takes part of a reservation and then free
  stock, and a batch runs empty. Two reservations and two line items cover
  reserve, partly ship, reserve again, cancel the rest; one hold is enough for the
  label a release leaves. `MaxLines = 2` puts one batch into a dispatch twice, or
  both into one.
- *fg_races*: two units of one batch, and quantities of one, let two requests
  both fit, or only one of them. Every pair of handlers meets in every order,
  including two statements of one transaction around a commit of the other. With
  `Days = 2` two dispatches meet as well, as they do around a midnight; the ledger
  and the order of consumption must stand that too.
- *po_receipt*: two lines so that "all" and "some" differ, in one note or two;
  ordered 1 or 2 and received one at a time, so lines are partly received,
  completely received and over-received, amended up and down. With two requests,
  two GRN lines let a receipt and an inspection, two inspections of one line, or two
  receipts (past their checks; past their inserts only around a midnight, `Days = 2`)
  meet; the item is a general one there, since raw material stock is
  known not to survive (below).
- *sourcing*: two RFQs of one indent are the case the repository's own README
  worries about; two suppliers and two rates make a change of selection and of
  terms visible.
- *ord_flow*: four status changes, with two requests five, take an order to Closed
  by the short cut, or most of the way with a detour. One fault is a death of the
  process or a failed clean-up, also with one request at a time. `QtyOf = 2` makes a serial range more than the
  number `nextval` returns.
- *requisition*: an order that needs the part and an order that also needs a
  component without one; a stock of at most 2 is what both need, so it is short,
  exact and enough. Two requisitions show a second one asking for the rest. Four
  names for copies are more than two requests and a running delete can use. Two
  attempts let a retry succeed and fail. The mixes keep apart requests that touch
  nothing in common; checks mix with snapshots (two checks at a time included) and
  with adjustments of the stock they read.
- *explosion*: depth limit 2 with chains of up to 3 SKUs is below, at and beyond
  the limit; three SKUs with two rows have diamonds, repeated rows, self-loops and
  cycles through the root and beside it. `Unit = 2` makes `round3` round.
- *planning*: an order of high priority and two that are equally urgent, one of
  them for one line only; outputs of 4/3, 1/3 and 1 pieces a day, with workers
  missing on a day, so days are rounded up and quantities rounded both ways. A run
  comes while all schedules end within the horizon, so that runs follow runs.
- *browser*: two changes at the server are the user's own and one of somebody
  else's, or two of the user's. Scenes are generated from `Screens`, not picked.

**Fairness** is assumed in `ord_flow` only: `WF_vars(Advance(c))`, a request
that has begun goes on. The event loop resumes a handler after every await, a
statement that cannot finish times out, and a failed statement is the `catch`
branch, which is an action too (`createScheduleRowFails`, `scheduleWriteFails`).
A new request is never forced, and neither is a fault.

### What interleaving breaks

With two requests at a time the following is what the code does. It was found by
checking the same property without its `Alone`, or under two clients;
`fg_ship_race` is kept as a run, with the place that says otherwise under
`findings`. Two dispatches of one day, and two receipts of one day, do not meet: the
insert of their number keeps the second one out, and its retry reads everything
its transaction reads anew. What a handler read *before* the transaction it keeps,
like the check of an excess.

| what happens | where | property that fails |
|---|---|---|
| a reserve commits between a dispatch's read of the batch and its read of the order's reservations, is counted as free and as reserved, and more is shipped than QC passed (`fg_ship_race`) | `fgDispatch.service.ts:125-167` | `ShippedWithinPassed` |
| two dispatches around a midnight, whose numbers differ, read the same batch row | `fgDispatch.service.ts:125-203` | `ShippedWithinPassed` |
| two reserves read the same row; `reservedQty` counts one | `fgBatch.service.ts:579-629` | `ReservedIsActiveSum` |
| a reserve, cancel or dispatch overwrites a hold that came after its read | `fgBatch.service.ts:608-629` | `ImplementsPool` |
| two cancels of one reservation both give it back | `fgReservation.service.ts:51-104` | `ReservationsEndOnce` |
| two requests on different batches of one sales order each miss the other in its status | `salesOrders.service.ts:84-145` | `StatusOfItsStage` |
| a transfer moves a batch that was dispatched since it was read | `fgBatch.service.ts:451-488` | not stated here |
| two conversions of one indent make two orders | `purchaseOrders.service.ts:266-325` | `ConvertsOnce` |
| two selections leave two selected quotations | `rfq.service.ts:255-265` | `OneSelected` |
| an edit changes the quotation that was selected since | `rfq.service.ts:155-180` | `OrderedAsSelected` |
| an approval and a rejection are both executed | `purchaseIndents.service.ts:76-91` | not stated here |
| two credits of a raw material (a receipt and an inspection, a requisition and an adjustment) lose one | `rmInventory.service.ts:60-93` | `StockMatchesLedger` |
| two receipts that each fit exceed the ordered quantity unapproved | `grn.service.ts:104` | `ExcessIsApproved` |
| an order is put on hold between the check of a receipt and its recomputation, which then does nothing, and resumes PartiallyReceived although it is complete | `purchaseOrders.service.ts:792` | `ReceiptCompletes` |
| an amendment lowers the last open line after the recomputation has read it | `purchaseOrders.service.ts:784-804` | `ReceiptCompletes` |
| a status change read before another one leaves a terminal status again, or logs a wrong hold origin | `purchaseOrders.service.ts:546-594` | `NeverGoesBack` |
| two amendments each total the other's line as it was | `purchaseOrders.service.ts:734-740` | not stated here |
| a receipt that was checked before a cancellation books goods on the cancelled order | `grn.service.ts:89-197` | not stated here |
| a status write from a stale read breaks the chain of an order's history; if it overwrites Closed, closing again fails on the unique summary | `orders.service.ts:153-178` | `HistoryIsGapFree` |
| un-scheduling puts an order that has begun to run back to Open | `scheduling.service.ts:301-333` | `HistoryIsGapFree` |
| a status change read before a run scheduled the order writes its own status over Scheduled, and the order waits again with a row that keeps it out of every later run | `orders.service.ts:153-178` | `OrphansWithinFaults` |
| the cleanup of a failed order deletes by order id, also the row another run has made since | `scheduling.service.ts:223` | not stated here |
| `nextval` of one request between `nextval` and `setval` of another | `qc.service.ts:37-41` (documented in `src/backend/README.md:1348-1358`) | `SerialsAreUnique` |
| two requests that find no snapshot, or recompute it, leave two copies; the demand of the order is then counted twice until it is recomputed or deleted | `bomExplosion.service.ts:169-200` | `CopiesWithinRequests` bounds it: never more copies than requests at a time |
| two generates ask for the same shortfall | `purchaseRequisitions.service.ts:123-180` | `AsksForShortfall` |
| a retried insert keeps the lines it netted before the requisition that took its number | `purchaseRequisitions.service.ts:139-180` | `AsksForShortfall` |
| two changes to Fulfilled both credit the stock; a change to Cancelled that read Sent is written over Approved and Fulfilled, and the credit stays | `purchaseRequisitions.service.ts:222-265` | `FulfilledIsCredited` (at least once is kept) |
| a clear-to-build verdict is written over stock that has changed since it was read | `ctb.service.ts:77-100` | not stated here |
| two scheduling runs read the same availability and put different orders on one line for the same days | `scheduling.service.ts:41-66` | `NoDoubleBooking` (one run at a time in the model) |
| two generated plans of an order that was re-scheduled in between can both stay | `productionPlan.service.ts:91-98` | not stated here (one at a time in the model) |

What survives two clients is what is incremented in place, protected by a unique
column, or computed under the lock of one row: the counters of an order line, the
single inspection, the ledger of a dispatch, the dispatch status, whose
reservations a dispatch uses, the numbering of documents, that a credit is made at
least once, that a clear-to-build status and its shortage rows are of one evaluation,
the closure summary.

### Other observations

Without a second request:

- `releaseHoldFgBatch` derives the label from `reservedQty` alone (`fg_release`).
- `updateSalesOrder` changes the ordered quantity and not the status derived
  from it; `StatusOfItsStage` therefore speaks of stages only.
- `deleteSalesOrder` asks for reservations only: a sales order whose history is
  an unreserved dispatch is deleted, and the dispatch keeps a null reference.
- An amendment that lowers a line to what has come in leaves the order open with
  nothing to receive.
- A GRN line whose inspection held something back is in status Hold and can never
  be inspected again.
- A process that dies between a schedule row and the status change leaves the
  row, and the order is never eligible again; the clean-up in the code covers an
  error, not a death (`scheduling.service.ts:168-173`), and when the delete fails too,
  as it well may on the connection that just failed, its error is swallowed and
  the row stays (`scheduling.service.ts:223`). `OrphansWithinFaults` allows one row
  for each of these and no other.
- **`browser_credit`**: after a requisition became Fulfilled, the material
  dashboard goes on showing the summary of before. The comment above the
  invalidations says that every view of stock or critical status is refreshed;
  `materialsKeys.summary()` is not among them
  (`use-purchase-requisitions.ts:82-95`).
- Other writes leave pages elsewhere outdated, for which nothing in the code
  promises otherwise: about two hundred pairs of a write and a page it neither is
  made on nor leads to. They are bounded by `staleTime`, thirty seconds, and by
  the next mount of the page, so `RefreshesAfterOwnWrite` is stated for the
  pages where the user is.
- "Recheck all" of the clear-to-build dashboard is offered to every role and
  accepted from two (`OffersAreAccepted` excepts it).
- A component without a part is never netted against pending requisitions: it is
  asked for again by every generate (`netRequirementCalculator.ts:46-49`), so
  "calling generate twice in a row" is idempotent only for linked parts, and
  `AsksForShortfall` speaks of parts.
- `sequentialIdGenerator.ts:40-42` takes every unique violation for a collision
  of the generated number. A duplicate of another unique column (a QC batch of an
  order that has one) is retried to the end and answered with "unable to allocate
  a unique ID", although nobody overtook the request: the comment says such a
  violation "always means" a collision. `SequentialId` has these retries, and
  `GivesUpForAReason` says what is left of that answer's meaning.
- `maxDepthReached` is the deepest level visited; its comment
  (`bomExplosionEngine.ts:42`) says the deepest `level` in `lines`. They differ
  when a part is found first higher up, since an aggregated line keeps its level.
- A line is free on the day after its last schedule, also when that day is past:
  the next order on it starts in the past (`scheduling.service.ts:63`).
- A plan stays as it is when its order is un-scheduled or scheduled anew.
- `completionForecast.ts` rounds the remaining days to hundredths before it
  rounds them up: 751 pieces at 250 a day are 3.00 days, and 3.

## The proofs

`FgStockProofs` proves about `FgStock`, for every number of clients, batches,
sales orders and every bound, from `FgAssumption` alone:

- `TypeCorrect`: `Spec => []TypeOK`. `TypeOK` is inductive because it also says
  what a request holds between its steps: the rows it has read have their types,
  the reservations it names exist, and whatever has a `pc` past the first step has
  what that step put there (`RequestOK`). One lemma for each action, one step
  for each table it can touch.
- `DrawsOnlyOwn`: `Spec => [][...]`, the property `OnlyOwnReservations`: with any
  number of requests in flight, a reservation only shrinks in a step that adds
  a line item of that reservation's own sales order and batch. `TypeOK` is not
  enough: a shrink happens at the `Commit` of a dispatch, many steps after the
  reservations were chosen. The strengthening `OwnDraws` says of every
  uncommitted transaction that each reservation it has written a smaller quantity
  for belongs to its sales order and is matched by a line item it has written
  for the same batch, and that the claims it has read are of the batch it is
  about to consume from. Each statement of the dispatch preserves that; the commit
  uses it; and another client's commit does not disturb it, because the rows a
  transaction has written are locked against the others (`ResvFree`).
- `DispatchStatusTrue` (`DispatchStatusAgrees`), with any number of requests in flight.
  `RowsAgree` says it of every version of a row there is: in the table, read by a
  request, written and not committed.
- `ConsumesOldestFirst` (`OldestFirst`), with any number of requests. `OldestDraws`
  says of an uncommitted dispatch that what it has written to the reservations is a use
  from the oldest on, and that the claims of the line it is at are the ones it read in
  order of age; a reservation that another request adds in between is younger.
- `LedgerTellsShipments` (`LedgerMatchesLineItems`), with any number of requests. The
  row's own counter can lose a dispatch (of two around a midnight); the ledger cannot. `LogsAgree` says of each
  transaction that a log entry it holds counts the committed line items of the batch and
  its own, and that it has the lock of each batch it logs for, so no commit
  comes in between.

The second half of `FgStockProofs` is about what needs requests to come one at a time
(`OneAtATime`: at most one client, as in `fg_shared`; any batches, sales orders,
quantities and bounds, any number of lines in a dispatch):

- `ReservedAddsUp` (`ReservedIsActiveSum`), `LedgerReplays` (`LedgerReplaysToRow`: the
  place, the hold and the dispatched quantity of a row are what its movements add up
  to, the reserved one within what they allow), `ShipsWithinPassed`,
  `StatusFollowsRows` (`StatusOfItsStage`) and `EndedStaysEnded` (`ReservationsEndOnce`).
  They hold between requests and are broken and repaired within one, so none is
  inductive. `Alone` is: the three tables agree (`BooksOK`, `ResvOK`, `OrdersOK`), and
  for each point of each handler `RequestSees` says what the request has read and what
  it has written on top of the tables. For a dispatch that is a statement about each
  batch at each line: what it has shipped so far, how much of that came out of its
  order's claim (`Draws`), and that the tables *as its transaction sees them* agree
  again. `LineReads`, `LineWrites` and `DispatchLine` carry it over one line, which uses
  up the oldest claims first and the free stock then (`ConsumedSum`: the rows a line
  leaves behind add up to that much less, all but the youngest it touches used up).
  `ShipsWithinPassed` is the other side of `fg_ship_race`: the same
  `ShippedWithinPassed` that a reserve between two reads of a dispatch breaks holds
  for one request at a time.
- `ServesPool` (`ImplementsPool`): the refinement. A request's reads and writes change
  nothing the pool shows; a generate is `Receive`, hold and release are themselves,
  the commit of a reserve is `Claim`, of a cancel `GiveBack`, of a dispatch `Ship` with
  the quantities its lines add up to. The guards of the pool's actions (enough free stock, nothing moves
  while it is held) are what `Alone` says at the commit.

`RequisitionProofs` proves about `Requisition`, for any finite sets of clients and orders,
any parts, needs, attempts and bounds:

- `CopiesAreBounded` (`CopiesWithinRequests`), whatever requests run beside each other.
  A cardinality is not inductive; `CopiesOwned` is: the copies of an order's explosion can
  be assigned to different requests so that a request which will still add one is
  going to delete the one assigned to it. A request that adds a copy takes it over
  and the others keep theirs.
- `CreditsAreCovered` (`FulfilledIsCredited`), whatever runs beside each other.
  The commit that fulfils a requisition credits its lines with it. If the requisition
  was fulfilled already, or is overwritten by a stale change later, the credit stays
  and the sum of the fulfilled ones does not grow; with one request at a time neither
  can be, because the status it has read is still the one there is (`AloneUpToDate`).
- `VerdictsKeepTheirRows` (`ShortagesFitVerdict`), whatever runs beside each other. A
  request that has taken the rows of its orders is going to delete the shortage rows
  it saw; these are still all there are of its orders when it commits, because no
  other request has the rows of any of them. Without that lock the rows of two
  evaluations mix, as the mutant shows.
- `AsksExactly` (`AsksForShortfall`) with one
  request at a time. `AloneUpToDate` says what a request has read is still so: each
  order read has one copy, stock and pipeline are as they were whichever of the three
  reads came first, and the netted lines are the shortfall, also after a failed insert.
  That the insert then lifts the part to exactly the need is arithmetic on sums
  (`InsertCovers`).
- `NumbersRows` (`ImplementsNumbering`): the refinement of `SequentialId`. `ShownIds` and
  `ShownLoop` are what the requisitions and the requests in the retry loop look like
  from there; the first read, each collision and each retry are its steps, everything
  else is a stutter.

What that numbering gives is proved at the end of the module about `SequentialId` itself
(its instance `Ids`, over variables of its own), for every number of requests and of
attempts. Through `ImplementsNumbering` it holds of requisitions, and it is what the
other documents, numbered by the same two functions, rely on:

- `IdsAreGapFree`: the n-th row of a day carries the number n. The number a request
  has read is at most one more than the number of rows (`Trying`, part of
  `NumberInv`), so an insert that the unique column lets pass is the next one.
- `GivingUpIsExplained` (`GivesUpForAReason`): a request that is answered 409 has spent
  each attempt on a violation of another unique column, or on a number that a row of
  others took after the request came, because each collision shows a row that was
  inserted after the number was read; the invariant (`CrowdedOut`) counts them. Without
  violations elsewhere the answer means contention, as its text says.

`ExplosionProofs` proves about `Explosion`, for every finite set of products, BOM,
quantity and limit:

- `RecursionBounded`: `Spec => []RecursionIsBounded`. The property is not inductive
  by itself: it says of the SKUs of the open walks what the code checks of a
  `path`. `PathsInv` ties them: the path of the i-th frame is the sequence of the
  SKUs of the first i frames, the path of a call about to be entered is that of
  the innermost frame, and a walk before its first call has no frames.
  `ReadInv` and `WalkType` say that what a frame names has been read. One lemma for
  each action.
- `OnlyBadBomsAreRefused` (`RejectsOnlyBadBoms`). `Links` says that the open walks are a
  chain: each one was entered from the row its caller is in, with the quantity that row
  requires (`Leads`). A call that meets a SKU of the chain closes a cycle, no longer
  than there are products because the SKUs are different; a call too deep is the last
  of a chain of `MaxDepth` parts (`OpenChain`, `Within`).
- `AnswersAreWhole` (`ExplosionIsPathSum`). Of the ways down to a row, `Counted` says which
  ones a walk in the middle of its work has seen: those that leave the open walks at a row
  already passed, and those to the rows the walks are in. A row counts exactly one way
  more, entering and returning count none (`RowCounts`, `EnterCounts`, `ReturnCounts`), and
  when the walk of the root returns all ways are counted (`AllCounted`). `LineSum` says
  that the lines are those of the counted ways: each sum is one over the counted ways to
  that part. It needs `Levels`, where fetch and walk meet: every SKU read has a level, the
  level of a part is at most one more, and what the fetch leaves out is of a level
  beyond `MaxDepth`, so that a sub-assembly that was not read is never taken for a part
  (with the fetch one level shorter it would be). What recursive functions (`Below`,
  `RequiredOn`) yield is proved from the existence of a solution, by the least argument
  without one.

`PoReceiptProofs` proves about `PoReceipt`, for any finite set of clients and of order
lines, any orders, items and bounds:

- `ReceiptStatusTrue`, `OrdersMoveForward`, `LastReceiptCloses`, `ExcessNeedsApproval`
  (the properties `ReceiptStatusSound`, `NeverGoesBack`, `ReceiptCompletes`,
  `ExcessIsApproved`) with one request at a time. The code reads an order, and
  commits many statements later what it concluded; so the invariant `AloneInv` says
  what a request between its statements may still believe (`Knows`): that a change of
  status is one allowed from the status the order has; that an amendment leaves what
  was received alone; that a receipt is about lines of one order, each once, that each
  line it has written owes its counter to one GRN line, and that excess is still what
  was called excess. `StatusTrue` adds to the property what a hold remembers.
- `StockIsItsLedger` (`StockMatchesLedger`) with one request at a time. `StockInv` says
  that the stock a request has read is the stock as its own transaction sees it.

Of the same module, **whatever requests run beside each other**:

- `CountersAreSums` and `GeneralStockIsAccepted` (`LineCountersMatchGrns`,
  `StockIsAccepted`). A sum counts units, so the lemmas on `Total` (two disjoint sets,
  one more element, one value raised, the same summands under other numbers) come from
  cardinalities and need no induction. `CountInv` adds what makes the sums inductive:
  a transaction sees each counter, and the stock of each general item, as the committed
  row plus the GRN lines it has still to commit (`Pending`), and two transactions hold
  locks on different rows (`Apart`), so that a commit overwrites no row another one
  has counted on. It needs that an inspection is inserted once per GRN line and that
  `adjustStock` is for raw materials only; without the in-place increments it fails.

`SourcingProofs` proves about `Sourcing`, for any indents, RFQs, suppliers and rates:

- `ConvertedHasOrder` and `ApprovalComesFirst` (`ConvertedIsOrdered`,
  `OnlyApprovedIsSourced`), whatever runs beside each other. A status can be
  overwritten by a request that read an older one, but an approval stays logged, an
  RFQ is not written twice and an order is not deleted: `SourcedInv` rests on these
  (`Relies`).
- `SelectionIsOne`, `OneOrderPerIndent`, `TermsAsSelected` (`OneSelected`,
  `ConvertsOnce`, `OrderedAsSelected`) with one request at a time, from what such a
  request knows: that the quotations it is about to deselect are the selected ones,
  and that the indent it converts is not converted yet.

`OrderFlowProofs` proves about `OrderFlow`, for any finite set of clients, any orders and
bounds:

- `ClosedIsSummarised` (`ClosedHasSummary`), whatever runs beside each other: status
  and summary are written by one statement.
- `HistoryTellsStatus` (`HistoryIsGapFree`) with one request at a time: `RowsInv` and
  `AloneKnows` say that the status a request logs as the old one is the one the order
  has, at every point of a scheduling run.
- `RunsLeaveNoOrphan` (`OrphansWithinFaults`) with one request at a time, for any number
  of deaths and failed clean-ups: a schedule row without its status belongs to a run
  that is about to set it or to remove the row, or one of the faults left it there.
- `SerialsAreGivenOnce` (`SerialsAreUnique`) with one request at a time: the range a
  request has reserved is past every range given (`Numbering`).

`PlanningProofs` proves about `Planning`, for any finite sets of orders and lines, any
quantities, takt times, efficiencies and attendances and any number of days:

- `LinesAreNotDoubleBooked` (`NoDoubleBooking`). A run computes its assignments at
  once and persists them one by one, while rows are also removed, so the invariant
  `Booked` speaks of the rows there are (`Apart`), of what the run has still to persist
  (`LeftOK`: on a line each one starts after the one before has ended) and of both
  (`Ahead`: all that is left starts after every row of its line has ended). `AvailableIs`
  and `PassIsOK` show that a pass yields this: the loop over the sorted orders books a
  line from the day after its last row and moves that day on (`AssignedOK`), the best
  candidate is one of the candidates (`Picked`), and a candidate is long enough
  for its order (`CandidateOK`). The loop is a recursive function of the position in the list, and the
  induction over it is by the least position at which a claim fails.
- `PlansCoverOrders` (`PlanCoversOrder`): the days of a plan are differences of
  quantities left, rounded, which telescope to the quantity of the order
  (`PlannedSum`); a row is long enough for its order (`Enough`, kept from the pass
  to the plan), which bounds the last day.

`BrowserProofs` proves about `Browser`, for any scenes and any number of changes at the
server:

- `NamedKeysAreRefreshed` (`RefreshesAfterOwnWrite`), for scenes in which the hook of the
  write names the key of the query (`KeysAreNamed`: it invalidates or removes it). This
  splits the question in two. That naming the key is *enough* is about the cache, the
  network and the user moving between pages, and is proved: what is older than the last
  answered write is marked (`MarkedInv`), what is marked and on the screen is being loaded
  or says that it failed (`LoadingInv`), and a load the server had answered before the
  write's answer is known for one (`MissedInv`). All three are needed at once, since an
  answer may arrive while a load is under way and may itself lead to another page. That the
  hooks *do* name every key their pages show is about finite tables; the run goes through
  them all, and each of its scenes meets `KeysAreNamed` (one that does not violates the
  property there, as its mutant shows, and as `browser_credit` shows of the summary).

Every property of `FgStock`, `PoReceipt`, `Sourcing`, `Requisition`, `Explosion` and
`Planning` that a run checks is also a theorem, for every value of the constants.
Only model-checked:

- `RunEnds` of `OrderFlow`: liveness, like everything that depends on fairness, is beyond
  the prover.
- `OffersAreAccepted` and `LinksResolve` of `Browser`, and that its scenes meet
  `KeysAreNamed`: they are about finite tables with nothing to generalise, and TLC goes
  through all of them.
- The three violations, which a finite behaviour shows.

## Not modelled

- **Prices, tolerances and the landed cost comparison** (`lineTotal`,
  `landedCostCalculator`): whole units of price 1. The comparisons with 0.01 do
  not decide on whole units.
- **The figures of the reports** (OEE, risk, dashboards, plan against actual,
  forecast): pure arithmetic over rows others keep. What they are computed
  *from* is in `Footprints`, since the cache depends on it.
- **`updateRmInventory`** sets the stock absolutely without a ledger entry, by
  design; a model with it could state nothing about the ledger.
- **Edits of a BOM during an explosion**, and rounding of binary fractions: `round3`
  and `round2` are the rounding of exact numbers here.
- **Two scheduling runs, two plans or two un-schedulings at a time** in
  `Planning` (see the table above).
- **Login, tokens, password recovery, rate limits** and the validation of request
  bodies: what validation guarantees is built into the inputs of the models.
- **Forms, filters, paging and layout** of the browser; suppliers, purchase items,
  indents, RFQs, purchase orders and GRNs have no screens.
- **Connection retries** repeat reads only; a repeated read is one read here.

## Plan

Done: `FgStock`, `FgPool`, `PoReceipt`, `Sourcing`, `OrderFlow`, `Requisition`,
`SequentialId`, `Explosion`, `Planning`, and the browser. Left, in this order:

1. `Planning` with two runs at a time, in which `NoDoubleBooking` becomes a
   statement about orders of one run.
2. The edit windows of daily logs and QC inspections, and the sessions of `auth`.
