----------------------------- MODULE Requisition ------------------------------
(***************************************************************************)
(* What the open orders need, what is asked for, and what has arrived: the *)
(* cached BOM requirement of each order (backend module bomExplosion), the *)
(* clear-to-build verdict (ctb), the purchase requisitions generated over  *)
(* all open orders (purchaseRequisitions, numbered by SequentialId) and    *)
(* the raw material stock they are credited to (rmInventory).              *)
(*                                                                         *)
(* As in the other modules a handler is one client's request, split where  *)
(* the code awaits a read it decides on later.  How many requests there    *)
(* are at a time is chosen at the start.                                   *)
(***************************************************************************)
EXTENDS Integers, Sequences, FiniteSetsExt

CONSTANTS
  Clients,      \* requests that can be in flight at the same time
  Orders,       \* production orders
  Parts,        \* parts with a raw material row
  Unlinked,     \* a component without one: its partId is null
  Need,         \* what the explosion of each order's BOM gives, by component
  Deltas,       \* stock adjustments tried
  MaxAttempts,  \* attempts to insert under a fresh number; 5 in the code
  MaxStock,     \* bound: stock of a part
  MaxCopies,    \* bound: identifiers of snapshots of an order
  MaxPrs,       \* bound: requisitions
  Coming,       \* bound: the orders that come, by the number of requests at a time
  Kinds         \* bound: the mixes of requests that come, by that number

Keys == Parts \cup {Unlinked}

ASSUME RequisitionAssumption ==
  /\ Unlinked \notin Parts /\ Need \in [Orders -> [Keys -> Nat]] /\ Deltas \subseteq Int
  /\ MaxAttempts \in Nat \ {0} /\ MaxStock \in Nat /\ MaxCopies \in Nat /\ MaxPrs \in Nat
  /\ IsFiniteSet(Clients) /\ IsFiniteSet(Orders)
  /\ Coming \in [1..Cardinality(Clients) -> SUBSET Orders]

VARIABLES
  order,     \* the status of each order, as far as it matters here
  snap,      \* order_bom_requirements: the copies of an order's explosion in it
  stock,     \* rm_inventory.stock
  ctb,       \* orders.ctb_status, and the evaluation that set it (ctb_checked_at)
  short,     \* order_ctb_shortages, with the evaluation they are of (evaluated_at)
  pr,        \* purchase_requisitions with their line items
  credited,  \* the sum of the rm_transactions "PR Fulfillment: ..." of each part
  req,       \* what each client's request has read and not yet committed
  kinds      \* bound: the kinds of requests that come

vars == <<order, snap, stock, ctb, short, pr, credited, req, kinds>>
tables == <<order, snap, stock, ctb, short, pr, credited>>

-----------------------------------------------------------------------------
(* Rows *)

PrStatus == {"Draft", "Sent", "Approved", "Fulfilled", "Cancelled"}

Open == {o \in Orders : order[o] = "Open"}

\* Mutant: a requisition that was fulfilled can be cancelled.
AllowedCancelsFulfilled(s) ==
  CASE s = "Draft" -> {"Sent", "Cancelled"} [] s = "Sent" -> {"Approved", "Cancelled"}
    [] s = "Approved" -> {"Fulfilled"} [] s = "Fulfilled" -> {"Cancelled"} [] OTHER -> {}

getAllowedNextStatuses(s) ==
  CASE s = "Draft" -> {"Sent", "Cancelled"} [] s = "Sent" -> {"Approved", "Cancelled"}
    [] s = "Approved" -> {"Fulfilled"} [] OTHER -> {}

\* Asked for and not yet received.
InPipeline(rows) == {i \in DOMAIN rows : rows[i].status \in {"Draft", "Sent", "Approved"}}

\* The sum of f over ids, as the number of the units it counts.
Total(f, ids) == Cardinality(UNION {{i} \X (1..f[i]) : i \in ids})

\* What the requisitions is ask for of a part.
Asked(rows, is, p) == Total([i \in is |-> rows[i].lines[p]], is)

\* Mutant: what was fulfilled is still pending.
PendingWithFulfilled(rows) == [p \in Parts |->
  Asked(rows, {i \in DOMAIN rows : rows[i].status # "Cancelled"}, p)]

sumAlreadyRequisitionedByPart(rows) == [p \in Parts |-> Asked(rows, InPipeline(rows), p)]

\* What the orders in copies need when copies[o] copies of the explosion of o
\* are in the table: requirements are added up row by row.
sumActiveOrderRequirements(copies) == [k \in Keys |->
  Total([o \in DOMAIN copies |-> copies[o] * Need[o][k]], DOMAIN copies)]

\* Per component, what the demand exceeds stock and pending requisitions by;
\* nothing covers a component without a part.
calculateNetPurchaseRequirement(demand, have, pending) == [k \in Keys |->
  IF k = Unlinked THEN demand[k]
  ELSE Max({0, demand[k] - have[k] - pending[k]})]

\* The components an order is short of; each row is judged by itself.
ShortOf(o, have) == {k \in Keys : Need[o][k] > IF k = Unlinked THEN 0 ELSE have[k]}

evaluateCtb(o, have) == IF ShortOf(o, have) = {} THEN "ClearToBuild" ELSE "RmShortage"

\* The rows that an evaluation by the request of c leaves of the orders os.
ShortageRows(os, have, c) ==
  UNION {{[order |-> o, part |-> k, by |-> c] : k \in ShortOf(o, have)} : o \in os}

\* Mutant: one more than the drafts.
NextAfterDrafts == 1 + Cardinality({i \in DOMAIN pr : pr[i].status = "Draft"})

\* nextPrNumber: one more than the largest number in the table.
NextNumber == 1 + Max({0} \cup {pr[i].number : i \in DOMAIN pr})

Taken(n) == \E i \in DOMAIN pr : pr[i].number = n

-----------------------------------------------------------------------------
(* Requests *)

Nothing == [x \in {} |-> 0]
Put(w, x, v) == [y \in DOMAIN w \cup {x} |-> IF y = x THEN v ELSE w[y]]

\* os: the orders asked about; todo: those whose rows are still to be read;
\* missing: those found without any; copies: how many copies of its explosion
\* each had; seen: the copies a recompute will delete; gone: the shortage rows
\* an evaluation has deleted; have, pending: stock and
\* pipeline as read; lines: what will be asked for; from: the requisitions
\* there were when numbering began; parts: line items still to be credited;
\* wStock: stock written and not committed.
Idle == [op |-> "none", pc |-> "idle", os |-> {}, todo |-> {}, missing |-> {},
         copies |-> Nothing, seen |-> {}, gone |-> {}, have |-> Nothing, pending |-> Nothing,
         lines |-> Nothing, id |-> 0, tries |-> 0, from |-> 0,
         pr |-> 0, to |-> "Draft", parts |-> {}, wStock |-> Nothing, delta |-> 0]

InFlight == DOMAIN req
Alone == Cardinality(InFlight) = 1
Idles(c) == req[c].pc = "idle"
At(c, op, pc) == req[c].op = op /\ req[c].pc = pc
Start(c, r) == Idles(c) /\ req' = [req EXCEPT ![c] = r] /\ UNCHANGED tables
Step(c, r) == req' = [req EXCEPT ![c] = r] /\ UNCHANGED tables
Done(c) == req' = [req EXCEPT ![c] = Idle]

\* Rows no other transaction has written and not yet committed.
PrFree(c, i) == \A d \in InFlight \ {c} : req[d].pc = "credit" => req[d].pr # i
StockFree(c, p) == \A d \in InFlight \ {c} : p \notin DOMAIN req[d].wStock

\* Mutant: the shortage rows are deleted before the order is written.
OrdersUnlocked(c, os) == TRUE

\* The first statement of an evaluation writes the order rows and waits for them.
OrdersFree(c, os) == \A d \in InFlight \ {c} : req[d].pc = "written" => req[d].os \cap os = {}

Init ==
  /\ order = [o \in Orders |-> "Absent"]
  /\ snap = [o \in Orders |-> {}]
  /\ stock = [p \in Parts |-> 0] /\ credited = [p \in Parts |-> 0]
  /\ ctb = [o \in Orders |-> [status |-> "None", by |-> "nobody"]] /\ short = {}
  /\ pr = << >>
  /\ req \in UNION {[cs -> {Idle}] : cs \in (SUBSET Clients) \ {{}}}
  /\ kinds \in Kinds[Cardinality(InFlight)]

-----------------------------------------------------------------------------
(* Orders come and go (module orders) *)

createOrder(c, o) ==
  /\ Idles(c) /\ order[o] = "Absent" /\ o \in Coming[Cardinality(InFlight)]
  /\ order' = [order EXCEPT ![o] = "Open"]
  /\ UNCHANGED <<snap, stock, ctb, short, pr, credited, req>>

closeOrder(c, o) ==
  /\ Idles(c) /\ order[o] = "Open"
  /\ order' = [order EXCEPT ![o] = "Closed"]
  /\ UNCHANGED <<snap, stock, ctb, short, pr, credited, req>>

-----------------------------------------------------------------------------
(* The cached explosion of an order.  getOrComputeOrderBomSnapshot is called  *)
(* for one order after the other by a generate and for all of them at once    *)
(* by a clear-to-build check.                                                 *)

MayAskNext(c) == req[c].op = "generate" => req[c].missing = {}

snapshotFound(c, o) ==
  /\ req[c].pc = "read" /\ o \in req[c].todo /\ snap[o] # {} /\ MayAskNext(c)
  /\ Step(c, [req[c] EXCEPT !.todo = @ \ {o}, !.copies = Put(@, o, Cardinality(snap[o]))])

\* No rows: the BOM is exploded, outside any transaction.
snapshotMissing(c, o) ==
  /\ req[c].pc = "read" /\ o \in req[c].todo /\ snap[o] = {} /\ MayAskNext(c)
  /\ Step(c, [req[c] EXCEPT !.todo = @ \ {o}, !.missing = @ \cup {o}])

\* Names for copies that neither the table nor a running delete knows.
FreshCopies(o) == (1..MaxCopies) \ (snap[o] \cup UNION {req[c].seen : c \in InFlight})
NewCopy(o) == Min(FreshCopies(o))
Room(o) == FreshCopies(o) # {}

\* Inserted whatever was inserted meanwhile, and read back with it.
persistSnapshot(c, o) ==
  /\ req[c].pc = "read" /\ o \in req[c].missing /\ Room(o)
  /\ snap' = [snap EXCEPT ![o] = @ \cup {NewCopy(o)}]
  /\ req' = [req EXCEPT ![c].missing = @ \ {o},
                        ![c].copies = Put(@, o, Cardinality(snap[o]) + 1)]
  /\ UNCHANGED <<order, stock, ctb, short, pr, credited>>

\* The delete of the transaction sees the copies there are when it starts.
recomputeLoad(c, o) ==
  /\ order[o] # "Absent"
  /\ Start(c, [Idle EXCEPT !.op = "recompute", !.pc = "delete", !.os = {o},
                           !.seen = snap[o]])

\* Mutant: the delete is left out.
ReplacedNone(o, seen) == snap[o] \cup {NewCopy(o)}

\* Those that are still there go, and one comes.
Replaced(o, seen) == (snap[o] \ seen) \cup {NewCopy(o)}

recomputeOrderBomSnapshot(c) == \E o \in req[c].os :
  /\ At(c, "recompute", "delete") /\ Room(o)
  /\ snap' = [snap EXCEPT ![o] = Replaced(o, req[c].seen)]
  /\ Done(c) /\ UNCHANGED <<order, stock, ctb, short, pr, credited>>

deleteOrderBomSnapshot(c, o) ==
  /\ Idles(c) /\ snap[o] # {}
  /\ snap' = [snap EXCEPT ![o] = {}]
  /\ UNCHANGED <<order, stock, ctb, short, pr, credited, req>>

-----------------------------------------------------------------------------
(* Clear to build *)

\* One order, whatever its status, or all that are open.
checkLoad(c, os) ==
  /\ \A o \in os : order[o] # "Absent"
  /\ Cardinality(os) = 1 \/ os = Open
  /\ Start(c, [Idle EXCEPT !.op = "check", !.pc = "read", !.os = os, !.todo = os])

AllRead(c) == req[c].pc = "read" /\ req[c].todo = {} /\ req[c].missing = {}

checkReadStock(c) ==
  /\ req[c].op = "check" /\ AllRead(c)
  /\ Step(c, [req[c] EXCEPT !.pc = "judge", !.have = stock, !.copies = Nothing])

\* One transaction for all orders asked about: their status, then their old
\* shortage rows, those there are once the order rows are ours, then the new.
liveEvaluate(c) ==
  /\ At(c, "check", "judge") /\ OrdersFree(c, req[c].os)
  /\ Step(c, [req[c] EXCEPT !.pc = "written",
                            !.gone = {r \in short : r.order \in req[c].os}])

commitVerdicts(c) == LET os == req[c].os  have == req[c].have IN
  /\ At(c, "check", "written")
  /\ ctb' = [o \in Orders |-> IF o \in os THEN [status |-> evaluateCtb(o, have), by |-> c]
                              ELSE ctb[o]]
  /\ short' = (short \ req[c].gone) \cup ShortageRows(os, have, c)
  /\ Done(c) /\ UNCHANGED <<order, snap, stock, pr, credited>>

-----------------------------------------------------------------------------
(* Generating a requisition: three reads side by side, the net lines, and an  *)
(* insert that is tried again with the same lines                             *)

generateLoad(c) ==
  /\ Len(pr) < MaxPrs
  /\ Start(c, [Idle EXCEPT !.op = "generate", !.pc = "read", !.os = Open, !.todo = Open])

fetchCurrentStockByPart(c) ==
  /\ At(c, "generate", "read") /\ req[c].have = Nothing
  /\ Step(c, [req[c] EXCEPT !.have = stock])

fetchPending(c) ==
  /\ At(c, "generate", "read") /\ req[c].pending = Nothing
  /\ Step(c, [req[c] EXCEPT !.pending = sumAlreadyRequisitionedByPart(pr)])

NetLines(c) == calculateNetPurchaseRequirement(
  sumActiveOrderRequirements(req[c].copies), req[c].have, req[c].pending)

\* With nothing to ask for the request ends.
netLines(c) ==
  /\ req[c].op = "generate" /\ AllRead(c)
  /\ req[c].have # Nothing /\ req[c].pending # Nothing
  /\ Step(c, IF \A k \in Keys : NetLines(c)[k] = 0 THEN Idle
             ELSE [Idle EXCEPT !.op = "generate", !.pc = "number", !.lines = NetLines(c),
                               !.from = Len(pr)])

nextPrNumber(c) ==
  /\ At(c, "generate", "number")
  /\ Step(c, [req[c] EXCEPT !.pc = "insert", !.id = NextNumber])

\* pr_number is unique.
MayInsert(n) == ~Taken(n)

insertPr(c) ==
  /\ At(c, "generate", "insert") /\ MayInsert(req[c].id) /\ Len(pr) < MaxPrs
  /\ pr' = Append(pr, [number |-> req[c].id, status |-> "Draft", lines |-> req[c].lines])
  /\ Done(c) /\ UNCHANGED <<order, snap, stock, ctb, short, credited>>

retryInsert(c) ==
  /\ At(c, "generate", "insert") /\ Taken(req[c].id) /\ req[c].tries + 1 < MaxAttempts
  /\ Step(c, [req[c] EXCEPT !.pc = "number", !.tries = @ + 1])

allocationExhausted(c) ==
  /\ At(c, "generate", "insert") /\ Taken(req[c].id) /\ req[c].tries + 1 >= MaxAttempts
  /\ Step(c, Idle)

-----------------------------------------------------------------------------
(* Status changes and the stock they credit, in one transaction *)

updatePrStatusLoad(c, i, to) ==
  /\ to \in getAllowedNextStatuses(pr[i].status)
  /\ Start(c, [Idle EXCEPT !.op = "status", !.pc = "loaded", !.pr = i, !.to = to])

\* The line items a change to status to credits; those without a part are skipped.
ToCredit(i, to) == {p \in Parts : to = "Fulfilled" /\ pr[i].lines[p] > 0}

updatePrStatus(c) == LET i == req[c].pr IN
  /\ At(c, "status", "loaded") /\ PrFree(c, i)
  /\ Step(c, [req[c] EXCEPT !.pc = "credit", !.parts = ToCredit(i, req[c].to)])

creditRead(c, p) ==
  /\ At(c, "status", "credit") /\ p \in req[c].parts /\ req[c].have = Nothing
  /\ Step(c, [req[c] EXCEPT !.have = Put(Nothing, p, stock[p])])

creditWrite(c, p) == LET next == req[c].have[p] + pr[req[c].pr].lines[p] IN
  /\ At(c, "status", "credit") /\ p \in req[c].parts /\ req[c].have # Nothing
  /\ p \in DOMAIN req[c].have /\ StockFree(c, p) /\ next <= MaxStock
  /\ Step(c, [req[c] EXCEPT !.parts = @ \ {p}, !.have = Nothing, !.wStock = Put(@, p, next)])

commitStatus(c) == LET i == req[c].pr  w == req[c].wStock IN
  /\ At(c, "status", "credit") /\ req[c].parts = {}
  /\ pr' = [pr EXCEPT ![i].status = req[c].to]
  /\ stock' = [p \in Parts |-> IF p \in DOMAIN w THEN w[p] ELSE stock[p]]
  /\ credited' = [p \in Parts |-> credited[p] + IF p \in DOMAIN w THEN pr[i].lines[p] ELSE 0]
  /\ Done(c) /\ UNCHANGED <<order, snap, ctb, short>>

-----------------------------------------------------------------------------
(* adjustStock on its own: goods arrive or are used *)

adjustLoad(c, p, d) ==
  /\ stock[p] + d \in 0..MaxStock
  /\ Start(c, [Idle EXCEPT !.op = "adjust", !.pc = "loaded", !.parts = {p},
                           !.have = Put(Nothing, p, stock[p]), !.delta = d])

adjustStock(c) == \E p \in req[c].parts :
  /\ At(c, "adjust", "loaded") /\ StockFree(c, p)
  /\ stock' = [stock EXCEPT ![p] = req[c].have[p] + req[c].delta]
  /\ Done(c) /\ UNCHANGED <<order, snap, ctb, short, pr, credited>>

\* A request ends without a write: rejected, timed out, or the process died.
Rollback(c) == ~Idles(c) /\ Step(c, Idle)

-----------------------------------------------------------------------------
Request(c) ==
  \/ \E o \in Orders : createOrder(c, o) \/ closeOrder(c, o)
  \/ "snapshot" \in kinds /\ \E o \in Orders :
       recomputeLoad(c, o) \/ deleteOrderBomSnapshot(c, o)
  \/ "check" \in kinds /\ \E os \in (SUBSET Orders) \ {{}} : checkLoad(c, os)
  \/ generateLoad(c)
  \/ "status" \in kinds /\ \E i \in DOMAIN pr, to \in PrStatus : updatePrStatusLoad(c, i, to)
  \/ "adjust" \in kinds /\ \E p \in Parts, d \in Deltas : adjustLoad(c, p, d)

Advance(c) ==
  \/ \E o \in Orders : snapshotFound(c, o) \/ snapshotMissing(c, o) \/ persistSnapshot(c, o)
  \/ recomputeOrderBomSnapshot(c) \/ checkReadStock(c) \/ liveEvaluate(c)
  \/ commitVerdicts(c)
  \/ fetchCurrentStockByPart(c) \/ fetchPending(c) \/ netLines(c) \/ nextPrNumber(c)
  \/ insertPr(c) \/ retryInsert(c) \/ allocationExhausted(c)
  \/ updatePrStatus(c) \/ \E p \in Parts : creditRead(c, p) \/ creditWrite(c, p)
  \/ commitStatus(c) \/ adjustStock(c) \/ Rollback(c)

Next == /\ \E c \in InFlight : Request(c) \/ Advance(c)
        /\ UNCHANGED kinds

Spec == Init /\ [][Next]_vars

-----------------------------------------------------------------------------
(* The numbering of SequentialId, seen in the requests *)

Numbers == INSTANCE SequentialId WITH
  ids <- [i \in DOMAIN pr |-> pr[i].number],
  loop <- [c \in Clients |->
    IF c \in InFlight /\ req[c].pc \in {"number", "insert"}
    THEN [pc |-> req[c].pc, id |-> req[c].id, tries |-> req[c].tries, from |-> req[c].from,
          others |-> 0]
    ELSE [pc |-> "idle", id |-> 0, tries |-> 0, from |-> 0, others |-> 0]]

\* Requisitions are numbered as SequentialId numbers rows, whatever else runs:
\* the retry of generatePurchaseRequisition is generateWithRetry.
ImplementsNumbering == Numbers!Spec

-----------------------------------------------------------------------------
(* Properties *)

\* However many requests find an order without a snapshot, or recompute it at
\* the same time, it has no more copies than there were requests at a time: one
\* request at a time never counts a requirement twice.
CopiesWithinRequests == \A o \in Orders :
  Cardinality(snap[o]) <= Cardinality(InFlight)

Cover(p) == stock[p] + Asked(pr, InPipeline(pr), p)
OpenNeed(p) == Total([o \in Open |-> Need[o][p]], Open)

\* With one request at a time, a requisition lifts stock and pending quantity
\* of every part to what the open orders need, and no further: nothing is asked
\* for twice and nothing is forgotten.
AsksForShortfall == [][Alone /\ Len(pr') > Len(pr) =>
  \A p \in Parts : Cover(p)' = Max({Cover(p), OpenNeed(p)})]_vars

\* What arrived on a requisition is in the stock: the credits of a part are the
\* line items of the Fulfilled requisitions, each credited once when requests
\* come one at a time, and at least once whatever interleaves.
FulfilledIsCredited == \A p \in Parts :
  LET arrived == Asked(pr, {i \in DOMAIN pr : pr[i].status = "Fulfilled"}, p)
  IN  credited[p] >= arrived /\ (Alone => credited[p] = arrived)

\* The status of an order and its shortage rows are of one evaluation, however
\* many check it at the same time: it is short exactly when there are rows that
\* say of what, and no row is left of an evaluation that another has replaced.
ShortagesFitVerdict == \A o \in Orders :
  LET rows == {r \in short : r.order = o}
  IN  /\ ctb[o].status = "RmShortage" <=> rows # {}
      /\ \A r \in rows : r.by = ctb[o].by

=============================================================================
