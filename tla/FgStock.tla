------------------------------ MODULE FgStock ------------------------------
(***************************************************************************)
(* Finished-goods stock: the FG batches, the reservations a sales order    *)
(* holds on them, the dispatches that consume both, the sales order status *)
(* derived from them and the movement ledger beside them (backend modules  *)
(* fgBatch, fgDispatch and salesOrders).                                   *)
(*                                                                         *)
(* Every HTTP handler runs as the request of one client.  A handler that   *)
(* reads a row, decides, and writes later is split exactly there: the read *)
(* is one action, the write another, so with two clients two handlers      *)
(* interleave as they do on two database connections.  Transactions run at *)
(* READ COMMITTED: a plain read sees the committed rows and the writes of  *)
(* its own transaction, an update waits for the row lock of another one    *)
(* and then works on the latest row, and what a transaction wrote becomes  *)
(* visible when it commits.  With one client every handler runs alone.     *)
(*                                                                         *)
(* Quantities are the Decimal(12,2) columns counted in hundredths.         *)
(***************************************************************************)
EXTENDS Integers, Sequences, FiniteSets

CONSTANTS
  Clients,          \* requests that can be in flight at the same time
  Batches,          \* FG batches, each named by the QC inspection it converts
  PassedQty,        \* passedQty of each of those inspections
  SalesOrders,
  NoSO,             \* the null salesOrderId of an unaffiliated dispatch
  Locations,        \* warehouse and bin a batch can be put in
  Unassigned,       \* no warehouse at all
  OrderedQty,       \* the ordered quantities tried
  MaxQty,           \* the largest quantity of one reservation or line item
  MaxReservations,  \* bound: reservation rows ever created
  MaxLineItems,     \* bound: dispatch line items ever created
  MaxLines,         \* bound: line items of one dispatch
  MaxHolds,         \* bound: Held movements ever logged
  Days              \* dates whose numbers dispatches in flight can carry: 1, or
                    \* 2 around a midnight

ASSUME FgAssumption ==
  /\ PassedQty \in [Batches -> Nat]
  /\ OrderedQty \subseteq Nat \ {0}
  /\ NoSO \notin SalesOrders
  /\ MaxQty \in Nat /\ MaxReservations \in Nat /\ MaxLineItems \in Nat
  /\ MaxLines \in Nat \ {0} /\ MaxHolds \in Nat /\ Days \in Nat
  /\ IsFiniteSet(Batches) /\ Batches # {}

Qty == 1..MaxQty
Places == Locations \cup {Unassigned}

VARIABLES
  batch,      \* fg_batches
  resv,       \* fg_reservations, oldest first
  lineItems,  \* fg_dispatch_line_items, each with its dispatch's salesOrderId
  order,      \* sales_orders
  ledger,     \* fg_stock_movements, as the totals its entries add up to
  req         \* what each client's request has read and not yet committed

vars == <<batch, resv, lineItems, order, ledger, req>>

-----------------------------------------------------------------------------
(* Rows *)

StockStatus == {"Absent", "Available", "Reserved", "Hold"}
DispatchStatus == {"Ready", "Partial", "Dispatched"}

BatchRow == [stock : StockStatus, dispatch : DispatchStatus,
             reserved : Int, dispatched : Int, loc : Places]

ResvRow == [b : Batches, so : SalesOrders, qty : 0..MaxQty,
            status : {"Active", "Cancelled", "Fulfilled"}]

LineItem == [so : SalesOrders \cup {NoSO}, b : Batches, qty : Qty]

OrderStatus == {"Absent", "Open", "PartiallyReserved", "FullyReserved",
                "PartiallyDispatched", "Dispatched"}
OrderRow == [status : OrderStatus, ordered : Nat]

\* An append-only ledger is known by its totals: the quantity of the Reserved,
\* Unreserved and Dispatched movements, how many Held and HoldReleased ones
\* there are, and the toLocation of the last movement that has one.
LedgerRow == [reserved : Nat, unreserved : Nat, dispatched : Nat,
              held : Nat, released : Nat, at : Places]

Exists(b) == batch[b].stock # "Absent"
NoRow == [stock |-> "Absent", dispatch |-> "Ready",
          reserved |-> 0, dispatched |-> 0, loc |-> Unassigned]
\* A batch as it is created: schema defaults 0, 0, Available and Ready.
FreshRow(l) == [stock |-> "Available", dispatch |-> "Ready",
                reserved |-> 0, dispatched |-> 0, loc |-> l]
NoMoves == [reserved |-> 0, unreserved |-> 0, dispatched |-> 0,
            held |-> 0, released |-> 0, at |-> Unassigned]

-----------------------------------------------------------------------------
(* Sums.  The sum of rows[i].qty over ids, as the number of its units.     *)

Total(rows, ids) == Cardinality({u \in ids \X Qty : u[2] <= rows[u[1]].qty})

Active(rs) == {i \in DOMAIN rs : rs[i].status = "Active"}
ActiveOn(rs, b) == {i \in Active(rs) : rs[i].b = b}
ActiveFor(rs, s) == {i \in Active(rs) : rs[i].so = s}
\* Mutant: forgets the salesOrderId filter.
ClaimsOfAnyOrder(rs, b, s) == ActiveOn(rs, b)

Claims(rs, b, s) == ActiveOn(rs, b) \cap ActiveFor(rs, s)

ItemsOf(ls, s) == {i \in DOMAIN ls : ls[i].so = s}
ItemsFrom(ls, b) == {i \in DOMAIN ls : ls[i].b = b}

\* The rows of base with those of the partial function w written over them.
Over(base, w) == [x \in DOMAIN base |-> IF x \in DOMAIN w THEN w[x] ELSE base[x]]

\* Mutant: takes the larger one.
MinOfSwapped(x, y) == IF x <= y THEN y ELSE x

MinOf(x, y) == IF x <= y THEN x ELSE y
MaxOf(x, y) == IF x <= y THEN y ELSE x

-----------------------------------------------------------------------------
(* The rules every handler shares *)

computeAvailableQty(b, row) == PassedQty[b] - row.reserved - row.dispatched

computeStockStatus(b, stock, nextReserved, nextDispatched) ==
  IF stock = "Hold" THEN "Hold"
  ELSE IF PassedQty[b] - nextReserved - nextDispatched > 0
       THEN "Available" ELSE "Reserved"

\* Mutant: the reservations are looked at before the dispatches.
StatusForReservedFirst(orderedQty, activeReservedQty, dispatchedQty) ==
  IF activeReservedQty >= orderedQty THEN "FullyReserved"
  ELSE IF activeReservedQty > 0 THEN "PartiallyReserved"
  ELSE IF dispatchedQty >= orderedQty THEN "Dispatched"
  ELSE IF dispatchedQty > 0 THEN "PartiallyDispatched" ELSE "Open"

\* The status recomputeSalesOrderStatus derives from the two sums it reads.
StatusFor(orderedQty, activeReservedQty, dispatchedQty) ==
  IF dispatchedQty >= orderedQty /\ orderedQty > 0 THEN "Dispatched"
  ELSE IF dispatchedQty > 0 THEN "PartiallyDispatched"
  ELSE IF activeReservedQty <= 0 THEN "Open"
  ELSE IF activeReservedQty >= orderedQty THEN "FullyReserved"
  ELSE "PartiallyReserved"

-----------------------------------------------------------------------------
(* Requests *)

NoWrite == [x \in {} |-> x]

Idle == [op |-> "none", pc |-> "idle", b |-> CHOOSE b \in Batches : TRUE,
         so |-> NoSO, qty |-> 0, res |-> 0, loc |-> Unassigned,
         row |-> NoRow, claims |-> NoWrite, lines |-> << >>,
         wBatch |-> NoWrite, wLog |-> NoWrite, wResv |-> NoWrite,
         wNew |-> << >>, wItems |-> << >>, status |-> "Absent"]

Idles(c) == req[c].pc = "idle"
At(c, op, pc) == req[c].op = op /\ req[c].pc = pc

\* What a statement of c's transaction reads.
BatchView(c) == Over(batch, req[c].wBatch)
ResvView(c) == Over(resv, req[c].wResv) \o req[c].wNew
ItemView(c) == lineItems \o req[c].wItems
LedgerView(c) == Over(ledger, req[c].wLog)

\* The row locks other transactions hold until they commit or roll back.
BatchFree(c, b) == \A d \in Clients \ {c} : b \notin DOMAIN req[d].wBatch
ResvFree(c, ids) == \A d \in Clients \ {c} : ids \cap DOMAIN req[d].wResv = {}
SoFree(s) == \A d \in Clients :
  req[d].pc \in {"line", "row", "claims", "tx"} => req[d].so # s

\* The partial function w with b mapped to v.
Put(w, b, v) == [x \in DOMAIN w \cup {b} |-> IF x = b THEN v ELSE w[x]]

\* The writes w, and the later writes v over them.
Then(w, v) == [x \in DOMAIN w \cup DOMAIN v |-> IF x \in DOMAIN v THEN v[x] ELSE w[x]]

\* The status the transaction will write for s, from the rows it can see (the
\* committed ones and its own); "Absent" when s has that status already and
\* nothing is written.
recomputeSalesOrderStatus(s, rs, ls) ==
  LET next == StatusFor(order[s].ordered, Total(rs, ActiveFor(rs, s)),
                        Total(ls, ItemsOf(ls, s)))
  IN  IF next = order[s].status THEN "Absent" ELSE next

-----------------------------------------------------------------------------
Init ==
  /\ batch = [b \in Batches |-> NoRow]
  /\ ledger = [b \in Batches |-> NoMoves]
  /\ order = [s \in SalesOrders |-> [status |-> "Absent", ordered |-> 0]]
  /\ resv = << >> /\ lineItems = << >>
  /\ req = [c \in Clients |-> Idle]

\* One request of c ends, with an answer or with an error.
Done(c) == req' = [req EXCEPT ![c] = Idle]

-----------------------------------------------------------------------------
(* Handlers that write in the statement they decide in *)

createSalesOrder(c, s, q) ==
  /\ Idles(c) /\ order[s].status = "Absent" /\ order[s].ordered = 0
  /\ order' = [order EXCEPT ![s] = [status |-> "Open", ordered |-> q]]
  /\ UNCHANGED <<batch, resv, lineItems, ledger, req>>

\* Changes what was ordered, and recomputes nothing.
updateSalesOrder(c, s, q) ==
  /\ Idles(c) /\ order[s].status # "Absent" /\ q # order[s].ordered
  /\ order' = [order EXCEPT ![s].ordered = q]
  /\ UNCHANGED <<batch, resv, lineItems, ledger, req>>

\* A hard delete.  fg_reservations.sales_order_id restricts it, and a
\* transaction that inserted a row naming s holds it off until it commits;
\* fg_dispatches.sales_order_id is ON DELETE SET NULL.  Ids are not reused:
\* a deleted order keeps its ordered quantity, so it is never created again.
deleteSalesOrder(c, s) ==
  /\ Idles(c) /\ order[s].status # "Absent" /\ SoFree(s)
  /\ \A i \in DOMAIN resv : resv[i].so # s
  /\ order' = [order EXCEPT ![s].status = "Absent"]
  /\ lineItems' = [i \in DOMAIN lineItems |->
       [lineItems[i] EXCEPT !.so = IF @ = s THEN NoSO ELSE @]]
  /\ UNCHANGED <<batch, resv, ledger, req>>

\* The inspection must have passed something and not be converted yet: the
\* check before the insert rejects a second conversion, and the unique
\* constraint on qc_inspection_id rejects one that slipped past the check.
generateFgBatch(c, b, l) ==
  /\ Idles(c) /\ PassedQty[b] > 0 /\ ~Exists(b)
  /\ batch' = [batch EXCEPT ![b] = FreshRow(l)]
  /\ ledger' = [ledger EXCEPT ![b].at = l]
  /\ UNCHANGED <<resv, lineItems, order, req>>

-----------------------------------------------------------------------------
(* Handlers that read the batch, decide, and write in a transaction later *)

\* getBareFgBatchOrThrow: the row every handler below decides on.
Load(c, op, b, so, q, l) ==
  /\ Idles(c) /\ Exists(b)
  /\ req' = [req EXCEPT ![c] = [Idle EXCEPT !.op = op, !.pc = "loaded", !.b = b,
                !.so = so, !.qty = q, !.loc = l, !.row = batch[b]]]
  /\ UNCHANGED <<batch, resv, lineItems, order, ledger>>

transferLoad(c, b, l) ==
  batch[b].dispatch # "Dispatched" /\ Load(c, "transfer", b, NoSO, 0, l)

\* Mutant: the movement is not logged.
transferFgBatchUnlogged(c) == LET b == req[c].b IN
  /\ At(c, "transfer", "loaded") /\ BatchFree(c, b)
  /\ batch' = [batch EXCEPT ![b].loc = req[c].loc]
  /\ Done(c) /\ UNCHANGED <<resv, lineItems, order, ledger>>

transferFgBatch(c) == LET b == req[c].b IN
  /\ At(c, "transfer", "loaded") /\ BatchFree(c, b)
  /\ batch' = [batch EXCEPT ![b].loc = req[c].loc]
  /\ ledger' = [ledger EXCEPT ![b].at = req[c].loc]
  /\ Done(c) /\ UNCHANGED <<resv, lineItems, order>>

holdLoad(c, b) ==
  /\ batch[b].stock # "Hold"
  /\ Cardinality({h \in Batches \X (0..MaxHolds) : h[2] < ledger[h[1]].held}) < MaxHolds
  /\ Load(c, "hold", b, NoSO, 0, Unassigned)

holdFgBatch(c) == LET b == req[c].b IN
  /\ At(c, "hold", "loaded") /\ BatchFree(c, b)
  /\ batch' = [batch EXCEPT ![b].stock = "Hold"]
  /\ ledger' = [ledger EXCEPT ![b].held = @ + 1]
  /\ Done(c) /\ UNCHANGED <<resv, lineItems, order>>

releaseLoad(c, b) ==
  batch[b].stock = "Hold" /\ Load(c, "release", b, NoSO, 0, Unassigned)

\* The status after a hold: Reserved when the row that was read has anything
\* reserved, else Available.
StatusAfterHold(row) == IF row.reserved > 0 THEN "Reserved" ELSE "Available"

releaseHoldFgBatch(c) == LET b == req[c].b IN
  /\ At(c, "release", "loaded") /\ BatchFree(c, b)
  /\ batch' = [batch EXCEPT ![b].stock = StatusAfterHold(req[c].row)]
  /\ ledger' = [ledger EXCEPT ![b].released = @ + 1]
  /\ Done(c) /\ UNCHANGED <<resv, lineItems, order>>

-----------------------------------------------------------------------------
(* Reservations *)

reserveLoad(c, b, s, q) ==
  /\ batch[b].stock # "Hold" /\ order[s].status # "Absent"
  /\ q <= computeAvailableQty(b, batch[b]) /\ Len(resv) < MaxReservations
  /\ Load(c, "reserve", b, s, q, Unassigned)

\* The writes of a reserve or cancel transaction: batch b gets the reserved
\* quantity and the stock status computed from the row that was read.
WriteReserved(c, b, nextReserved) ==
  LET row == req[c].row IN
  Put(req[c].wBatch, b,
      [BatchView(c)[b] EXCEPT
         !.reserved = nextReserved,
         !.stock = computeStockStatus(b, row.stock, nextReserved, row.dispatched)])

reserveFgBatch(c) ==
  LET b == req[c].b  s == req[c].so  q == req[c].qty
      new == <<[b |-> b, so |-> s, qty |-> q, status |-> "Active"]>>
      status == recomputeSalesOrderStatus(s, resv \o new, lineItems)
  IN
  /\ At(c, "reserve", "loaded") /\ BatchFree(c, b)
  /\ order[s].status # "Absent"
  /\ req' = [req EXCEPT ![c].pc = "tx",
       ![c].wNew = new,
       ![c].wBatch = WriteReserved(c, b, req[c].row.reserved + q),
       ![c].wLog = Put(NoWrite, b, [ledger[b] EXCEPT !.reserved = @ + q]),
       ![c].status = status]
  /\ UNCHANGED <<batch, resv, lineItems, order, ledger>>

\* Mutant: cancels a reservation of any status.
cancelLoadUnchecked(c, i) ==
  /\ Idles(c)
  /\ req' = [req EXCEPT ![c] = [Idle EXCEPT !.op = "cancel", !.pc = "found",
                !.b = resv[i].b, !.so = resv[i].so, !.qty = resv[i].qty, !.res = i]]
  /\ UNCHANGED <<batch, resv, lineItems, order, ledger>>

\* The reservation is read first, its batch in a second statement.
cancelLoad(c, i) ==
  /\ Idles(c) /\ resv[i].status = "Active"
  /\ req' = [req EXCEPT ![c] = [Idle EXCEPT !.op = "cancel", !.pc = "found",
                !.b = resv[i].b, !.so = resv[i].so, !.qty = resv[i].qty, !.res = i]]
  /\ UNCHANGED <<batch, resv, lineItems, order, ledger>>

cancelReadBatch(c) ==
  /\ At(c, "cancel", "found")
  /\ req' = [req EXCEPT ![c].pc = "loaded", ![c].row = batch[req[c].b]]
  /\ UNCHANGED <<batch, resv, lineItems, order, ledger>>

cancelReservation(c) ==
  LET b == req[c].b  s == req[c].so  q == req[c].qty  i == req[c].res
      cancelled == Put(NoWrite, i, [resv[i] EXCEPT !.status = "Cancelled"])
      status == recomputeSalesOrderStatus(s, Over(resv, cancelled), lineItems)
  IN
  /\ At(c, "cancel", "loaded") /\ BatchFree(c, b) /\ ResvFree(c, {i})
  /\ req' = [req EXCEPT ![c].pc = "tx",
       ![c].wResv = cancelled,
       ![c].wBatch = WriteReserved(c, b, MaxOf(0, req[c].row.reserved - q)),
       ![c].wLog = Put(NoWrite, b, [ledger[b] EXCEPT !.unreserved = @ + q]),
       ![c].status = status]
  /\ UNCHANGED <<batch, resv, lineItems, order, ledger>>

-----------------------------------------------------------------------------
(* Dispatch: one transaction, its line items one after the other *)

InDispatch == {c \in Clients : req[c].op = "dispatch"}

\* The transaction starts with the insert of the dispatch under the number
\* that follows the largest committed one of its day.  dispatchNo is unique: a
\* second dispatch of that day waits on this insert, and when the first one
\* commits gets P2002 and starts over, having read nothing.  So a dispatch
\* gets past its insert when no other one of its day is in flight.
createDispatch(c, s, lines) ==
  /\ Idles(c) /\ (s # NoSO => order[s].status # "Absent")
  /\ Cardinality(InDispatch) < Days
  /\ Len(lineItems) + Len(lines) <= MaxLineItems
  /\ req' = [req EXCEPT ![c] = [Idle EXCEPT !.op = "dispatch", !.pc = "line",
                !.so = s, !.lines = lines]]
  /\ UNCHANGED <<batch, resv, lineItems, order, ledger>>

lineReadBatch(c) ==
  LET b == Head(req[c].lines).b  row == BatchView(c)[b] IN
  /\ At(c, "dispatch", "line") /\ req[c].lines # << >>
  /\ row.stock \notin {"Absent", "Hold"}
  /\ req' = [req EXCEPT ![c].pc = "row", ![c].b = b, ![c].row = row]
  /\ UNCHANGED <<batch, resv, lineItems, order, ledger>>

\* The Active reservations of this batch for the dispatch's own sales order;
\* none for an unaffiliated dispatch.  The line is rejected above the ceiling.
lineReadClaims(c) ==
  LET b == req[c].b  rs == ResvView(c)
      mine == [i \in Claims(rs, b, req[c].so) |-> rs[i]]
      ceiling == computeAvailableQty(b, req[c].row) + Total(mine, DOMAIN mine)
  IN
  /\ At(c, "dispatch", "row") /\ Head(req[c].lines).qty <= ceiling
  /\ req' = [req EXCEPT ![c].pc = "claims", ![c].claims = mine]
  /\ UNCHANGED <<batch, resv, lineItems, order, ledger>>

\* Mutant: consumes the newest reservation first.
LeftForNewestFirst(claims, portion, i) ==
  portion - Total(claims, {j \in DOMAIN claims : j > i})

\* What the reservations older than i leave of portion to take from i.
LeftFor(claims, portion, i) ==
  portion - Total(claims, {j \in DOMAIN claims : j < i})

\* The rows of rs a dispatch of portion touches, oldest first, as it leaves
\* them: a row with nothing left is Fulfilled, one with some left keeps the
\* status it has.
Consumed(rs, claims, portion) ==
  [i \in {j \in DOMAIN claims : LeftFor(claims, portion, j) > 0} |->
     LET left == claims[i].qty - MinOf(LeftFor(claims, portion, i), claims[i].qty)
     IN  [rs[i] EXCEPT !.qty = left,
                       !.status = IF left = 0 THEN "Fulfilled" ELSE @]]

\* Mutant: keeps reserved what the line took from reservations.
ShippedRowKeepsReserved(c, b, portion, q) ==
  LET row == req[c].row  nextDispatched == row.dispatched + q IN
  [BatchView(c)[b] EXCEPT
     !.dispatched = nextDispatched,
     !.dispatch = IF nextDispatched = PassedQty[b] THEN "Dispatched" ELSE "Partial",
     !.stock = computeStockStatus(b, row.stock, row.reserved, nextDispatched)]

\* Mutant: the dispatch status looks at the line alone.
ShippedRowLineStatus(c, b, portion, q) ==
  LET row == req[c].row  nextReserved == row.reserved - portion
      nextDispatched == row.dispatched + q
  IN  [BatchView(c)[b] EXCEPT
         !.reserved = nextReserved, !.dispatched = nextDispatched,
         !.dispatch = IF q = PassedQty[b] THEN "Dispatched" ELSE "Partial",
         !.stock = computeStockStatus(b, row.stock, nextReserved, nextDispatched)]

\* The row of batch b after a line of q, portion of it out of reservations:
\* both counters and both statuses come from the row that was read.
ShippedRow(c, b, portion, q) ==
  LET row == req[c].row
      nextReserved == row.reserved - portion
      nextDispatched == row.dispatched + q
  IN  [BatchView(c)[b] EXCEPT
         !.reserved = nextReserved,
         !.dispatched = nextDispatched,
         !.dispatch = IF nextDispatched = PassedQty[b] THEN "Dispatched" ELSE "Partial",
         !.stock = computeStockStatus(b, row.stock, nextReserved, nextDispatched)]

\* Mutant: logs only what can come out of reservations.
LoggedFromReserved(c, b, q) ==
  [LedgerView(c)[b] EXCEPT !.dispatched = @ + MinOf(q, req[c].row.reserved)]

\* The ledger of b with the Dispatched movement of the line.
Logged(c, b, q) == [LedgerView(c)[b] EXCEPT !.dispatched = @ + q]

processDispatchLineItem(c) ==
  LET b == req[c].b  q == Head(req[c].lines).qty  claims == req[c].claims
      portion == MinOf(q, Total(claims, DOMAIN claims))
      drawn == Consumed(ResvView(c), claims, portion)
  IN
  /\ At(c, "dispatch", "claims") /\ BatchFree(c, b) /\ ResvFree(c, DOMAIN drawn)
  /\ req' = [req EXCEPT ![c].pc = "line",
       ![c].lines = Tail(@),
       ![c].wResv = Then(@, drawn),
       ![c].wBatch = Put(@, b, ShippedRow(c, b, portion, q)),
       ![c].wItems = Append(@, [so |-> req[c].so, b |-> b, qty |-> q]),
       ![c].wLog = Put(@, b, Logged(c, b, q))]
  /\ UNCHANGED <<batch, resv, lineItems, order, ledger>>

\* All line items are done: the status of the sales order, when there is one.
dispatchRecompute(c) == LET s == req[c].so IN
  /\ At(c, "dispatch", "line") /\ req[c].lines = << >>
  /\ req' = [req EXCEPT ![c].pc = "tx",
       ![c].status = IF s = NoSO THEN "Absent"
                     ELSE recomputeSalesOrderStatus(s, ResvView(c), ItemView(c))]
  /\ UNCHANGED <<batch, resv, lineItems, order, ledger>>

-----------------------------------------------------------------------------
(* The end of a transaction *)

\* Everything the transaction wrote becomes visible at once.  The status of
\* the sales order is written only when recomputing it gave another one.
Commit(c) == LET r == req[c] IN
  /\ r.pc = "tx"
  /\ Len(ResvView(c)) <= MaxReservations /\ Len(ItemView(c)) <= MaxLineItems
  /\ batch' = BatchView(c)
  /\ resv' = ResvView(c)
  /\ lineItems' = ItemView(c)
  /\ ledger' = LedgerView(c)
  /\ order' = IF r.status = "Absent" THEN order
              ELSE [order EXCEPT ![r.so].status = r.status]
  /\ Done(c)

\* A request ends without having written anything: the handler rejects what
\* it read, a statement fails, the 15 s transaction timeout or the database's
\* deadlock detection aborts it, or the process dies.
Rollback(c) ==
  /\ ~Idles(c) /\ Done(c)
  /\ UNCHANGED <<batch, resv, lineItems, order, ledger>>

-----------------------------------------------------------------------------
Lines == UNION {[1..n -> [b : Batches, qty : Qty]] : n \in 1..MaxLines}

Request(c) ==
  \/ \E s \in SalesOrders : deleteSalesOrder(c, s)
  \/ \E s \in SalesOrders, q \in OrderedQty :
       createSalesOrder(c, s, q) \/ updateSalesOrder(c, s, q)
  \/ \E b \in Batches, l \in Places : generateFgBatch(c, b, l)
  \/ \E b \in Batches, l \in Locations : transferLoad(c, b, l)
  \/ \E b \in Batches : holdLoad(c, b) \/ releaseLoad(c, b)
  \/ \E b \in Batches, s \in SalesOrders, q \in Qty : reserveLoad(c, b, s, q)
  \/ \E i \in DOMAIN resv : cancelLoad(c, i)
  \/ \E s \in SalesOrders \cup {NoSO}, lines \in Lines : createDispatch(c, s, lines)

Advance(c) ==
  \/ transferFgBatch(c) \/ holdFgBatch(c) \/ releaseHoldFgBatch(c)
  \/ reserveFgBatch(c) \/ cancelReadBatch(c) \/ cancelReservation(c)
  \/ lineReadBatch(c) \/ lineReadClaims(c) \/ processDispatchLineItem(c)
  \/ dispatchRecompute(c) \/ Commit(c) \/ Rollback(c)

Next == \E c \in Clients : Request(c) \/ Advance(c)

Spec == Init /\ [][Next]_vars

-----------------------------------------------------------------------------
(* The pool of FgPool, seen in the rows *)

Pool == INSTANCE FgPool WITH
  MaxClaim <- MaxQty,
  MaxShip <- MaxLines * MaxQty,
  received <- {b \in Batches : Exists(b)},
  held <- {b \in Batches : batch[b].stock = "Hold"},
  free <- [b \in Batches |-> IF Exists(b) THEN computeAvailableQty(b, batch[b]) ELSE 0],
  shipped <- [b \in Batches |-> batch[b].dispatched],
  claim <- [b \in Batches |-> [s \in SalesOrders |-> Total(resv, Claims(resv, b, s))]]

\* The handlers, run one at a time, implement the pool: every commit is one
\* claim, give-back, shipment, hold, release or receipt, or changes no stock.
ImplementsPool == Pool!PoolSpec

-----------------------------------------------------------------------------
(* Properties *)

\* What request r holds has its type; the rows it names exist.
RequestOK(r) ==
  /\ DOMAIN r = DOMAIN Idle
  /\ r.op \in {"none", "transfer", "hold", "release", "reserve", "cancel", "dispatch"}
  /\ r.pc \in {"idle", "found", "loaded", "line", "row", "claims", "tx"}
  /\ r.b \in Batches /\ r.so \in SalesOrders \cup {NoSO} /\ r.loc \in Places
  /\ r.qty \in 0..MaxQty /\ r.res \in DOMAIN resv \cup {0}
  /\ r.row \in BatchRow /\ r.lines \in Seq([b : Batches, qty : Qty])
  /\ DOMAIN r.claims \subseteq DOMAIN resv /\ DOMAIN r.wResv \subseteq DOMAIN resv
  /\ \A i \in DOMAIN r.claims : r.claims[i] \in ResvRow
  /\ \A i \in DOMAIN r.wResv : r.wResv[i] \in ResvRow
  /\ DOMAIN r.wBatch \subseteq Batches /\ DOMAIN r.wLog \subseteq Batches
  /\ \A b \in DOMAIN r.wBatch : r.wBatch[b] \in BatchRow
  /\ \A b \in DOMAIN r.wLog : r.wLog[b] \in LedgerRow
  /\ r.wNew \in Seq(ResvRow) /\ r.wItems \in Seq(LineItem)
  /\ r.status \in OrderStatus
  /\ r.op \in {"reserve", "cancel"} => r.so \in SalesOrders
  /\ r.op = "reserve" => r.qty \in Qty
  /\ r.op = "cancel" => r.res \in DOMAIN resv
  /\ r.op = "dispatch" => r.wNew = << >>
  /\ r.pc \in {"row", "claims"} => r.lines # << >>
  /\ r.status # "Absent" => r.so \in SalesOrders

\* The rows of every table, and what each request holds, have their types.
TypeOK ==
  /\ batch \in [Batches -> BatchRow]
  /\ resv \in Seq(ResvRow) /\ lineItems \in Seq(LineItem)
  /\ order \in [SalesOrders -> OrderRow]
  /\ ledger \in [Batches -> LedgerRow]
  /\ DOMAIN req = Clients /\ \A c \in Clients : RequestOK(req[c])

\* A batch's reservedQty column is the sum of the Active reservations on it:
\* reserve, cancel and dispatch each keep a counter and rows of two tables in
\* step.
ReservedIsActiveSum == \A b \in Batches :
  batch[b].reserved = Total(resv, ActiveOn(resv, b))

\* Every line item has its Dispatched movement and the other way round,
\* whatever else is in flight.
LedgerMatchesLineItems == \A b \in Batches :
  ledger[b].dispatched = Total(lineItems, ItemsFrom(lineItems, b))

\* Replaying the ledger gives the batch's row: it stands where the last
\* movement put it, it is on Hold exactly when the last hold was not released,
\* dispatchedQty is what was dispatched, and reservedQty is at most what was
\* reserved and not unreserved, and at least that less all that was dispatched.
LedgerReplaysToRow == \A b \in Batches :
  /\ batch[b].loc = ledger[b].at /\ batch[b].dispatched = ledger[b].dispatched
  /\ ledger[b].held - ledger[b].released = IF batch[b].stock = "Hold" THEN 1 ELSE 0
  /\ batch[b].reserved <= ledger[b].reserved - ledger[b].unreserved
  /\ batch[b].reserved >= ledger[b].reserved - ledger[b].unreserved - ledger[b].dispatched

\* How far a sales order has come: dispatching outranks reserving.
Stage(s) ==
  IF Total(lineItems, ItemsOf(lineItems, s)) > 0
  THEN {"PartiallyDispatched", "Dispatched"}
  ELSE IF ActiveFor(resv, s) # {} THEN {"PartiallyReserved", "FullyReserved"}
  ELSE {"Open"}

\* The status of a sales order is of the stage its reservations and line items
\* put it in.
StatusOfItsStage == \A s \in SalesOrders :
  order[s].status # "Absent" => order[s].status \in Stage(s)

\* dispatchStatus agrees with dispatchedQty, whichever statements of other
\* requests ran between a line item's read of the batch and its update: a
\* cancel, a hold, or around midnight a second dispatch.
DispatchStatusAgrees == \A b \in Batches :
  LET row == batch[b] IN
  Exists(b) => row.dispatch = IF row.dispatched = 0 THEN "Ready"
                              ELSE IF row.dispatched = PassedQty[b] THEN "Dispatched"
                              ELSE "Partial"

\* A dispatch never draws on the reservation of another sales order: a step
\* that shrinks a reservation adds line items of that reservation's own order.
OnlyOwnReservations == [][\A i \in DOMAIN resv :
  resv'[i].qty < resv[i].qty =>
    \E j \in DOMAIN lineItems' \ DOMAIN lineItems :
       lineItems'[j].so = resv[i].so /\ lineItems'[j].b = resv[i].b]_vars

\* Reservations of one order on one batch are consumed oldest first: when one
\* shrinks, every older Active one is used up in the same step.
OldestFirst == [][\A i \in DOMAIN resv :
  resv'[i].qty < resv[i].qty =>
    \A j \in Claims(resv, resv[i].b, resv[i].so) :
       j < i => resv'[j].status = "Fulfilled"]_vars

\* Cancelled and Fulfilled are final.
ReservationsEndOnce == [][\A i \in DOMAIN resv :
  resv[i].status # "Active" => resv'[i] = resv[i]]_vars

\* stockStatus says whether anything is free: Available while something is,
\* Reserved when nothing is left to reserve.
StockStatusTellsFree == \A b \in Batches :
  batch[b].stock \in {"Available", "Reserved"} =>
    (batch[b].stock = "Available" <=> computeAvailableQty(b, batch[b]) > 0)

\* Line items never add up to more than QC passed: the ceiling of a line is
\* what is available and what its own sales order has reserved.
ShippedWithinPassed == \A b \in Batches :
  Total(lineItems, ItemsFrom(lineItems, b)) <= PassedQty[b]

=============================================================================
