----------------------------- MODULE PoReceipt -----------------------------
(***************************************************************************)
(* Purchase orders and what is received against them: the status machine,  *)
(* amendments, goods receipt notes (GRN), the inspection of received lines *)
(* and the stock they are credited to (backend modules purchaseOrders, grn *)
(* and rmInventory's adjustStock).                                         *)
(*                                                                         *)
(* As in FgStock a handler is one client's request, split where the code   *)
(* reads a row and writes later.  A statement that writes and the commit   *)
(* right behind it are one action; a transaction that reads in between     *)
(* keeps its writes pending, with the row locks they took, until it        *)
(* commits.  Quantities are whole units, so the 0.01 tolerances the code   *)
(* allows its Decimal(12,2) columns never decide; every unit of an order   *)
(* costs 1, which makes a line total its ordered quantity.                 *)
(***************************************************************************)
EXTENDS Integers, Sequences, FiniteSets

CONSTANTS
  Clients,       \* requests that can be in flight at the same time
  Orders,        \* purchase orders
  PoLines,       \* their line items
  PoOf,          \* the purchase order of each line
  Items,         \* purchase items
  ItemOf,        \* the item of each line
  RawMaterials,  \* the items of category RawMaterial, stocked in rm_inventory
  MaxOrdered,    \* the largest quantity of an ordered line
  MaxQty,        \* the largest quantity of one GRN line
  Days,          \* dates whose numbers receipts in flight can carry: 1, or 2 around a
                 \* midnight
  Limits         \* bounds of an instance, by its number of requests in flight: its orders,
                 \* the ordered quantities tried, the GRN lines ever created, the lines of
                 \* one GRN and the stock of a raw material

ASSUME PoAssumption ==
  /\ IsFiniteSet(Clients) /\ IsFiniteSet(PoLines)
  /\ Orders # {} /\ PoLines # {} /\ Items # {}
  /\ PoOf \in [PoLines -> Orders] /\ ItemOf \in [PoLines -> Items]
  /\ RawMaterials \subseteq Items
  /\ MaxOrdered \in Nat /\ MaxQty \in 0..MaxOrdered /\ Days \in Nat
  /\ Limits \in Seq([orders : SUBSET Orders, ordered : SUBSET (1..MaxOrdered), grnLines : Nat,
                      perGrn : Nat, stock : Nat])
  /\ Len(Limits) = Cardinality(Clients)

Qty == 1..MaxQty

VARIABLES
  po,      \* purchase_orders; heldFrom: the oldValue of the newest OnHold entry
           \* of po_amendment_history, kept until a client resumes the order
  line,    \* po_line_items
  grn,     \* grn_line_items, in the order they were created
  stock,   \* rm_inventory.stock or general_inventory_stock.stock of each item
  moves,   \* the sum of each item's rm_ or general_inventory_transactions
  req      \* what each client's request has read and not yet committed

vars == <<po, line, grn, stock, moves, req>>

-----------------------------------------------------------------------------
(* Rows *)

STATUS_FLOW == <<"Draft", "PendingApproval", "Approved", "SentToSupplier",
                 "SupplierConfirmed", "PartiallyReceived", "FullyReceived">>
TERMINAL_STATUSES == {"FullyReceived", "Cancelled", "Rejected"}
SYSTEM_DRIVEN_STATUSES == {"PartiallyReceived", "FullyReceived"}
RECEIVABLE_PO_STATUSES == {"SentToSupplier", "SupplierConfirmed", "PartiallyReceived"}

Flow == {STATUS_FLOW[k] : k \in DOMAIN STATUS_FLOW}
Status == Flow \cup {"Absent", "OnHold", "Cancelled", "Rejected"}

LinesOf(p) == {l \in PoLines : PoOf[l] = p}

\* The sum of f over ids, as the number of its units.
Total(f, ids) == Cardinality({u \in ids \X (1..MaxOrdered) : u[2] <= f[u[1]]})

OrderTotal(p, ls) == Total([l \in PoLines |-> ls[l].ordered], LinesOf(p))

\* The rows of base with those of the partial function w written over them.
Over(base, w) == [x \in DOMAIN base |-> IF x \in DOMAIN w THEN w[x] ELSE base[x]]
NoWrite == [x \in {} |-> x]
Put(w, k, v) == [x \in DOMAIN w \cup {k} |-> IF x = k THEN v ELSE w[x]]

-----------------------------------------------------------------------------
(* The rules of the status machine *)

IndexOf(s) == CHOOSE k \in DOMAIN STATUS_FLOW : STATUS_FLOW[k] = s

LinearNext(s) ==
  IF s \in Flow \ {"FullyReceived"} THEN {STATUS_FLOW[IndexOf(s) + 1]} ELSE {}

\* The next status of the flow, unless only a GRN may set it.
ClientNext(s) == LinearNext(s) \ SYSTEM_DRIVEN_STATUSES

\* Mutant: always resumes where goods can be received.
PreHoldFixed(row) == "SentToSupplier"

getPreHoldStatus(row) == row.heldFrom

Terminal(s) == s \in TERMINAL_STATUSES

getAllowedNextStatuses(row) ==
  IF Terminal(row.status) THEN {}
  ELSE IF row.status = "OnHold" THEN {getPreHoldStatus(row), "Cancelled", "Rejected"}
  ELSE ClientNext(row.status) \cup {"OnHold", "Cancelled", "Rejected"}

\* Mutant: waits for the goods to be accepted.
AllFullyAccepted(p, ls) == \A l \in LinesOf(p) : ls[l].accepted >= ls[l].ordered

\* Mutant: one line received completely is enough.
AnyFullyReceived(p, ls) == \E l \in LinesOf(p) : ls[l].received >= ls[l].ordered

AllFullyReceived(p, ls) == \A l \in LinesOf(p) : ls[l].received >= ls[l].ordered

\* The status recomputePoReceiptStatus leaves p with, from the lines it reads.
recomputePoReceiptStatus(p, status, ls) ==
  IF status \notin RECEIVABLE_PO_STATUSES THEN status
  ELSE IF AllFullyReceived(p, ls) THEN "FullyReceived"
  ELSE IF \E l \in LinesOf(p) : ls[l].received > 0 THEN "PartiallyReceived"
  ELSE status

deriveGrnQcStatus(passed, held) ==
  IF held > 0 THEN "Hold" ELSE IF passed > 0 THEN "Pass" ELSE "Fail"

-----------------------------------------------------------------------------
(* Requests *)

NoPo == [status |-> "Absent", heldFrom |-> "Absent", total |-> 0]

\* A request that is not running.  seen: the stock its transaction read.
Idle == [op |-> "none", pc |-> "idle", po |-> CHOOSE p \in Orders : TRUE, row |-> NoPo,
         to |-> "Absent", line |-> CHOOSE l \in PoLines : TRUE, qty |-> 0,
         receipts |-> << >>, grnLine |-> 0, passed |-> 0, held |-> 0,
         rejected |-> 0, item |-> CHOOSE it \in Items : TRUE, delta |-> 0, seen |-> 0,
         total |-> 0, wLine |-> NoWrite, wStock |-> NoWrite, wMoves |-> NoWrite,
         wGrn |-> << >>]

InFlight == DOMAIN req
Alone == Cardinality(InFlight) = 1
Limit == Limits[Cardinality(InFlight)]
Idles(c) == req[c].pc = "idle"
At(c, op, pc) == req[c].op = op /\ req[c].pc = pc
Done(c) == req' = [req EXCEPT ![c] = Idle]
Start(c, r) == Idles(c) /\ req' = [req EXCEPT ![c] = r]

\* What a statement of c's transaction reads.
LineView(c) == Over(line, req[c].wLine)
StockView(c) == Over(stock, req[c].wStock)
MovesView(c) == Over(moves, req[c].wMoves)

\* The row locks other transactions hold until they end.
LineFree(c, l) == \A d \in InFlight \ {c} : l \notin DOMAIN req[d].wLine
StockFree(c, it) == \A d \in InFlight \ {c} : it \notin DOMAIN req[d].wStock

\* Mutant: sets the stock instead of adding to it.
CreditOverwrites(c, it, qty) == qty

\* Mutant: general stock, too, is written from the value that was read.
CreditFromRead(c, it, qty) == req[c].seen + qty

\* The stock after creditPurchaseItemStock: adjustStock writes the stock it
\* read plus the delta, the general stock is incremented in place.
Credited(c, it, qty) ==
  IF it \in RawMaterials THEN req[c].seen + qty ELSE StockView(c)[it] + qty

-----------------------------------------------------------------------------
Init ==
  /\ po = [p \in Orders |-> NoPo]
  /\ line = [l \in PoLines |-> [ordered |-> 0, received |-> 0, accepted |-> 0, rejected |-> 0]]
  /\ grn = << >>
  /\ stock = [it \in Items |-> 0] /\ moves = [it \in Items |-> 0]
  /\ \E inFlight \in (SUBSET Clients) \ {{}} : req = [c \in inFlight |-> Idle]

-----------------------------------------------------------------------------
(* Purchase orders *)

\* insertPurchaseOrder: the order and its lines in one transaction.
createPurchaseOrder(c, p, qty) ==
  /\ Idles(c) /\ p \in Limit.orders /\ po[p].status = "Absent"
  /\ line' = [l \in PoLines |-> IF l \in LinesOf(p) THEN [line[l] EXCEPT !.ordered = qty[l]]
                                ELSE line[l]]
  /\ po' = [po EXCEPT ![p].status = "Draft", ![p].total = OrderTotal(p, line')]
  /\ UNCHANGED <<grn, stock, moves, req>>

statusLoad(c, p, to) ==
  /\ po[p].status # "Absent" /\ to \in getAllowedNextStatuses(po[p])
  /\ Start(c, [Idle EXCEPT !.op = "status", !.pc = "loaded", !.po = p,
                           !.row = po[p], !.to = to])
  /\ UNCHANGED <<po, line, grn, stock, moves>>

\* Every status change logs the status that was read as the old one.
updatePurchaseOrderStatus(c) == LET p == req[c].po  r == req[c] IN
  /\ At(c, "status", "loaded")
  /\ po' = [po EXCEPT ![p].status = r.to,
                      ![p].heldFrom = IF r.to = "OnHold" THEN r.row.status ELSE "Absent"]
  /\ Done(c) /\ UNCHANGED <<line, grn, stock, moves>>

\* An amendment of the ordered quantity of one line; the receipt status is not
\* recomputed.
amendLoad(c, l, q) == LET p == PoOf[l] IN
  /\ po[p].status \notin TERMINAL_STATUSES \cup {"Absent"} /\ q # line[l].ordered
  /\ Start(c, [Idle EXCEPT !.op = "amend", !.pc = "loaded", !.po = p, !.row = po[p],
                           !.line = l, !.qty = q])
  /\ UNCHANGED <<po, line, grn, stock, moves>>

amendLine(c) == LET l == req[c].line IN
  /\ At(c, "amend", "loaded") /\ LineFree(c, l)
  /\ req' = [req EXCEPT ![c].pc = "line",
       ![c].wLine = Put(NoWrite, l, [line[l] EXCEPT !.ordered = req[c].qty])]
  /\ UNCHANGED <<po, line, grn, stock, moves>>

\* totalValue is recomputed from the line items the transaction sees.
AmendedTotal(c) == OrderTotal(req[c].po, LineView(c))

amendPurchaseOrder(c) ==
  /\ At(c, "amend", "line")
  /\ req' = [req EXCEPT ![c].pc = "tx", ![c].total = AmendedTotal(c)]
  /\ UNCHANGED <<po, line, grn, stock, moves>>

-----------------------------------------------------------------------------
(* Goods receipt notes: one transaction, its lines one after the other *)

\* Mutant: an excess receipt needs no approval.
ExcessUnchecked(l, qty) == FALSE

\* Whether receiving qty goes past what is left to receive of line l.
IsExcess(l, qty) == qty > line[l].ordered - line[l].received

\* Outside the transaction: the status of the order and prepareGrnLines.  A
\* line past what was ordered is only taken when the caller approves it.
grnLoad(c, p, receipts) ==
  /\ po[p].status \in RECEIVABLE_PO_STATUSES
  /\ \A k \in DOMAIN receipts :
       /\ PoOf[receipts[k].line] = p
       /\ receipts[k].excess = IsExcess(receipts[k].line, receipts[k].qty)
       /\ \A j \in 1..k-1 : receipts[j].line # receipts[k].line
  /\ Len(grn) + Len(receipts) <= Limit.grnLines
  /\ Start(c, [Idle EXCEPT !.op = "grn", !.pc = "line", !.po = p, !.receipts = receipts])
  /\ UNCHANGED <<po, line, grn, stock, moves>>

\* The receipt d has inserted its GRN row, the first statement of its
\* transaction.
Numbered(d) == req[d].op = "grn" /\ (req[d].pc # "line" \/ req[d].wGrn # << >>)

\* The first line waits for the insert of the GRN row: grnNo is unique and
\* follows the largest committed one of its day, so a second receipt of that
\* day waits there and, once the first has committed, gets P2002 and starts its
\* transaction over, on the lines prepareGrnLines left it.  adjustStock then
\* reads the stock it will write back; nothing to credit is read for a line
\* that waits for its inspection.
grnReadStock(c) ==
  /\ At(c, "grn", "line") /\ req[c].receipts # << >>
  /\ Cardinality({d \in InFlight \ {c} : Numbered(d)}) < Days
  /\ req' = [req EXCEPT ![c].pc = "stock",
       ![c].seen = StockView(c)[ItemOf[Head(req[c].receipts).line]]]
  /\ UNCHANGED <<po, line, grn, stock, moves>>

\* Mutant: accepts everything on receipt.
ReceivedAcceptsAll(row, qty, now) ==
  [row EXCEPT !.received = @ + qty, !.accepted = @ + qty]

\* The counters of an order line after a receipt of which now is accepted.
Received(row, qty, now) == [row EXCEPT !.received = @ + qty, !.accepted = @ + now]

createGrnLine(c) ==
  LET receipt == Head(req[c].receipts)
      l == receipt.line  it == ItemOf[l]  qty == receipt.qty
      now == IF receipt.qc THEN 0 ELSE qty
      row == LineView(c)[l]
  IN
  /\ At(c, "grn", "stock") /\ LineFree(c, l) /\ (now > 0 => StockFree(c, it))
  /\ req' = [req EXCEPT ![c].pc = "line",
       ![c].receipts = Tail(@),
       ![c].wGrn = Append(@, [line |-> l, qty |-> qty, excess |-> receipt.excess,
                              qc |-> IF receipt.qc THEN "Pending" ELSE "NotRequired",
                              accepted |-> now, rejected |-> 0]),
       ![c].wLine = Put(@, l, Received(row, qty, now)),
       ![c].wStock = IF now = 0 THEN @ ELSE Put(@, it, Credited(c, it, now)),
       ![c].wMoves = IF now = 0 THEN @ ELSE Put(@, it, MovesView(c)[it] + now)]
  /\ UNCHANGED <<po, line, grn, stock, moves>>

\* recomputePoReceiptStatus reads the order again, and its lines as the
\* transaction sees them.
grnRecompute(c) == LET p == req[c].po IN
  /\ At(c, "grn", "line") /\ req[c].receipts = << >>
  /\ req' = [req EXCEPT ![c].pc = "tx", ![c].row = po[p],
       ![c].to = recomputePoReceiptStatus(p, po[p].status, LineView(c))]
  /\ UNCHANGED <<po, line, grn, stock, moves>>

\* The end of an amendment or a receipt.  The order is only written when its
\* total or its status differs from the one that was read.
Commit(c) == LET p == req[c].po  r == req[c] IN
  /\ r.pc = "tx" /\ Len(grn) + Len(r.wGrn) <= Limit.grnLines
  /\ po' = [po EXCEPT
       ![p].status = IF r.op = "grn" /\ r.to # r.row.status THEN r.to ELSE @,
       ![p].total = IF r.op = "amend" /\ r.total # r.row.total THEN r.total ELSE @]
  /\ line' = LineView(c) /\ stock' = StockView(c) /\ moves' = MovesView(c)
  /\ grn' = grn \o r.wGrn
  /\ Done(c)

-----------------------------------------------------------------------------
(* Inspection of a received line, and adjustments of raw material stock *)

Inspectable(i) == grn[i].qc = "Pending"

inspectLoad(c, i, passed, held, rejected) ==
  /\ Inspectable(i) /\ passed + held + rejected <= grn[i].qty
  /\ Start(c, [Idle EXCEPT !.op = "inspect", !.pc = "loaded", !.grnLine = i,
                           !.passed = passed, !.held = held, !.rejected = rejected])
  /\ UNCHANGED <<po, line, grn, stock, moves>>

\* The inspection row is inserted: grn_line_item_id is unique, so a second
\* transaction waits here and fails once the first has committed.
inspectInsert(c) == LET i == req[c].grnLine IN
  /\ At(c, "inspect", "loaded") /\ Inspectable(i)
  /\ \A d \in InFlight : At(d, "inspect", "stock") => req[d].grnLine # i
  /\ req' = [req EXCEPT ![c].pc = "stock", ![c].seen = stock[ItemOf[grn[i].line]]]
  /\ UNCHANGED <<po, line, grn, stock, moves>>

\* The GRN line, the stock and the order line; nothing is credited when
\* nothing passed.
inspectGrnLineItem(c) ==
  LET i == req[c].grnLine  l == grn[i].line  it == ItemOf[l]  r == req[c] IN
  /\ At(c, "inspect", "stock") /\ LineFree(c, l) /\ (r.passed > 0 => StockFree(c, it))
  /\ grn' = [grn EXCEPT ![i].qc = deriveGrnQcStatus(r.passed, r.held),
                        ![i].accepted = r.passed, ![i].rejected = r.rejected]
  /\ line' = [line EXCEPT ![l].accepted = @ + r.passed, ![l].rejected = @ + r.rejected]
  /\ stock' = IF r.passed = 0 THEN stock ELSE [stock EXCEPT ![it] = Credited(c, it, r.passed)]
  /\ moves' = IF r.passed = 0 THEN moves ELSE [moves EXCEPT ![it] = @ + r.passed]
  /\ Done(c) /\ UNCHANGED po

adjustLoad(c, it, delta) ==
  /\ stock[it] + delta \in 0..Limit.stock
  /\ Start(c, [Idle EXCEPT !.op = "adjust", !.pc = "loaded", !.item = it,
                           !.delta = delta, !.seen = stock[it]])
  /\ UNCHANGED <<po, line, grn, stock, moves>>

adjustStock(c) == LET it == req[c].item IN
  /\ At(c, "adjust", "loaded") /\ StockFree(c, it)
  /\ stock' = [stock EXCEPT ![it] = req[c].seen + req[c].delta]
  /\ moves' = [moves EXCEPT ![it] = @ + req[c].delta]
  /\ Done(c) /\ UNCHANGED <<po, line, grn>>

\* A request ends without a write: rejected, timed out, or the process died.
Rollback(c) ==
  /\ ~Idles(c) /\ Done(c) /\ UNCHANGED <<po, line, grn, stock, moves>>

-----------------------------------------------------------------------------
Receipts(p) ==
  UNION {[1..n -> [line : LinesOf(p), qty : Qty, qc : BOOLEAN, excess : BOOLEAN]] :
           n \in 1..Limit.perGrn}

Request(c) ==
  \/ \E p \in Orders : \E qty \in [LinesOf(p) -> Limit.ordered] : createPurchaseOrder(c, p, qty)
  \/ \E p \in Orders, to \in Status : statusLoad(c, p, to)
  \/ \E l \in PoLines, q \in Limit.ordered : amendLoad(c, l, q)
  \/ \E p \in Orders : \E receipts \in Receipts(p) : grnLoad(c, p, receipts)
  \/ \E i \in DOMAIN grn : \E passed, held, rejected \in 0..MaxQty :
       inspectLoad(c, i, passed, held, rejected)
  \/ \E it \in RawMaterials, delta \in {-1, 1} : adjustLoad(c, it, delta)

Advance(c) ==
  \/ updatePurchaseOrderStatus(c) \/ amendLine(c) \/ amendPurchaseOrder(c)
  \/ grnReadStock(c) \/ createGrnLine(c) \/ grnRecompute(c) \/ Commit(c)
  \/ inspectInsert(c) \/ inspectGrnLineItem(c) \/ adjustStock(c) \/ Rollback(c)

Next == \E c \in InFlight : Request(c) \/ Advance(c)

Spec == Init /\ [][Next]_vars

-----------------------------------------------------------------------------
(* Properties *)

GrnLinesOf(l) == {i \in DOMAIN grn : grn[i].line = l}
SumOfGrn(field(_), ids) == Total([i \in DOMAIN grn |-> field(grn[i])], ids)

\* The counters of an order line are the sums over its GRN lines, whatever
\* receipts and inspections run beside each other: they are only incremented.
LineCountersMatchGrns == \A l \in PoLines :
  /\ line[l].received = SumOfGrn(LAMBDA g : g.qty, GrnLinesOf(l))
  /\ line[l].accepted = SumOfGrn(LAMBDA g : g.accepted, GrnLinesOf(l))
  /\ line[l].rejected = SumOfGrn(LAMBDA g : g.rejected, GrnLinesOf(l))

\* The stock of an item that is not a raw material is exactly what was accepted
\* of it, over all orders.
StockIsAccepted == \A it \in Items \ RawMaterials :
  stock[it] = SumOfGrn(LAMBDA g : g.accepted,
                       {i \in DOMAIN grn : ItemOf[grn[i].line] = it})

\* With one request at a time the stock of every item is the sum of its ledger.
StockMatchesLedger == \A it \in Items : Alone => stock[it] = moves[it]

\* Where an order is in the flow: on hold it is where it was held.
Position(row) == IF row.status = "OnHold" THEN row.heldFrom ELSE row.status

EverythingReceived(p) == \A l \in LinesOf(p) : line[l].received >= line[l].ordered

\* With one request at a time the receipt status tells the truth: nothing has come in before
\* PartiallyReceived, something has in it, everything in FullyReceived.
ReceiptStatusSound == \A p \in Orders : Alone => LET at == Position(po[p]) IN
  /\ at \in {"Absent", "Draft", "PendingApproval", "Approved", "SentToSupplier",
              "SupplierConfirmed"} => \A l \in LinesOf(p) : line[l].received = 0
  /\ at = "PartiallyReceived" => \E l \in LinesOf(p) : line[l].received > 0
  /\ at = "FullyReceived" => EverythingReceived(p)

\* With one request at a time an order never goes back in the flow, through a
\* hold or without one.
NeverGoesBack == [][\A p \in Orders :
  Alone /\ Position(po[p]) \in Flow /\ Position(po'[p]) \in Flow =>
    IndexOf(Position(po'[p])) >= IndexOf(Position(po[p]))]_vars

\* With one request at a time a receipt that takes a line past what was ordered
\* was approved as excess.
ExcessIsApproved == [][\A l \in PoLines :
  /\ Alone /\ line'[l].received > line[l].received
  /\ line'[l].received > line'[l].ordered
  => \E i \in DOMAIN grn' \ DOMAIN grn : grn'[i].line = l /\ grn'[i].excess]_vars

\* With one request at a time the receipt that brings in the last missing goods
\* of an order closes it, whatever its inspections say: recomputePoReceiptStatus
\* sees its own lines.
ReceiptCompletes == [][\A p \in Orders :
  Alone /\ (\E l \in LinesOf(p) : line'[l].received > line[l].received) /\ EverythingReceived(p)'
  => po'[p].status = "FullyReceived"]_vars

=============================================================================
