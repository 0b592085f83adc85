------------------------------ MODULE Sourcing ------------------------------
(***************************************************************************)
(* From a purchase indent to a purchase order: the approval of an indent,  *)
(* the requests for quotation (RFQ) made from it, the quotations of the    *)
(* invited suppliers, the selection of one of them, and the conversion of  *)
(* the indent into an order (backend modules purchaseIndents and rfq, and  *)
(* createFromRfq of purchaseOrders).                                       *)
(*                                                                         *)
(* A handler is one client's request, split where the code reads rows and  *)
(* writes later.  The terms of a quotation are its rate alone.             *)
(***************************************************************************)
EXTENDS Naturals, Sequences, FiniteSets, SequencesExt

CONSTANTS
  Clients,    \* requests that can be in flight at the same time: any number of them
  Indents,    \* purchase indents
  Rfqs,       \* requests for quotation
  Suppliers,  \* suppliers that can be invited
  Rates,      \* rates a supplier may quote
  Asked,      \* bound: the RFQs of an instance, by its number of requests in flight
  MaxPos      \* bound: purchase orders converted from an indent

ASSUME SourcingAssumption ==
  /\ IsFiniteSet(Clients) /\ Indents # {} /\ Rfqs # {} /\ Suppliers # {}
  /\ Rates \subseteq Nat \ {0} /\ MaxPos \in Nat
  /\ Asked \in Seq(SUBSET Rfqs) /\ Len(Asked) = Cardinality(Clients)

VARIABLES
  indent,   \* purchase_indents: the status of each
  history,  \* indent_approval_history: the actions logged for each indent
  rfq,      \* rfqs, with their rfq_suppliers
  quote,    \* supplier_quotations, of each RFQ and supplier
  pos,      \* the purchase orders converted from an RFQ
  req       \* what each client's request has read and not yet committed

vars == <<indent, history, rfq, quote, pos, req>>

-----------------------------------------------------------------------------
(* Rows *)

\* A quotation at rate 0 is no row.
Quoted(r, s) == quote[r, s].rate # 0

\* Mutant: every invited supplier counts as selected.
InvitedOf(r) == rfq[r].suppliers

SelectedOf(r) == {s \in Suppliers : quote[r, s].selected}

\* submitIndent, approveIndent and rejectIndent: what each asks of the indent
\* and what it makes of it.
Transitions == {[from |-> "Draft", to |-> "Submitted"],
                [from |-> "Submitted", to |-> "Approved"],
                [from |-> "Submitted", to |-> "Rejected"]}

-----------------------------------------------------------------------------
(* Requests *)

Anything(S) == CHOOSE x \in S : TRUE

Idle == [op |-> "none", pc |-> "idle", indent |-> Anything(Indents), to |-> "Absent",
         rfq |-> Anything(Rfqs), supplier |-> Anything(Suppliers), suppliers |-> {},
         rate |-> 0, clears |-> {}]

\* The clients of this instance.  With one of them every handler runs alone.
InFlight == DOMAIN req
Alone == Cardinality(InFlight) = 1

Idles(c) == req[c].pc = "idle"
At(c, op, pc) == req[c].op = op /\ req[c].pc = pc
Start(c, r) == Idles(c) /\ req' = [req EXCEPT ![c] = r]
Done(c) == req' = [req EXCEPT ![c] = Idle]

\* Rows nobody else's transaction has updated and not yet committed.
QuoteFree(c, r, s) == \A d \in InFlight \ {c} : ~(req[d].rfq = r /\ s \in req[d].clears)

Init ==
  /\ indent = [i \in Indents |-> "Absent"]
  /\ history = [i \in Indents |-> << >>]
  /\ rfq = [r \in Rfqs |-> [exists |-> FALSE, indent |-> Anything(Indents), suppliers |-> {}]]
  /\ quote = [k \in Rfqs \X Suppliers |-> [rate |-> 0, selected |-> FALSE]]
  /\ pos = << >>
  /\ req \in UNION {[cs -> {Idle}] : cs \in (SUBSET Clients) \ {{}}}

-----------------------------------------------------------------------------
(* Indents *)

createIndent(c, i) ==
  /\ Idles(c) /\ indent[i] = "Absent"
  /\ indent' = [indent EXCEPT ![i] = "Draft"]
  /\ UNCHANGED <<history, rfq, quote, pos, req>>

MayMove(i, t) == indent[i] = t.from

transitionLoad(c, i, t) ==
  /\ MayMove(i, t)
  /\ Start(c, [Idle EXCEPT !.op = "transition", !.pc = "loaded", !.indent = i, !.to = t.to])
  /\ UNCHANGED <<indent, history, rfq, quote, pos>>

LoggedAction(h, to) == Append(h, to)

transition(c) == LET i == req[c].indent  to == req[c].to IN
  /\ At(c, "transition", "loaded")
  /\ indent' = [indent EXCEPT ![i] = to]
  /\ history' = [history EXCEPT ![i] = LoggedAction(@, to)]
  /\ Done(c) /\ UNCHANGED <<rfq, quote, pos>>

-----------------------------------------------------------------------------
(* Requests for quotation *)

\* Mutant: any indent will do.
MayAskUnchecked(i) == indent[i] # "Absent"

MayAsk(i) == indent[i] = "Approved"

createRfqLoad(c, r, i, ss) ==
  /\ ~rfq[r].exists /\ MayAsk(i) /\ ss # {}
  /\ r \in Asked[Cardinality(InFlight)]
  /\ Start(c, [Idle EXCEPT !.op = "rfq", !.pc = "loaded", !.rfq = r, !.indent = i,
                           !.suppliers = ss])
  /\ UNCHANGED <<indent, history, rfq, quote, pos>>

\* The identifier is new: an RFQ created meanwhile has another one.
createRfq(c) == LET r == req[c].rfq IN
  /\ At(c, "rfq", "loaded") /\ ~rfq[r].exists
  /\ rfq' = [rfq EXCEPT ![r] = [exists |-> TRUE, indent |-> req[c].indent,
                                suppliers |-> req[c].suppliers]]
  /\ Done(c) /\ UNCHANGED <<indent, history, quote, pos>>

createQuotationLoad(c, r, s, rate) ==
  /\ rfq[r].exists /\ s \in rfq[r].suppliers /\ ~Quoted(r, s)
  /\ Start(c, [Idle EXCEPT !.op = "quote", !.pc = "loaded", !.rfq = r, !.supplier = s,
                           !.rate = rate])
  /\ UNCHANGED <<indent, history, rfq, quote, pos>>

\* (rfq_id, supplier_id) is unique: a second insert fails.
createQuotation(c) == LET k == <<req[c].rfq, req[c].supplier>> IN
  /\ At(c, "quote", "loaded") /\ quote[k].rate = 0
  /\ quote' = [quote EXCEPT ![k].rate = req[c].rate]
  /\ Done(c) /\ UNCHANGED <<indent, history, rfq, pos>>

MayEdit(r, s) == Quoted(r, s) /\ ~quote[r, s].selected

updateQuotationLoad(c, r, s, rate) ==
  /\ MayEdit(r, s)
  /\ Start(c, [Idle EXCEPT !.op = "edit", !.pc = "loaded", !.rfq = r, !.supplier = s,
                           !.rate = rate])
  /\ UNCHANGED <<indent, history, rfq, quote, pos>>

updateQuotation(c) == LET k == <<req[c].rfq, req[c].supplier>> IN
  /\ At(c, "edit", "loaded") /\ QuoteFree(c, k[1], k[2])
  /\ quote' = [quote EXCEPT ![k].rate = req[c].rate]
  /\ Done(c) /\ UNCHANGED <<indent, history, rfq, pos>>

selectLoad(c, r, s) ==
  /\ rfq[r].exists /\ Quoted(r, s)
  /\ Start(c, [Idle EXCEPT !.op = "select", !.pc = "loaded", !.rfq = r, !.supplier = s])
  /\ UNCHANGED <<indent, history, rfq, quote, pos>>

\* Mutant: leaves the earlier selection in place.
ClearedNone(r, s) == {}

\* The quotations that lose the selection to s.
Cleared(r, s) == SelectedOf(r) \ {s}

\* updateMany, in the transaction.
selectClear(c) == LET r == req[c].rfq  gone == Cleared(r, req[c].supplier) IN
  /\ At(c, "select", "loaded") /\ \A s \in gone : QuoteFree(c, r, s)
  /\ req' = [req EXCEPT ![c].pc = "cleared", ![c].clears = gone]
  /\ UNCHANGED <<indent, history, rfq, quote, pos>>

\* What is selected on r when s has been and gone have lost it.
Selection(r, s, gone) ==
  [x \in Suppliers |-> x = s \/ (x \notin gone /\ quote[r, x].selected)]

selectSupplier(c) == LET r == req[c].rfq  s == req[c].supplier  gone == req[c].clears IN
  /\ At(c, "select", "cleared") /\ QuoteFree(c, r, s)
  /\ quote' = [k \in DOMAIN quote |-> IF k[1] = r
       THEN [quote[k] EXCEPT !.selected = Selection(r, s, gone)[k[2]]] ELSE quote[k]]
  /\ Done(c) /\ UNCHANGED <<indent, history, rfq, pos>>

-----------------------------------------------------------------------------
(* The conversion into a purchase order *)

\* The RFQ with its quotations; were two of them selected, either could come first.
convertLoad(c, r, s) ==
  /\ rfq[r].exists /\ s \in SelectedOf(r)
  /\ Start(c, [Idle EXCEPT !.op = "convert", !.pc = "quotation", !.rfq = r, !.supplier = s,
                           !.rate = quote[r, s].rate, !.indent = rfq[r].indent])
  /\ UNCHANGED <<indent, history, rfq, quote, pos>>

\* Mutant: only looks for an order on the same RFQ.
MayConvertPerRfq(c) == \A p \in ToSet(pos) : p.rfq # req[c].rfq

MayConvert(c) == indent[req[c].indent] # "ConvertedToPO"

\* Mutant: marks the indent before there is an order.
convertMarkIndent(c) ==
  /\ At(c, "convert", "quotation") /\ MayConvert(c)
  /\ req' = [req EXCEPT ![c].pc = "loaded"]
  /\ indent' = [indent EXCEPT ![req[c].indent] = "ConvertedToPO"]
  /\ UNCHANGED <<history, rfq, quote, pos>>

convertReadIndent(c) ==
  /\ At(c, "convert", "quotation") /\ MayConvert(c)
  /\ req' = [req EXCEPT ![c].pc = "loaded"]
  /\ UNCHANGED <<indent, history, rfq, quote, pos>>

ConvertedStatus(i) == "ConvertedToPO"

\* The order and the status of its indent, in one transaction.
createFromRfq(c) == LET r == req[c] IN
  /\ At(c, "convert", "loaded") /\ Len(pos) < MaxPos
  /\ pos' = Append(pos, [indent |-> r.indent, rfq |-> r.rfq, supplier |-> r.supplier,
                         rate |-> r.rate])
  /\ indent' = [indent EXCEPT ![r.indent] = ConvertedStatus(r.indent)]
  /\ Done(c) /\ UNCHANGED <<history, rfq, quote>>

\* A request ends without a write: rejected, timed out, or the process died.
Rollback(c) ==
  /\ ~Idles(c) /\ Done(c) /\ UNCHANGED <<indent, history, rfq, quote, pos>>

-----------------------------------------------------------------------------
Request(c) ==
  \/ \E i \in Indents : createIndent(c, i) \/ \E t \in Transitions : transitionLoad(c, i, t)
  \/ \E r \in Rfqs : \E i \in Indents, ss \in SUBSET Suppliers : createRfqLoad(c, r, i, ss)
  \/ \E r \in Rfqs, s \in Suppliers :
       \/ \E rate \in Rates : createQuotationLoad(c, r, s, rate) \/ updateQuotationLoad(c, r, s, rate)
       \/ selectLoad(c, r, s) \/ convertLoad(c, r, s)

Advance(c) ==
  \/ transition(c) \/ createRfq(c) \/ createQuotation(c) \/ updateQuotation(c)
  \/ selectClear(c) \/ selectSupplier(c) \/ convertReadIndent(c) \/ createFromRfq(c)
  \/ Rollback(c)

Next == \E c \in InFlight : Request(c) \/ Advance(c)

Spec == Init /\ [][Next]_vars

-----------------------------------------------------------------------------
(* Properties *)

\* With one request at a time, at most one quotation of an RFQ is selected.
OneSelected == Alone => \A r \in Rfqs : Cardinality(SelectedOf(r)) <= 1

PosOf(i) == {k \in DOMAIN pos : pos[k].indent = i}

\* With one request at a time, an indent converts into at most one purchase
\* order, over all of its RFQs.
ConvertsOnce == Alone => \A i \in Indents : Cardinality(PosOf(i)) <= 1

\* Whatever runs beside it, a conversion never shows without its order.
ConvertedIsOrdered == \A i \in Indents :
  indent[i] = "ConvertedToPO" => PosOf(i) # {}

\* Suppliers are asked, and goods ordered, only for an indent that was approved.
OnlyApprovedIsSourced ==
  /\ \A r \in Rfqs : rfq[r].exists => "Approved" \in ToSet(history[rfq[r].indent])
  /\ \A p \in ToSet(pos) : rfq[p.rfq].exists /\ p.indent = rfq[p.rfq].indent

\* A purchase order is made out to a supplier with the terms it was selected for,
\* unless another request changes either in between.
OrderedAsSelected == [][
  Alone /\ pos' # pos => LET p == Last(pos') IN
    quote[p.rfq, p.supplier].selected /\ quote[p.rfq, p.supplier].rate = p.rate]_vars

=============================================================================
