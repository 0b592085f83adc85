--------------------------- MODULE SourcingProofs ---------------------------
(* Theorems about Sourcing, for any indents, RFQs, suppliers, rates and clients. *)
EXTENDS Sourcing, TLAPS, FiniteSetTheorems

Status == {"Absent", "Draft", "Submitted", "Approved", "Rejected", "ConvertedToPO"}
Target == {"Absent", "Submitted", "Approved", "Rejected"}
RfqRow == [exists : BOOLEAN, indent : Indents, suppliers : SUBSET Suppliers]
QuoteRow == [rate : Nat, selected : BOOLEAN]
PoRow == [indent : Indents, rfq : Rfqs, supplier : Suppliers, rate : Nat]
RequestRow == [op : {"none", "transition", "rfq", "quote", "edit", "select", "convert"},
               pc : {"idle", "loaded", "cleared", "quotation"},
               indent : Indents, to : Target, rfq : Rfqs, supplier : Suppliers,
               suppliers : SUBSET Suppliers, rate : Nat, clears : SUBSET Suppliers]

RowsType ==
  /\ indent \in [Indents -> Status] /\ history \in [Indents -> Seq(Target)]
  /\ rfq \in [Rfqs -> RfqRow] /\ quote \in [Rfqs \X Suppliers -> QuoteRow]
  /\ pos \in Seq(PoRow)

TypeInv ==
  /\ RowsType
  /\ IsFiniteSet(InFlight) /\ req \in [InFlight -> RequestRow]
  /\ \A c \in InFlight : Idles(c) <=> req[c].op = "none"

\* What a request may rely on whatever runs beside it: an approval stays logged,
\* and the rows of an RFQ are not written again.
Relies(r) ==
  /\ r.op = "rfq" => "Approved" \in ToSet(history[r.indent])
  /\ r.op = "convert" => rfq[r.rfq].exists /\ r.indent = rfq[r.rfq].indent

SourcedInv ==
  /\ ConvertedIsOrdered /\ OnlyApprovedIsSourced
  /\ \A i \in Indents : indent[i] = "Approved" => "Approved" \in ToSet(history[i])
  /\ \A c \in InFlight : Relies(req[c])

\* What a request that nobody disturbs knows.
Knows(r) ==
  /\ r.op = "transition" => indent[r.indent] # "ConvertedToPO"
  /\ r.op = "select" /\ r.pc = "cleared" => r.clears = SelectedOf(r.rfq) \ {r.supplier}
  /\ r.op = "convert" =>
       /\ quote[r.rfq, r.supplier].selected /\ quote[r.rfq, r.supplier].rate = r.rate
       /\ r.pc = "loaded" => indent[r.indent] # "ConvertedToPO"

AtMostOne(S) == \A x, y \in S : x = y

\* With one request at a time: one selection, one order, and an indent with an
\* order stays converted.
AloneInv == Alone =>
  /\ \A c \in InFlight : Knows(req[c])
  /\ \A r \in Rfqs : AtMostOne(SelectedOf(r))
  /\ \A i \in Indents : AtMostOne(PosOf(i)) /\ (PosOf(i) # {} => indent[i] = "ConvertedToPO")

Inv == TypeInv /\ SourcedInv /\ AloneInv

-----------------------------------------------------------------------------
(* Type correctness *)

LEMMA IdleType == Idle \in RequestRow /\ Idle.pc = "idle" /\ Idle.op = "none"
<1>1. /\ Anything(Indents) \in Indents /\ Anything(Rfqs) \in Rfqs
      /\ Anything(Suppliers) \in Suppliers
  BY SourcingAssumption DEF Anything
<1> QED BY <1>1 DEF Idle, RequestRow, Target

LEMMA InitType == Init => TypeInv
<1> SUFFICES ASSUME Init PROVE TypeInv
  OBVIOUS
<1>1. Anything(Indents) \in Indents
  BY SourcingAssumption DEF Anything
<1>2. RowsType
  BY <1>1 DEF Init, RowsType, Status, RfqRow, QuoteRow
<1>3. PICK cs \in (SUBSET Clients) \ {{}} : req \in [cs -> {Idle}]
  BY DEF Init
<1>4. IsFiniteSet(cs)
  BY SourcingAssumption, FS_Subset
<1> QED BY <1>2, <1>3, <1>4, IdleType DEF TypeInv, InFlight, Idles

LEMMA StepType ==
  ASSUME TypeInv, NEW c \in InFlight, NEW r \in RequestRow,
         r.pc = "idle" <=> r.op = "none", req' = [req EXCEPT ![c] = r], RowsType'
  PROVE  TypeInv'
<1>1. InFlight' = InFlight
  BY DEF TypeInv, InFlight
<1>2. req' \in [InFlight -> RequestRow]
  BY DEF TypeInv
<1>3. \A d \in InFlight : req'[d].pc = "idle" <=> req'[d].op = "none"
  BY DEF TypeInv, Idles
<1> QED BY <1>1, <1>2, <1>3 DEF TypeInv, Idles

LEMMA RowsKept ==
  ASSUME TypeInv, UNCHANGED <<indent, history, rfq, quote, pos>>
  PROVE  RowsType'
BY DEF TypeInv, RowsType

\* What each action makes of the request of its client.
LEMMA RequestType ==
  ASSUME TypeInv, NEW c \in InFlight, Request(c)
  PROVE  TypeInv'
<1>1. ASSUME NEW i \in Indents, createIndent(c, i)
      PROVE  TypeInv'
  <2>1. RowsType'
    BY <1>1 DEF createIndent, TypeInv, RowsType, Status
  <2> QED BY <1>1, <2>1 DEF createIndent, TypeInv, InFlight, Idles
<1>2. ASSUME NEW i \in Indents, NEW t \in Transitions, transitionLoad(c, i, t)
      PROVE  TypeInv'
  <2> DEFINE r == [Idle EXCEPT !.op = "transition", !.pc = "loaded", !.indent = i, !.to = t.to]
  <2>1. r \in RequestRow /\ r.pc = "loaded" /\ r.op = "transition"
    <3>1. t.to \in Target
      BY DEF Transitions, Target
    <3> QED BY <3>1, IdleType DEF RequestRow
  <2>2. req' = [req EXCEPT ![c] = r] /\ RowsType'
    BY <1>2, RowsKept DEF transitionLoad, Start
  <2> HIDE DEF r
  <2> QED BY <2>1, <2>2, StepType
<1>3. ASSUME NEW x \in Rfqs, NEW i \in Indents, NEW ss \in SUBSET Suppliers,
             createRfqLoad(c, x, i, ss)
      PROVE  TypeInv'
  <2> DEFINE r == [Idle EXCEPT !.op = "rfq", !.pc = "loaded", !.rfq = x, !.indent = i,
                               !.suppliers = ss]
  <2>1. r \in RequestRow /\ r.pc = "loaded" /\ r.op = "rfq"
    BY IdleType DEF RequestRow
  <2>2. req' = [req EXCEPT ![c] = r] /\ RowsType'
    BY <1>3, RowsKept DEF createRfqLoad, Start
  <2> HIDE DEF r
  <2> QED BY <2>1, <2>2, StepType
<1>4. ASSUME NEW x \in Rfqs, NEW s \in Suppliers, NEW rate \in Rates,
             createQuotationLoad(c, x, s, rate) \/ updateQuotationLoad(c, x, s, rate)
      PROVE  TypeInv'
  <2>1. PICK op \in {"quote", "edit"} :
          Start(c, [Idle EXCEPT !.op = op, !.pc = "loaded", !.rfq = x, !.supplier = s,
                                !.rate = rate])
    BY <1>4 DEF createQuotationLoad, updateQuotationLoad
  <2> DEFINE r == [Idle EXCEPT !.op = op, !.pc = "loaded", !.rfq = x, !.supplier = s,
                               !.rate = rate]
  <2>2. r \in RequestRow /\ r.pc = "loaded" /\ r.op = op
    BY IdleType, SourcingAssumption DEF RequestRow
  <2>3. req' = [req EXCEPT ![c] = r] /\ RowsType'
    BY <1>4, <2>1, RowsKept DEF createQuotationLoad, updateQuotationLoad, Start
  <2> HIDE DEF r
  <2> QED BY <2>2, <2>3, StepType
<1>5. ASSUME NEW x \in Rfqs, NEW s \in Suppliers, selectLoad(c, x, s)
      PROVE  TypeInv'
  <2> DEFINE r == [Idle EXCEPT !.op = "select", !.pc = "loaded", !.rfq = x, !.supplier = s]
  <2>1. r \in RequestRow /\ r.pc = "loaded" /\ r.op = "select"
    BY IdleType DEF RequestRow
  <2>2. req' = [req EXCEPT ![c] = r] /\ RowsType'
    BY <1>5, RowsKept DEF selectLoad, Start
  <2> HIDE DEF r
  <2> QED BY <2>1, <2>2, StepType
<1>6. ASSUME NEW x \in Rfqs, NEW s \in Suppliers, convertLoad(c, x, s)
      PROVE  TypeInv'
  <2> DEFINE r == [Idle EXCEPT !.op = "convert", !.pc = "quotation", !.rfq = x, !.supplier = s,
                               !.rate = quote[x, s].rate, !.indent = rfq[x].indent]
  <2>1. quote[x, s].rate \in Nat /\ rfq[x].indent \in Indents
    BY DEF TypeInv, RowsType, QuoteRow, RfqRow
  <2>2. r \in RequestRow /\ r.pc = "quotation" /\ r.op = "convert"
    BY <2>1, IdleType DEF RequestRow
  <2>3. req' = [req EXCEPT ![c] = r] /\ RowsType'
    BY <1>6, RowsKept DEF convertLoad, Start
  <2> HIDE DEF r
  <2> QED BY <2>2, <2>3, StepType
<1> QED BY <1>1, <1>2, <1>3, <1>4, <1>5, <1>6 DEF Request

LEMMA DoneType ==
  ASSUME TypeInv, NEW c \in InFlight, Done(c), RowsType'
  PROVE  TypeInv'
BY StepType, IdleType DEF Done

\* What a selection makes of the quotation of s' on r.
LEMMA Selected ==
  ASSUME TypeInv, NEW c \in InFlight, selectSupplier(c)
  PROVE  /\ quote' \in [Rfqs \X Suppliers -> QuoteRow]
         /\ \A r \in Rfqs, s \in Suppliers :
              /\ quote'[r, s].rate = quote[r, s].rate
              /\ quote'[r, s].selected <=>
                   IF r = req[c].rfq THEN Selection(r, req[c].supplier, req[c].clears)[s]
                   ELSE quote[r, s].selected
<1> DEFINE x == req[c].rfq
           new(k) == IF k[1] = x
             THEN [quote[k] EXCEPT !.selected = Selection(x, req[c].supplier, req[c].clears)[k[2]]]
             ELSE quote[k]
<1>1. DOMAIN quote = Rfqs \X Suppliers /\ \A k \in Rfqs \X Suppliers : quote[k] \in QuoteRow
  BY DEF TypeInv, RowsType
<1>2. quote' = [k \in Rfqs \X Suppliers |-> new(k)]
  BY <1>1 DEF selectSupplier
<1>3. ASSUME NEW r \in Rfqs, NEW s \in Suppliers
      PROVE  /\ quote'[r, s] \in QuoteRow /\ quote'[r, s].rate = quote[r, s].rate
             /\ quote'[r, s].selected <=>
                  IF r = x THEN Selection(r, req[c].supplier, req[c].clears)[s]
                  ELSE quote[r, s].selected
  <2>1. quote'[r, s] = new(<<r, s>>) /\ quote[r, s] \in QuoteRow
    BY <1>1, <1>2
  <2>2. Selection(r, req[c].supplier, req[c].clears)[s] \in BOOLEAN
    BY DEF Selection
  <2>3. CASE r = x
    <3> DEFINE b == Selection(r, req[c].supplier, req[c].clears)[s]
    <3>1. quote'[r, s] = [quote[r, s] EXCEPT !.selected = b]
      BY <2>1, <2>3
    <3>2. b \in BOOLEAN
      BY <2>2
    <3> HIDE DEF b
    <3>3. quote'[r, s] \in QuoteRow /\ quote'[r, s].rate = quote[r, s].rate /\ quote'[r, s].selected = b
      BY <2>1, <3>1, <3>2 DEF QuoteRow
    <3> QED BY <2>3, <3>3 DEF b
  <2>4. CASE r # x
    BY <2>1, <2>4
  <2> QED BY <2>3, <2>4
<1>4. quote' \in [Rfqs \X Suppliers -> QuoteRow]
  <2>1. ASSUME NEW k \in Rfqs \X Suppliers PROVE quote'[k] \in QuoteRow
    <3>1. k[1] \in Rfqs /\ k[2] \in Suppliers /\ k = <<k[1], k[2]>>
      OBVIOUS
    <3> QED BY <1>3, <3>1
  <2>2. quote' = [k \in Rfqs \X Suppliers |-> quote'[k]]
    BY <1>2
  <2> QED BY <2>1, <2>2
<1> QED BY <1>3, <1>4

LEMMA AdvanceType ==
  ASSUME TypeInv, NEW c \in InFlight, Advance(c)
  PROVE  TypeInv'
<1> DEFINE r == req[c]
<1>1. /\ r \in RequestRow /\ r.indent \in Indents /\ r.to \in Target /\ r.rfq \in Rfqs
      /\ r.supplier \in Suppliers /\ r.suppliers \in SUBSET Suppliers /\ r.rate \in Nat
  BY DEF TypeInv, RequestRow
<1>2. /\ indent \in [Indents -> Status] /\ history \in [Indents -> Seq(Target)]
      /\ rfq \in [Rfqs -> RfqRow] /\ quote \in [Rfqs \X Suppliers -> QuoteRow]
      /\ pos \in Seq(PoRow)
  BY DEF TypeInv, RowsType
<1>3. CASE transition(c)
  <2>1. Append(history[r.indent], r.to) \in Seq(Target) /\ r.to \in Status
    BY <1>1, <1>2 DEF Target, Status
  <2>2. /\ indent' = [indent EXCEPT ![r.indent] = r.to]
        /\ history' = [history EXCEPT ![r.indent] = Append(@, r.to)]
    BY <1>3 DEF transition, LoggedAction
  <2>3. RowsType'
    BY <1>1, <1>2, <1>3, <2>1, <2>2 DEF transition, RowsType
  <2> QED BY <1>3, <2>3, DoneType DEF transition
<1>4. CASE createRfq(c)
  <2>1. [exists |-> TRUE, indent |-> r.indent, suppliers |-> r.suppliers] \in RfqRow
    BY <1>1 DEF RfqRow
  <2>2. RowsType'
    BY <1>1, <1>2, <1>4, <2>1 DEF createRfq, RowsType
  <2> QED BY <1>4, <2>2, DoneType DEF createRfq
<1>5. CASE createQuotation(c) \/ updateQuotation(c)
  <2> DEFINE k == <<r.rfq, r.supplier>>
             row == [quote[k] EXCEPT !.rate = r.rate]
  <2>1. row \in QuoteRow /\ k \in Rfqs \X Suppliers
    <3>1. k \in Rfqs \X Suppliers
      BY <1>1
    <3> HIDE DEF k
    <3>2. quote[k] \in QuoteRow
      BY <1>2, <3>1
    <3> QED BY <1>1, <3>1, <3>2 DEF QuoteRow
  <2>2. quote' = [quote EXCEPT ![k] = row] /\ Done(c) /\ UNCHANGED <<indent, history, rfq, pos>>
    BY <1>5 DEF createQuotation, updateQuotation
  <2> HIDE DEF k, row
  <2>3. RowsType'
    BY <1>2, <2>1, <2>2 DEF RowsType
  <2> QED BY <2>2, <2>3, DoneType
<1>6. CASE selectClear(c)
  <2> DEFINE gone == Cleared(r.rfq, r.supplier)
             y == [r EXCEPT !.pc = "cleared", !.clears = gone]
  <2>1. gone \in SUBSET Suppliers
    BY DEF Cleared, SelectedOf
  <2>2. req' = [req EXCEPT ![c].pc = "cleared", ![c].clears = gone] /\ r.op = "select"
    BY <1>6 DEF selectClear, At
  <2> HIDE DEF gone
  <2>3. y \in RequestRow /\ y.pc = "cleared" /\ y.op = "select"
    BY <1>1, <2>1, <2>2 DEF RequestRow
  <2>4. req' = [req EXCEPT ![c] = y]
    BY <2>2 DEF TypeInv, RequestRow
  <2>5. RowsType'
    BY <1>6, RowsKept DEF selectClear
  <2> HIDE DEF y
  <2> QED BY <2>3, <2>4, <2>5, StepType
<1>7. CASE selectSupplier(c)
  <2>1. RowsType'
    BY <1>2, <1>7, Selected DEF selectSupplier, RowsType
  <2> QED BY <1>7, <2>1, DoneType DEF selectSupplier
<1>8. CASE convertReadIndent(c)
  <2> DEFINE y == [r EXCEPT !.pc = "loaded"]
  <2>1. req' = [req EXCEPT ![c] = y] /\ r.op = "convert"
    BY <1>8 DEF convertReadIndent, At
  <2>2. y \in RequestRow /\ y.pc = "loaded" /\ y.op = "convert"
    BY <1>1, <2>1 DEF RequestRow
  <2>3. RowsType'
    BY <1>8, RowsKept DEF convertReadIndent
  <2> HIDE DEF y
  <2> QED BY <2>1, <2>2, <2>3, StepType
<1>9. CASE createFromRfq(c)
  <2> DEFINE row == [indent |-> r.indent, rfq |-> r.rfq, supplier |-> r.supplier, rate |-> r.rate]
  <2>1. row \in PoRow
    BY <1>1 DEF PoRow
  <2>2. pos' = Append(pos, row) /\ indent' = [indent EXCEPT ![r.indent] = "ConvertedToPO"]
    BY <1>9 DEF createFromRfq, ConvertedStatus
  <2> HIDE DEF row
  <2>3. pos' \in Seq(PoRow) /\ indent' \in [Indents -> Status]
    BY <1>1, <1>2, <2>1, <2>2 DEF Status
  <2>4. RowsType'
    BY <1>2, <1>9, <2>3 DEF createFromRfq, RowsType
  <2> QED BY <1>9, <2>4, DoneType DEF createFromRfq
<1>10. CASE Rollback(c)
  BY <1>10, RowsKept, DoneType DEF Rollback
<1> QED BY <1>3, <1>4, <1>5, <1>6, <1>7, <1>8, <1>9, <1>10 DEF Advance

LEMMA TypeStep ==
  ASSUME TypeInv, [Next]_vars
  PROVE  TypeInv'
<1>1. CASE UNCHANGED vars
  BY <1>1 DEF vars, TypeInv, RowsType, InFlight, Idles
<1> QED BY <1>1, RequestType, AdvanceType DEF Next

-----------------------------------------------------------------------------
(* Rows, whatever runs beside each other *)

\* Who moves: the request of one client, and the rows of one table.
LEMMA OneMoves ==
  ASSUME TypeInv, NEW c \in InFlight, Request(c) \/ Advance(c)
  PROVE  InFlight' = InFlight /\ \A d \in InFlight \ {c} : req'[d] = req[d]
<1>1. CASE Request(c)
  BY <1>1 DEF Request, createIndent, transitionLoad, createRfqLoad, createQuotationLoad,
     updateQuotationLoad, selectLoad, convertLoad, Start, TypeInv, InFlight
<1>2. CASE Advance(c)
  BY <1>2 DEF Advance, transition, createRfq, createQuotation, updateQuotation, selectClear,
     selectSupplier, convertReadIndent, createFromRfq, Rollback, Done, TypeInv, InFlight
<1> QED BY <1>1, <1>2

\* A request that begins changes no row but the status of a new indent.
LEMMA RequestRows ==
  ASSUME TypeInv, NEW c \in InFlight, Request(c)
  PROVE  /\ UNCHANGED <<history, rfq, quote, pos>>
         /\ \A i \in Indents : \/ indent'[i] = indent[i]
                               \/ indent[i] = "Absent" /\ indent'[i] = "Draft"
BY DEF Request, createIndent, transitionLoad, createRfqLoad, createQuotationLoad,
   updateQuotationLoad, selectLoad, convertLoad, Start, TypeInv, RowsType

\* Approvals stay logged, an RFQ stays as it is, and orders are only added.
LEMMA Grows ==
  ASSUME TypeInv, NEW c \in InFlight, Request(c) \/ Advance(c)
  PROVE  /\ \A i \in Indents : "Approved" \in ToSet(history[i]) => "Approved" \in ToSet(history'[i])
         /\ \A r \in Rfqs : rfq[r].exists => rfq'[r] = rfq[r]
         /\ DOMAIN pos \subseteq DOMAIN pos' /\ \A k \in DOMAIN pos : pos'[k] = pos[k]
<1> DEFINE r == req[c]
<1>1. /\ r.indent \in Indents /\ r.to \in Target /\ r.rfq \in Rfqs
      /\ history \in [Indents -> Seq(Target)] /\ rfq \in [Rfqs -> RfqRow] /\ pos \in Seq(PoRow)
  BY DEF TypeInv, RowsType, RequestRow
<1>2. CASE UNCHANGED <<history, rfq, pos>>
  BY <1>2
<1>3. CASE transition(c)
  <2>1. /\ history' = [history EXCEPT ![r.indent] = Append(@, r.to)] /\ UNCHANGED <<rfq, pos>>
    BY <1>3 DEF transition, LoggedAction
  <2>2. ASSUME NEW h \in Seq(Target), NEW x \in Target, "Approved" \in ToSet(h)
        PROVE  "Approved" \in ToSet(Append(h, x))
    BY <2>2 DEF ToSet
  <2> QED BY <1>1, <2>1, <2>2
<1>4. CASE createRfq(c)
  BY <1>1, <1>4 DEF createRfq
<1>5. CASE createFromRfq(c)
  <2> DEFINE row == [indent |-> r.indent, rfq |-> r.rfq, supplier |-> r.supplier, rate |-> r.rate]
  <2>1. pos' = Append(pos, row) /\ row \in PoRow /\ UNCHANGED <<history, rfq>>
    BY <1>5 DEF createFromRfq, TypeInv, RequestRow, PoRow
  <2> HIDE DEF row
  <2> QED BY <1>1, <2>1
<1> QED BY <1>2, <1>3, <1>4, <1>5, RequestRows
       DEF Advance, createQuotation, updateQuotation, selectClear, selectSupplier,
           convertReadIndent, Rollback

\* The order a conversion adds.
LEMMA Converted ==
  ASSUME TypeInv, NEW c \in InFlight, createFromRfq(c)
  PROVE  /\ DOMAIN pos' = DOMAIN pos \cup {Len(pos) + 1} /\ Len(pos) + 1 \notin DOMAIN pos
         /\ \A k \in DOMAIN pos : pos'[k] = pos[k]
         /\ pos'[Len(pos) + 1].indent = req[c].indent
         /\ pos'[Len(pos) + 1].rfq = req[c].rfq
         /\ pos'[Len(pos) + 1].supplier = req[c].supplier
         /\ pos'[Len(pos) + 1].rate = req[c].rate
         /\ indent'[req[c].indent] = "ConvertedToPO"
         /\ \A i \in Indents \ {req[c].indent} : indent'[i] = indent[i]
<1> DEFINE r == req[c]
           row == [indent |-> r.indent, rfq |-> r.rfq, supplier |-> r.supplier, rate |-> r.rate]
<1>1. pos' = Append(pos, row) /\ indent' = [indent EXCEPT ![r.indent] = "ConvertedToPO"]
  BY DEF createFromRfq, ConvertedStatus
<1>2. pos \in Seq(PoRow) /\ r.indent \in Indents /\ indent \in [Indents -> Status]
  BY DEF TypeInv, RowsType, RequestRow
<1>5. /\ row.indent = r.indent /\ row.rfq = r.rfq /\ row.supplier = r.supplier
      /\ row.rate = r.rate
  OBVIOUS
<1> HIDE DEF row
<1>3. /\ DOMAIN pos = 1..Len(pos) /\ Len(pos) \in Nat /\ DOMAIN pos' = 1..(Len(pos) + 1)
      /\ pos'[Len(pos) + 1] = row /\ \A k \in 1..Len(pos) : pos'[k] = pos[k]
  BY <1>1, <1>2
<1>4. 1..(Len(pos) + 1) = 1..Len(pos) \cup {Len(pos) + 1} /\ Len(pos) + 1 \notin 1..Len(pos)
  BY <1>3
<1> QED BY <1>1, <1>2, <1>3, <1>4, <1>5

\* How the status of an indent can change, and with what.
LEMMA IndentMoves ==
  ASSUME TypeInv, NEW c \in InFlight, Request(c) \/ Advance(c), NEW i \in Indents
  PROVE  \/ indent'[i] = indent[i]
         \/ indent[i] = "Absent" /\ indent'[i] = "Draft"
         \/ transition(c) /\ i = req[c].indent /\ indent'[i] = req[c].to
         \/ createFromRfq(c) /\ i = req[c].indent
<1>1. CASE Request(c)
  BY <1>1, RequestRows
<1>2. CASE transition(c)
  BY <1>2 DEF transition, TypeInv, RowsType
<1>3. CASE createFromRfq(c)
  BY <1>3, Converted
<1>4. CASE UNCHANGED indent
  BY <1>4
<1> QED BY <1>1, <1>2, <1>3, <1>4
       DEF Advance, createRfq, createQuotation, updateQuotation, selectClear, selectSupplier,
           convertReadIndent, Rollback

LEMMA ReliesStep ==
  ASSUME TypeInv, SourcedInv, NEW c \in InFlight, Request(c) \/ Advance(c),
         NEW d \in InFlight
  PROVE  Relies(req[d])'
<1>1. req[d] \in RequestRow /\ req[d].indent \in Indents /\ req[d].rfq \in Rfqs /\ Relies(req[d])
  BY DEF TypeInv, RequestRow, SourcedInv
<1>2. ASSUME req'[d].op = req[d].op, req'[d].indent = req[d].indent, req'[d].rfq = req[d].rfq
      PROVE  Relies(req[d])'
  BY <1>1, <1>2, Grows DEF Relies
<1>3. ASSUME req'[d].op \notin {"rfq", "convert"}
      PROVE  Relies(req[d])'
  BY <1>3 DEF Relies
<1>4. CASE d # c
  BY <1>2, <1>4, OneMoves
<1>5. CASE d = c /\ Advance(c)
  <2>1. CASE Done(c)
    BY <1>3, <1>5, <2>1, IdleType DEF Done, TypeInv
  <2>2. CASE selectClear(c)
    BY <1>3, <1>5, <2>2 DEF selectClear, At, TypeInv, RequestRow
  <2>3. CASE convertReadIndent(c)
    BY <1>2, <1>5, <2>3 DEF convertReadIndent, TypeInv, RequestRow
  <2> QED BY <1>5, <2>1, <2>2, <2>3
         DEF Advance, transition, createRfq, createQuotation, updateQuotation, selectSupplier,
             createFromRfq, Rollback
<1>6. CASE d = c /\ Request(c)
  <2>1. ASSUME NEW i \in Indents, createIndent(c, i)
        PROVE  Relies(req[c])'
    BY <1>2, <1>6, <2>1 DEF createIndent
  <2>2. ASSUME NEW i \in Indents, NEW t \in Transitions, transitionLoad(c, i, t)
        PROVE  Relies(req[c])'
    BY <1>3, <1>6, <2>2, IdleType DEF transitionLoad, Start, TypeInv, RequestRow
  <2>3. ASSUME NEW x \in Rfqs, NEW i \in Indents, NEW ss \in SUBSET Suppliers,
               createRfqLoad(c, x, i, ss)
        PROVE  Relies(req[c])'
    <3>1. req'[c].op = "rfq" /\ req'[c].indent = i /\ history' = history
      BY <2>3, IdleType DEF createRfqLoad, Start, TypeInv, RequestRow
    <3>2. "Approved" \in ToSet(history[i])
      BY <2>3 DEF createRfqLoad, MayAsk, SourcedInv
    <3> QED BY <3>1, <3>2 DEF Relies
  <2>4. ASSUME NEW x \in Rfqs, NEW s \in Suppliers, NEW rate \in Rates,
               createQuotationLoad(c, x, s, rate) \/ updateQuotationLoad(c, x, s, rate)
        PROVE  Relies(req[c])'
    <3>1. PICK op \in {"quote", "edit"} :
            req' = [req EXCEPT ![c] = [Idle EXCEPT !.op = op, !.pc = "loaded", !.rfq = x,
                                                   !.supplier = s, !.rate = rate]]
      BY <2>4 DEF createQuotationLoad, updateQuotationLoad, Start
    <3>2. req'[c].op = op
      BY <3>1, IdleType DEF TypeInv, RequestRow
    <3> QED BY <1>3, <1>6, <3>2
  <2>5. ASSUME NEW x \in Rfqs, NEW s \in Suppliers, selectLoad(c, x, s)
        PROVE  Relies(req[c])'
    <3>1. req'[c].op = "select"
      BY <2>5, IdleType DEF selectLoad, Start, TypeInv, RequestRow
    <3> QED BY <1>3, <1>6, <3>1
  <2>6. ASSUME NEW x \in Rfqs, NEW s \in Suppliers, convertLoad(c, x, s)
        PROVE  Relies(req[c])'
    <3>1. /\ req'[c].op = "convert" /\ req'[c].rfq = x /\ req'[c].indent = rfq[x].indent
          /\ rfq' = rfq /\ rfq[x].exists
      BY <2>6, IdleType DEF convertLoad, Start, TypeInv, RequestRow
    <3> QED BY <3>1 DEF Relies
  <2> QED BY <1>6, <2>1, <2>2, <2>3, <2>4, <2>5, <2>6 DEF Request
<1> QED BY <1>4, <1>5, <1>6

LEMMA SourcedStep ==
  ASSUME TypeInv, SourcedInv, NEW c \in InFlight, Request(c) \/ Advance(c)
  PROVE  SourcedInv'
<1> DEFINE r == req[c]
<1>1. /\ r.indent \in Indents /\ r.rfq \in Rfqs /\ r.to \in Target
      /\ rfq \in [Rfqs -> RfqRow] /\ Relies(r) /\ InFlight' = InFlight
      /\ history \in [Indents -> Seq(Target)]
  BY OneMoves DEF TypeInv, RowsType, RequestRow, SourcedInv
<1>2. ConvertedIsOrdered'
  <2> SUFFICES ASSUME NEW i \in Indents, indent'[i] = "ConvertedToPO"
               PROVE  \E k \in DOMAIN pos' : pos'[k].indent = i
    BY DEF ConvertedIsOrdered, PosOf
  <2>1. CASE indent[i] = "ConvertedToPO"
    BY <2>1, Grows DEF SourcedInv, ConvertedIsOrdered, PosOf
  <2>2. CASE createFromRfq(c) /\ i = r.indent
    <3>1. Len(pos) + 1 \in DOMAIN pos' /\ pos'[Len(pos) + 1].indent = i
      BY <2>2, Converted
    <3> QED BY <3>1
  <2> QED BY <1>1, <2>1, <2>2, IndentMoves DEF Target
<1>3. \A i \in Indents : indent'[i] = "Approved" => "Approved" \in ToSet(history'[i])
  <2> SUFFICES ASSUME NEW i \in Indents, indent'[i] = "Approved"
               PROVE  "Approved" \in ToSet(history'[i])
    OBVIOUS
  <2>1. CASE indent[i] = "Approved"
    BY <2>1, Grows DEF SourcedInv
  <2>2. CASE transition(c) /\ i = r.indent /\ indent'[i] = r.to
    <3>1. history'[i] = Append(history[i], "Approved") /\ history[i] \in Seq(Target)
      BY <1>1, <2>2 DEF transition, LoggedAction
    <3>2. /\ Len(history[i]) + 1 \in DOMAIN history'[i]
          /\ history'[i][Len(history[i]) + 1] = "Approved"
      BY <3>1
    <3> QED BY <3>2 DEF ToSet
  <2>3. CASE createFromRfq(c) /\ i = r.indent
    BY <2>3, Converted
  <2> QED BY <2>1, <2>2, <2>3, IndentMoves
<1>4. \A x \in Rfqs : rfq'[x].exists => "Approved" \in ToSet(history'[rfq'[x].indent])
  <2> SUFFICES ASSUME NEW x \in Rfqs, rfq'[x].exists
               PROVE  "Approved" \in ToSet(history'[rfq'[x].indent])
    OBVIOUS
  <2>1. CASE rfq[x].exists
    <3>1. rfq[x].indent \in Indents /\ "Approved" \in ToSet(history[rfq[x].indent])
      BY <1>1, <2>1 DEF SourcedInv, OnlyApprovedIsSourced, RfqRow
    <3> QED BY <2>1, <3>1, Grows
  <2>2. CASE createRfq(c)
    <3>1. /\ r.op = "rfq" /\ history' = history
          /\ rfq'[r.rfq].indent = r.indent /\ \A y \in Rfqs \ {r.rfq} : rfq'[y] = rfq[y]
      BY <1>1, <2>2 DEF createRfq, At
    <3> QED BY <1>1, <2>1, <3>1 DEF Relies
  <2>3. CASE UNCHANGED rfq
    BY <2>1, <2>3
  <2> QED BY <2>2, <2>3, RequestRows
         DEF Advance, transition, createQuotation, updateQuotation, selectClear, selectSupplier,
             convertReadIndent, createFromRfq, Rollback
<1>5. \A p \in ToSet(pos') : rfq'[p.rfq].exists /\ p.indent = rfq'[p.rfq].indent
  <2> SUFFICES ASSUME NEW k \in DOMAIN pos'
               PROVE  rfq'[pos'[k].rfq].exists /\ pos'[k].indent = rfq'[pos'[k].rfq].indent
    BY DEF ToSet
  <2>1. CASE k \in DOMAIN pos
    <3>1. pos[k] \in PoRow /\ pos[k] \in ToSet(pos) /\ pos'[k] = pos[k]
      BY <2>1, Grows DEF TypeInv, RowsType, ToSet
    <3>2. /\ pos[k].rfq \in Rfqs /\ rfq[pos[k].rfq].exists
          /\ pos[k].indent = rfq[pos[k].rfq].indent
      BY <3>1 DEF SourcedInv, OnlyApprovedIsSourced, PoRow
    <3> QED BY <3>1, <3>2, Grows
  <2>2. CASE createFromRfq(c) /\ k \notin DOMAIN pos
    <3>1. pos'[k].rfq = r.rfq /\ pos'[k].indent = r.indent /\ r.op = "convert" /\ rfq' = rfq
      BY <2>2, Converted DEF createFromRfq, At
    <3> QED BY <1>1, <3>1 DEF Relies
  <2>3. CASE UNCHANGED pos
    BY <2>1, <2>3
  <2> QED BY <2>1, <2>2, <2>3, RequestRows
         DEF Advance, transition, createRfq, createQuotation, updateQuotation, selectClear,
             selectSupplier, convertReadIndent, Rollback
<1>6. \A d \in InFlight : Relies(req[d])'
  BY ReliesStep
<1> QED BY <1>1, <1>2, <1>3, <1>4, <1>5, <1>6 DEF SourcedInv, OnlyApprovedIsSourced

-----------------------------------------------------------------------------
(* One request at a time *)

LEMMA Lone ==
  ASSUME TypeInv, Alone, NEW c \in InFlight
  PROVE  \A d \in InFlight : d = c
<1>1. PICK x : InFlight = {x}
  BY FS_Singleton DEF TypeInv, Alone
<1> QED BY <1>1

LEMMA RequestKnows ==
  ASSUME TypeInv, SourcedInv, AloneInv, Alone, NEW c \in InFlight, Request(c)
  PROVE  Knows(req[c])'
<1>1. /\ \A d \in InFlight : Knows(req[d])
      /\ \A i \in Indents : PosOf(i) # {} => indent[i] = "ConvertedToPO"
  BY DEF AloneInv
<1>2. ASSUME NEW i \in Indents, createIndent(c, i)
      PROVE  Knows(req[c])'
  <2>1. req' = req /\ req[c].op = "none"
    BY <1>2 DEF createIndent, TypeInv
  <2> QED BY <2>1 DEF Knows
<1>3. ASSUME NEW i \in Indents, NEW t \in Transitions, transitionLoad(c, i, t)
      PROVE  Knows(req[c])'
  <2>1. /\ req'[c].op = "transition" /\ req'[c].indent = i /\ indent' = indent
    BY <1>3, IdleType DEF transitionLoad, Start, TypeInv, RequestRow
  <2>2. t.from \in {"Draft", "Submitted"}
    BY DEF Transitions
  <2>3. indent[i] # "ConvertedToPO"
    BY <1>3, <2>2 DEF transitionLoad, MayMove
  <2> QED BY <2>1, <2>3 DEF Knows
<1>4. ASSUME NEW x \in Rfqs, NEW i \in Indents, NEW ss \in SUBSET Suppliers,
             createRfqLoad(c, x, i, ss)
      PROVE  Knows(req[c])'
  <2>1. req'[c].op = "rfq"
    BY <1>4, IdleType DEF createRfqLoad, Start, TypeInv, RequestRow
  <2> QED BY <2>1 DEF Knows
<1>5. ASSUME NEW x \in Rfqs, NEW s \in Suppliers, NEW rate \in Rates,
             createQuotationLoad(c, x, s, rate) \/ updateQuotationLoad(c, x, s, rate)
      PROVE  Knows(req[c])'
  <2>1. PICK op \in {"quote", "edit"} :
          req' = [req EXCEPT ![c] = [Idle EXCEPT !.op = op, !.pc = "loaded", !.rfq = x,
                                                 !.supplier = s, !.rate = rate]]
    BY <1>5 DEF createQuotationLoad, updateQuotationLoad, Start
  <2>2. req'[c].op = op
    BY <2>1, IdleType DEF TypeInv, RequestRow
  <2> QED BY <2>2 DEF Knows
<1>6. ASSUME NEW x \in Rfqs, NEW s \in Suppliers, selectLoad(c, x, s)
      PROVE  Knows(req[c])'
  <2>1. req'[c].op = "select" /\ req'[c].pc = "loaded"
    BY <1>6, IdleType DEF selectLoad, Start, TypeInv, RequestRow
  <2> QED BY <2>1 DEF Knows
<1>7. ASSUME NEW x \in Rfqs, NEW s \in Suppliers, convertLoad(c, x, s)
      PROVE  Knows(req[c])'
  <2>1. /\ req'[c].op = "convert" /\ req'[c].pc = "quotation" /\ req'[c].rfq = x
        /\ req'[c].supplier = s /\ req'[c].rate = quote[x, s].rate /\ quote' = quote
        /\ quote[x, s].selected
    BY <1>7, IdleType DEF convertLoad, SelectedOf, Start, TypeInv, RequestRow
  <2> QED BY <2>1 DEF Knows
<1> QED BY <1>2, <1>3, <1>4, <1>5, <1>6, <1>7 DEF Request

LEMMA AdvanceKnows ==
  ASSUME TypeInv, SourcedInv, AloneInv, Alone, NEW c \in InFlight, Advance(c)
  PROVE  Knows(req[c])'
<1> DEFINE r == req[c]
<1>1. r \in RequestRow /\ Knows(r)
  BY DEF TypeInv, AloneInv
<1>2. CASE Done(c)
  <2>1. req'[c].op = "none"
    BY <1>2, IdleType DEF Done, TypeInv
  <2> QED BY <2>1 DEF Knows
<1>3. CASE selectClear(c)
  <2>1. /\ req'[c].op = "select" /\ req'[c].rfq = r.rfq /\ req'[c].supplier = r.supplier
        /\ req'[c].clears = Cleared(r.rfq, r.supplier) /\ quote' = quote
    BY <1>1, <1>3 DEF selectClear, At, TypeInv, RequestRow
  <2> QED BY <2>1 DEF Knows, Cleared, SelectedOf
<1>4. CASE convertReadIndent(c)
  <2>1. /\ req'[c].op = "convert" /\ req'[c].indent = r.indent /\ req'[c].rfq = r.rfq
        /\ req'[c].supplier = r.supplier /\ req'[c].rate = r.rate /\ r.op = "convert"
        /\ quote' = quote /\ indent' = indent /\ indent[r.indent] # "ConvertedToPO"
    BY <1>1, <1>4 DEF convertReadIndent, MayConvert, At, TypeInv, RequestRow
  <2> QED BY <1>1, <2>1 DEF Knows
<1> QED BY <1>2, <1>3, <1>4
       DEF Advance, transition, createRfq, createQuotation, updateQuotation, selectSupplier,
           createFromRfq, Rollback

LEMMA SelectionStep ==
  ASSUME TypeInv, AloneInv, Alone, NEW c \in InFlight, Request(c) \/ Advance(c), NEW x \in Rfqs
  PROVE  AtMostOne(SelectedOf(x)')
<1> DEFINE r == req[c]
<1>1. /\ AtMostOne(SelectedOf(x)) /\ Knows(r) /\ r.rfq \in Rfqs /\ r.supplier \in Suppliers
      /\ quote \in [Rfqs \X Suppliers -> QuoteRow]
  BY DEF AloneInv, TypeInv, RowsType, RequestRow
<1>2. CASE \A s \in Suppliers : quote'[x, s].selected <=> quote[x, s].selected
  BY <1>1, <1>2 DEF SelectedOf, AtMostOne
<1>3. CASE createQuotation(c) \/ updateQuotation(c)
  <2> DEFINE k == <<r.rfq, r.supplier>>
  <2>1. quote' = [quote EXCEPT ![k].rate = r.rate]
    BY <1>3 DEF createQuotation, updateQuotation
  <2>2. \A j \in Rfqs \X Suppliers : quote'[j].selected = quote[j].selected
    <3> HIDE DEF k
    <3> QED BY <1>1, <2>1 DEF QuoteRow
  <2>3. \A s \in Suppliers : <<x, s>> \in Rfqs \X Suppliers
    OBVIOUS
  <2> QED BY <1>2, <2>2, <2>3
<1>4. CASE selectSupplier(c) /\ x = r.rfq
  <2>1. r.op = "select" /\ r.pc = "cleared" /\ r.clears = SelectedOf(x) \ {r.supplier}
    BY <1>1, <1>4 DEF selectSupplier, At, Knows
  <2>2. \A s \in Suppliers : quote'[x, s].selected <=> Selection(x, r.supplier, r.clears)[s]
    BY <1>4, Selected
  <2>3. \A s \in Suppliers : Selection(x, r.supplier, r.clears)[s] => s = r.supplier
    BY <2>1 DEF Selection, SelectedOf
  <2> QED BY <2>2, <2>3 DEF SelectedOf, AtMostOne
<1>5. CASE selectSupplier(c) /\ x # r.rfq
  BY <1>2, <1>5, Selected
<1>6. CASE UNCHANGED quote
  BY <1>2, <1>6
<1> QED BY <1>3, <1>4, <1>5, <1>6, RequestRows
       DEF Advance, transition, createRfq, selectClear, convertReadIndent, createFromRfq, Rollback

LEMMA OrdersStep ==
  ASSUME TypeInv, SourcedInv, AloneInv, Alone, NEW c \in InFlight, Request(c) \/ Advance(c),
         NEW i \in Indents
  PROVE  AtMostOne(PosOf(i)') /\ (PosOf(i)' # {} => indent'[i] = "ConvertedToPO")
<1> DEFINE r == req[c]
<1>1. /\ AtMostOne(PosOf(i)) /\ (PosOf(i) # {} => indent[i] = "ConvertedToPO") /\ Knows(r)
      /\ r.to \in Target
  BY DEF AloneInv, TypeInv, RequestRow
<1>2. CASE createFromRfq(c)
  <2>1. r.op = "convert" /\ r.pc = "loaded" /\ indent[r.indent] # "ConvertedToPO"
    BY <1>1, <1>2 DEF createFromRfq, At, Knows
  <2> DEFINE n == Len(pos) + 1
  <2>2. /\ DOMAIN pos' = DOMAIN pos \cup {n} /\ n \notin DOMAIN pos
        /\ \A k \in DOMAIN pos : pos'[k] = pos[k]
        /\ pos'[n].indent = r.indent
        /\ indent'[r.indent] = "ConvertedToPO"
        /\ \A j \in Indents \ {r.indent} : indent'[j] = indent[j]
    BY <1>2, Converted
  <2> HIDE DEF n
  <2>3. CASE i = r.indent
    <3>1. PosOf(i) = {}
      BY <1>1, <2>1, <2>3
    <3>2. PosOf(i)' = {n}
      BY <2>2, <2>3, <3>1 DEF PosOf
    <3> QED BY <2>2, <2>3, <3>2 DEF AtMostOne
  <2>4. CASE i # r.indent
    <3>1. PosOf(i)' = PosOf(i)
      BY <2>2, <2>4 DEF PosOf
    <3> QED BY <1>1, <2>2, <2>4, <3>1
  <2> QED BY <2>3, <2>4
<1>3. CASE ~createFromRfq(c)
  <2>1. pos' = pos
    BY <1>3, RequestRows
       DEF Advance, transition, createRfq, createQuotation, updateQuotation, selectClear,
           selectSupplier, convertReadIndent, Rollback
  <2>2. PosOf(i)' = PosOf(i)
    BY <2>1 DEF PosOf
  <2>3. indent[i] = "ConvertedToPO" => indent'[i] = "ConvertedToPO"
    <3>1. transition(c) => indent[r.indent] # "ConvertedToPO"
      BY <1>1 DEF transition, At, Knows
    <3> QED BY <1>3, <3>1, IndentMoves
  <2> QED BY <1>1, <2>2, <2>3
<1> QED BY <1>2, <1>3

-----------------------------------------------------------------------------
(* Theorems *)

LEMMA InitInv == Init => Inv
<1> SUFFICES ASSUME Init PROVE Inv
  OBVIOUS
<1>1. TypeInv
  BY InitType
<1>2. /\ \A i \in Indents : indent[i] = "Absent" /\ history[i] = << >>
      /\ \A r \in Rfqs : ~rfq[r].exists
      /\ \A r \in Rfqs, s \in Suppliers : ~quote[r, s].selected
      /\ pos = << >>
  BY DEF Init
<1>3. \A c \in InFlight : req[c] = Idle
  BY DEF Init, InFlight
<1>4. (\A i \in Indents : PosOf(i) = {}) /\ ToSet(pos) = {} /\ \A r \in Rfqs : SelectedOf(r) = {}
  <2>1. DOMAIN pos = {}
    <3>1. pos \in Seq(PoRow) /\ Len(pos) = 0
      BY <1>1, <1>2 DEF TypeInv, RowsType
    <3>2. DOMAIN pos = 1..0
      BY <3>1
    <3> QED BY <3>2
  <2>2. ToSet(pos) = {}
    BY <2>1 DEF ToSet
  <2>3. \A i \in Indents : PosOf(i) = {}
    BY <2>1 DEF PosOf
  <2>4. \A r \in Rfqs : SelectedOf(r) = {}
    BY <1>2 DEF SelectedOf
  <2> QED BY <2>2, <2>3, <2>4
<1>5. SourcedInv
  BY <1>2, <1>3, <1>4, IdleType DEF SourcedInv, ConvertedIsOrdered, OnlyApprovedIsSourced, Relies
<1>6. AloneInv
  BY <1>3, <1>4, IdleType DEF AloneInv, Knows, AtMostOne
<1> QED BY <1>1, <1>5, <1>6 DEF Inv

LEMMA StepInv == Inv /\ [Next]_vars => Inv'
<1> SUFFICES ASSUME Inv, [Next]_vars PROVE Inv'
  OBVIOUS
<1> USE DEF Inv
<1>1. TypeInv'
  BY TypeStep
<1>2. CASE UNCHANGED vars
  <2>1. SourcedInv'
    BY <1>2 DEF vars, SourcedInv, ConvertedIsOrdered, OnlyApprovedIsSourced, PosOf, Relies, InFlight
  <2>2. AloneInv'
    BY <1>2 DEF vars, AloneInv, Alone, InFlight, Knows, SelectedOf, PosOf
  <2> QED BY <1>1, <2>1, <2>2
<1>3. ASSUME NEW c \in InFlight, Request(c) \/ Advance(c)
      PROVE  Inv'
  <2>1. SourcedInv' /\ InFlight' = InFlight
    BY <1>3, SourcedStep, OneMoves
  <2>2. CASE Alone
    <3>1. \A d \in InFlight : Knows(req[d])'
      <4>1. Knows(req[c])'
        BY <1>3, <2>2, RequestKnows, AdvanceKnows
      <4> QED BY <1>3, <2>2, <4>1, Lone
    <3>2. \A r \in Rfqs : AtMostOne(SelectedOf(r))'
      BY <1>3, <2>2, SelectionStep DEF AtMostOne
    <3>3. \A i \in Indents : AtMostOne(PosOf(i))' /\ (PosOf(i)' # {} => indent'[i] = "ConvertedToPO")
      BY <1>3, <2>2, OrdersStep DEF AtMostOne
    <3> QED BY <1>1, <2>1, <3>1, <3>2, <3>3 DEF AloneInv
  <2>3. CASE ~Alone
    BY <1>1, <2>1, <2>3 DEF AloneInv, Alone
  <2> QED BY <2>2, <2>3
<1> QED BY <1>2, <1>3 DEF Next

LEMMA FewElements ==
  ASSUME NEW S, AtMostOne(S)
  PROVE  Cardinality(S) <= 1
<1>1. CASE S = {}
  BY <1>1, FS_EmptySet
<1>2. CASE S # {}
  <2>1. PICK x : S = {x}
    BY <1>2 DEF AtMostOne
  <2>2. Cardinality({x}) = 1
    BY FS_Singleton
  <2> QED BY <2>1, <2>2
<1> QED BY <1>1, <1>2

\* Whatever requests overlap and wherever they end, an indent that shows as
\* converted has its purchase order.
THEOREM ConvertedHasOrder == Spec => []ConvertedIsOrdered
<1>1. Inv => ConvertedIsOrdered
  BY DEF Inv, SourcedInv
<1> QED BY InitInv, StepInv, <1>1, PTL DEF Spec

\* Whatever requests overlap, suppliers are asked and goods ordered only for an
\* indent whose approval is logged.
THEOREM ApprovalComesFirst == Spec => []OnlyApprovedIsSourced
<1>1. Inv => OnlyApprovedIsSourced
  BY DEF Inv, SourcedInv
<1> QED BY InitInv, StepInv, <1>1, PTL DEF Spec

\* With one request at a time no RFQ ever has two selected quotations, for any
\* number of suppliers.
THEOREM SelectionIsOne == Spec => []OneSelected
<1>1. Inv => OneSelected
  BY FewElements DEF Inv, AloneInv, OneSelected
<1> QED BY InitInv, StepInv, <1>1, PTL DEF Spec

\* With one request at a time an indent is converted once, however many RFQs were
\* made from it: its first order closes it for all of them.
THEOREM OneOrderPerIndent == Spec => []ConvertsOnce
<1>1. Inv => ConvertsOnce
  BY FewElements DEF Inv, AloneInv, ConvertsOnce
<1> QED BY InitInv, StepInv, <1>1, PTL DEF Spec

\* With one request at a time a purchase order is made out to the supplier that is
\* selected, at the rate of its quotation.
THEOREM TermsAsSelected == Spec => OrderedAsSelected
<1>1. Inv /\ [Next]_vars => [Alone /\ pos' # pos => LET p == Last(pos') IN
        quote[p.rfq, p.supplier].selected /\ quote[p.rfq, p.supplier].rate = p.rate]_vars
  <2> SUFFICES ASSUME Inv, [Next]_vars, Alone, pos' # pos
               PROVE  quote[Last(pos').rfq, Last(pos').supplier].selected
                      /\ quote[Last(pos').rfq, Last(pos').supplier].rate = Last(pos').rate
    OBVIOUS
  <2> USE DEF Inv
  <2>1. PICK c \in InFlight : createFromRfq(c)
    BY RequestRows
       DEF Next, vars, Advance, transition, createRfq, createQuotation, updateQuotation, selectClear,
           selectSupplier, convertReadIndent, Rollback
  <2>2. pos \in Seq(PoRow) /\ Len(pos') = Len(pos) + 1
    BY <2>1 DEF createFromRfq, TypeInv, RowsType
  <2>3. /\ Last(pos').rfq = req[c].rfq /\ Last(pos').supplier = req[c].supplier
        /\ Last(pos').rate = req[c].rate
    BY <2>1, <2>2, Converted DEF Last
  <2>4. req[c].op = "convert" /\ Knows(req[c])
    BY <2>1 DEF createFromRfq, At, AloneInv
  <2> QED BY <2>3, <2>4 DEF Knows
<1> QED BY InitInv, StepInv, <1>1, PTL DEF Spec, OrderedAsSelected

=============================================================================
