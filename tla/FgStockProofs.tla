--------------------------- MODULE FgStockProofs ---------------------------
(* Theorems about FgStock, for every value of its constants.  The first half *)
(* is about any number of requests at a time: types, whose reservations a    *)
(* dispatch draws on and in which order, dispatch status and ledger.  The    *)
(* second is about requests that are served one at a time, as in the run     *)
(* fg_shared: the counters agree with the rows they are derived from, and    *)
(* every handler is one step of FgPool.                                      *)
EXTENDS FgStock, TLAPS, FiniteSetTheorems, SequenceTheorems, WellFoundedInduction

-----------------------------------------------------------------------------
(* Sums *)

\* A sum of rows is a natural number: the units counted are finitely many.
LEMMA TotalType ==
  ASSUME NEW rows, NEW ids, IsFiniteSet(ids), MaxQty \in Nat
  PROVE  Total(rows, ids) \in Nat
<1>1. IsFiniteSet(Qty)
  BY FS_Interval DEF Qty
<1>2. IsFiniteSet(ids \X Qty)
  BY <1>1, FS_Product
<1>3. {u \in ids \X Qty : u[2] <= rows[u[1]].qty} \in SUBSET (ids \X Qty)
  OBVIOUS
<1>4. IsFiniteSet({u \in ids \X Qty : u[2] <= rows[u[1]].qty})
  BY <1>2, <1>3, FS_Subset
<1> QED BY <1>4, FS_CardinalityType DEF Total

\* The positions of a sequence, and any set of them, are finitely many.
LEMMA PositionsFinite ==
  ASSUME NEW R, NEW rs \in Seq(R), NEW ids \in SUBSET DOMAIN rs
  PROVE  IsFiniteSet(ids)
<1>1. DOMAIN rs = 1..Len(rs) /\ Len(rs) \in Nat
  OBVIOUS
<1>2. IsFiniteSet(DOMAIN rs)
  BY <1>1, FS_Interval
<1> QED BY <1>2, FS_Subset

-----------------------------------------------------------------------------
(* Type correctness *)

LEMMA IdleOK ==
  ASSUME TypeOK
  PROVE  RequestOK(Idle)
<1>1. (CHOOSE b \in Batches : TRUE) \in Batches
  BY FgAssumption
<1> QED
  BY <1>1, FgAssumption DEF RequestOK, Idle, NoRow, NoWrite, BatchRow, StockStatus,
     DispatchStatus, Places, OrderStatus

LEMMA InitType == Init => TypeOK
<1> SUFFICES ASSUME Init PROVE TypeOK
  OBVIOUS
<1> USE DEF Init
<1>1. batch \in [Batches -> BatchRow] /\ ledger \in [Batches -> LedgerRow]
  BY DEF NoRow, NoMoves, BatchRow, LedgerRow, StockStatus, DispatchStatus, Places
<1>2. resv \in Seq(ResvRow) /\ lineItems \in Seq(LineItem)
  OBVIOUS
<1>3. order \in [SalesOrders -> OrderRow]
  BY DEF OrderRow, OrderStatus
<1>4. (CHOOSE b \in Batches : TRUE) \in Batches
  BY FgAssumption
<1>5. RequestOK(Idle)
  BY <1>4, FgAssumption DEF RequestOK, Idle, NoRow, NoWrite, BatchRow, StockStatus,
     DispatchStatus, Places, OrderStatus
<1>6. DOMAIN req = Clients /\ \A c \in Clients : RequestOK(req[c])
  BY <1>5
<1> QED BY <1>1, <1>2, <1>3, <1>6 DEF TypeOK

\* A step that only moves the request of c keeps the types when that request
\* stays well-formed.
LEMMA RequestStep ==
  ASSUME TypeOK, NEW c \in Clients, UNCHANGED <<batch, resv, lineItems, order, ledger>>,
         DOMAIN req' = Clients, \A d \in Clients \ {c} : req'[d] = req[d],
         RequestOK(req'[c])
  PROVE  TypeOK'
<1>1. \A d \in Clients : RequestOK(req'[d])
  BY DEF TypeOK
<1>2. \A r : RequestOK(r) => RequestOK(r)'
  BY DEF RequestOK
<1> QED BY <1>1, <1>2 DEF TypeOK

\* A step that changes rows but no request, or ends one, keeps the requests
\* well-formed as long as no reservation row disappears.
LEMMA RequestsKept ==
  ASSUME TypeOK, DOMAIN resv \subseteq DOMAIN resv', DOMAIN req' = Clients,
         \A d \in Clients : req'[d] = req[d] \/ req'[d] = Idle
  PROVE  DOMAIN req' = Clients /\ (\A d \in Clients : RequestOK(req[d]))'
<1>1. \A d \in Clients : RequestOK(req'[d])
  BY IdleOK DEF TypeOK
<1>2. \A r : RequestOK(r) => RequestOK(r)'
  BY DEF RequestOK
<1> QED BY <1>1, <1>2

LEMMA LoadType ==
  ASSUME TypeOK, NEW c \in Clients, NEW op \in {"transfer", "hold", "release", "reserve"},
         NEW b \in Batches, NEW so \in SalesOrders \cup {NoSO}, NEW q \in 0..MaxQty,
         NEW l \in Places, Load(c, op, b, so, q, l),
         op = "reserve" => so \in SalesOrders /\ q \in Qty
  PROVE  TypeOK'
<1> DEFINE r == req'[c]
<1>1. /\ DOMAIN r = DOMAIN Idle /\ r.op = op /\ r.pc = "loaded" /\ r.b = b /\ r.so = so
      /\ r.qty = q /\ r.res = 0 /\ r.loc = l /\ r.row = batch[b] /\ r.claims = NoWrite
      /\ r.lines = << >> /\ r.wBatch = NoWrite /\ r.wLog = NoWrite /\ r.wResv = NoWrite
      /\ r.wNew = << >> /\ r.wItems = << >> /\ r.status = "Absent"
  BY DEF Load, TypeOK, Idle
<1>2. batch[b] \in BatchRow
  BY DEF TypeOK
<1> HIDE DEF r
<1>3. RequestOK(r)
  BY <1>1, <1>2 DEF RequestOK, NoWrite, OrderStatus
<1> USE DEF r
<1> QED BY <1>3, RequestStep DEF Load, TypeOK

LEMMA RequestType ==
  ASSUME TypeOK, NEW c \in Clients, Request(c)
  PROVE  TypeOK'
<1>1. CASE \E s \in SalesOrders : deleteSalesOrder(c, s)
  <2>1. PICK s \in SalesOrders : deleteSalesOrder(c, s)
    BY <1>1
  <2>2. lineItems' \in Seq(LineItem)
    <3>1. /\ DOMAIN lineItems = 1..Len(lineItems) /\ Len(lineItems) \in Nat
          /\ \A i \in DOMAIN lineItems : lineItems[i] \in LineItem
      BY DEF TypeOK
    <3>2. \A i \in DOMAIN lineItems :
            [lineItems[i] EXCEPT !.so = IF @ = s THEN NoSO ELSE @] \in LineItem
      BY <3>1 DEF LineItem
    <3>3. lineItems' \in [1..Len(lineItems) -> LineItem]
      BY <2>1, <3>1, <3>2 DEF deleteSalesOrder
    <3> QED BY <3>1, <3>3, SeqDef
  <2>3. order' \in [SalesOrders -> OrderRow]
    BY <2>1 DEF deleteSalesOrder, TypeOK, OrderRow, OrderStatus
  <2> QED BY <2>1, <2>2, <2>3, RequestsKept DEF deleteSalesOrder, TypeOK
<1>2. ASSUME NEW s \in SalesOrders, NEW q \in OrderedQty,
             createSalesOrder(c, s, q) \/ updateSalesOrder(c, s, q)
      PROVE  TypeOK'
  <2>0. q \in Nat /\ order \in [SalesOrders -> OrderRow]
    BY FgAssumption DEF TypeOK
  <2>1. order' \in [SalesOrders -> OrderRow]
    <3>1. CASE createSalesOrder(c, s, q)
      BY <2>0, <3>1 DEF createSalesOrder, OrderRow, OrderStatus
    <3>2. CASE updateSalesOrder(c, s, q)
      BY <2>0, <3>2 DEF updateSalesOrder, OrderRow
    <3> QED BY <1>2, <3>1, <3>2
  <2> QED BY <1>2, <2>1, RequestsKept DEF createSalesOrder, updateSalesOrder, TypeOK
<1>3. ASSUME NEW b \in Batches, NEW l \in Places, generateFgBatch(c, b, l)
      PROVE  TypeOK'
  <2>1. batch' \in [Batches -> BatchRow] /\ ledger' \in [Batches -> LedgerRow]
    <3>1. FreshRow(l) \in BatchRow
      BY DEF FreshRow, BatchRow, StockStatus, DispatchStatus
    <3>2. [ledger[b] EXCEPT !.at = l] \in LedgerRow
      BY DEF TypeOK, LedgerRow
    <3> QED BY <1>3, <3>1, <3>2 DEF generateFgBatch, TypeOK
  <2> QED BY <1>3, <2>1, RequestsKept DEF generateFgBatch, TypeOK
<1>4. ASSUME NEW b \in Batches, NEW l \in Locations, transferLoad(c, b, l)
      PROVE  TypeOK'
  BY <1>4, LoadType, FgAssumption DEF transferLoad, Places
<1>5. ASSUME NEW b \in Batches, holdLoad(c, b) \/ releaseLoad(c, b)
      PROVE  TypeOK'
  BY <1>5, LoadType, FgAssumption DEF holdLoad, releaseLoad, Places
<1>6. ASSUME NEW b \in Batches, NEW s \in SalesOrders, NEW q \in Qty, reserveLoad(c, b, s, q)
      PROVE  TypeOK'
  <2>1. q \in 0..MaxQty
    BY FgAssumption DEF Qty
  <2> QED BY <1>6, <2>1, LoadType DEF reserveLoad, Places
<1>7. ASSUME NEW i \in DOMAIN resv, cancelLoad(c, i)
      PROVE  TypeOK'
  <2>1. resv[i] \in ResvRow
    BY DEF TypeOK
  <2> DEFINE r == req'[c]
  <2>2. /\ DOMAIN r = DOMAIN Idle /\ r.op = "cancel" /\ r.pc = "found"
        /\ r.b = resv[i].b /\ r.so = resv[i].so /\ r.qty = resv[i].qty /\ r.res = i
        /\ r.loc = Unassigned /\ r.row = NoRow /\ r.claims = NoWrite
        /\ r.lines = << >> /\ r.wBatch = NoWrite /\ r.wLog = NoWrite /\ r.wResv = NoWrite
        /\ r.wNew = << >> /\ r.wItems = << >> /\ r.status = "Absent"
    BY <1>7 DEF cancelLoad, TypeOK, Idle
  <2>3. NoRow \in BatchRow
    BY DEF NoRow, BatchRow, StockStatus, DispatchStatus, Places
  <2> HIDE DEF r
  <2>4. RequestOK(r)
    BY <2>1, <2>2, <2>3 DEF RequestOK, NoWrite, OrderStatus, Places, ResvRow
  <2> USE DEF r
  <2> QED BY <1>7, <2>4, RequestStep DEF cancelLoad, TypeOK
<1>8. ASSUME NEW s \in SalesOrders \cup {NoSO}, NEW lines \in Lines, createDispatch(c, s, lines)
      PROVE  TypeOK'
  <2>1. lines \in Seq([b : Batches, qty : Qty])
    <3>1. PICK n \in 1..MaxLines : lines \in [1..n -> [b : Batches, qty : Qty]]
      BY DEF Lines
    <3>2. n \in Nat
      BY FgAssumption
    <3> DEFINE X == [b : Batches, qty : Qty]
    <3>3. lines \in [1..n -> X]
      BY <3>1
    <3> HIDE DEF X
    <3>4. lines \in UNION {[1..k -> X] : k \in Nat}
      BY <3>2, <3>3
    <3>5. lines \in Seq(X)
      BY <3>4, SeqDef
    <3> QED BY <3>5 DEF X
  <2> DEFINE r == req'[c]
  <2>2. /\ DOMAIN r = DOMAIN Idle /\ r.op = "dispatch" /\ r.pc = "line"
        /\ r.b = Idle.b /\ r.so = s /\ r.qty = 0 /\ r.res = 0 /\ r.loc = Unassigned
        /\ r.row = NoRow /\ r.claims = NoWrite /\ r.lines = lines
        /\ r.wBatch = NoWrite /\ r.wLog = NoWrite /\ r.wResv = NoWrite
        /\ r.wNew = << >> /\ r.wItems = << >> /\ r.status = "Absent"
    BY <1>8 DEF createDispatch, TypeOK, Idle
  <2>3. NoRow \in BatchRow /\ Idle.b \in Batches
    BY IdleOK DEF RequestOK, NoRow, BatchRow, StockStatus, DispatchStatus, Places
  <2> HIDE DEF r
  <2>4. RequestOK(r)
    BY <2>1, <2>2, <2>3, FgAssumption DEF RequestOK, NoWrite, OrderStatus, Places
  <2> USE DEF r
  <2> QED BY <1>8, <2>4, RequestStep DEF createDispatch, TypeOK
<1> QED
  BY <1>1, <1>2, <1>3, <1>4, <1>5, <1>6, <1>7, <1>8 DEF Request

\* What a transaction reads has the types of the tables, and shows every
\* reservation row there is.
LEMMA ViewTypes ==
  ASSUME TypeOK, NEW c \in Clients
  PROVE  /\ BatchView(c) \in [Batches -> BatchRow]
         /\ LedgerView(c) \in [Batches -> LedgerRow]
         /\ ResvView(c) \in Seq(ResvRow)
         /\ DOMAIN resv \subseteq DOMAIN ResvView(c)
         /\ req[c].op = "dispatch" => DOMAIN ResvView(c) = DOMAIN resv
         /\ \A i \in DOMAIN ResvView(c) : ResvView(c)[i] \in ResvRow
         /\ ItemView(c) \in Seq(LineItem)
<1> DEFINE r == req[c]
<1>1. RequestOK(r)
  BY DEF TypeOK
<1>2. BatchView(c) \in [Batches -> BatchRow]
  BY <1>1 DEF TypeOK, RequestOK, BatchView, Over
<1>3. LedgerView(c) \in [Batches -> LedgerRow]
  BY <1>1 DEF TypeOK, RequestOK, LedgerView, Over
<1>4. resv \in [1..Len(resv) -> ResvRow] /\ Len(resv) \in Nat /\ DOMAIN resv = 1..Len(resv)
  BY LenProperties DEF TypeOK
<1>5. Over(resv, r.wResv) \in [1..Len(resv) -> ResvRow]
  BY <1>1, <1>4 DEF RequestOK, Over
<1>6. Over(resv, r.wResv) \in Seq(ResvRow) /\ Len(Over(resv, r.wResv)) = Len(resv)
  BY <1>4, <1>5, SeqDef, LenProperties
<1>7. r.wNew \in Seq(ResvRow)
  BY <1>1 DEF RequestOK
<1>8. /\ ResvView(c) \in Seq(ResvRow)
      /\ Len(ResvView(c)) = Len(resv) + Len(r.wNew) /\ Len(r.wNew) \in Nat
  <2> DEFINE x == Over(resv, r.wResv)  y == r.wNew
  <2>1. x \in Seq(ResvRow) /\ y \in Seq(ResvRow) /\ Len(x) = Len(resv)
    BY <1>6, <1>7
  <2>2. ResvView(c) = x \o y
    BY DEF ResvView
  <2> HIDE DEF x, y
  <2>3. x \o y \in Seq(ResvRow) /\ Len(x \o y) = Len(x) + Len(y) /\ Len(y) \in Nat
    BY <2>1, ConcatProperties, LenProperties
  <2> QED BY <2>1, <2>2, <2>3 DEF y
<1>9. DOMAIN resv \subseteq DOMAIN ResvView(c)
  BY <1>4, <1>8, LenProperties
<1>10. r.op = "dispatch" => DOMAIN ResvView(c) = DOMAIN resv
  BY <1>1, <1>4, <1>8, LenProperties DEF RequestOK
<1>11. ItemView(c) \in Seq(LineItem)
  BY <1>1, ConcatProperties DEF TypeOK, RequestOK, ItemView
<1> QED BY <1>2, <1>3, <1>8, <1>9, <1>10, <1>11, LenProperties, ElementOfSeq

LEMMA StatusType ==
  ASSUME TypeOK, NEW s, NEW rs, NEW ls
  PROVE  recomputeSalesOrderStatus(s, rs, ls) \in OrderStatus
BY DEF recomputeSalesOrderStatus, StatusFor, OrderStatus

LEMMA ReservedWriteType ==
  ASSUME TypeOK, NEW c \in Clients, NEW n \in Int
  PROVE  LET w == WriteReserved(c, req[c].b, n) IN
         DOMAIN w \subseteq Batches /\ \A b \in DOMAIN w : w[b] \in BatchRow
<1> DEFINE b == req[c].b
           st == computeStockStatus(b, req[c].row.stock, n, req[c].row.dispatched)
<1>1. b \in Batches
  BY DEF TypeOK, RequestOK
<1>2. st \in StockStatus
  BY DEF computeStockStatus, StockStatus
<1>3. BatchView(c)[b] \in BatchRow
  BY <1>1, ViewTypes
<1> HIDE DEF st
<1>4. [BatchView(c)[b] EXCEPT !.reserved = n, !.stock = st] \in BatchRow
  BY <1>2, <1>3 DEF BatchRow
<1>5. DOMAIN req[c].wBatch \subseteq Batches
      /\ \A x \in DOMAIN req[c].wBatch : req[c].wBatch[x] \in BatchRow
  BY DEF TypeOK, RequestOK
<1> QED BY <1>1, <1>4, <1>5 DEF WriteReserved, Put, st

\* The rows a dispatch leaves are reservation rows, for every portion.
LEMMA ConsumedType ==
  ASSUME NEW rs, NEW claims, NEW portion \in Int, IsFiniteSet(DOMAIN claims),
         \A i \in DOMAIN claims : rs[i] \in ResvRow /\ claims[i] \in ResvRow
  PROVE  /\ DOMAIN Consumed(rs, claims, portion) \subseteq DOMAIN claims
         /\ \A i \in DOMAIN Consumed(rs, claims, portion) :
              Consumed(rs, claims, portion)[i] \in ResvRow
<1> SUFFICES ASSUME NEW i \in DOMAIN claims, LeftFor(claims, portion, i) > 0
             PROVE  Consumed(rs, claims, portion)[i] \in ResvRow
  BY DEF Consumed
<1> DEFINE left == claims[i].qty - MinOf(LeftFor(claims, portion, i), claims[i].qty)
<1>1. LeftFor(claims, portion, i) \in Int
  <2>1. IsFiniteSet({j \in DOMAIN claims : j < i})
    BY FS_Subset
  <2> QED BY <2>1, TotalType, FgAssumption DEF LeftFor
<1>2. claims[i].qty \in 0..MaxQty /\ rs[i] \in ResvRow
  BY DEF ResvRow
<1>3. left \in 0..MaxQty
  BY <1>1, <1>2, FgAssumption DEF MinOf
<1>4. Consumed(rs, claims, portion)[i] =
        [rs[i] EXCEPT !.qty = left, !.status = IF left = 0 THEN "Fulfilled" ELSE @]
  BY DEF Consumed
<1> HIDE DEF left
<1> QED BY <1>2, <1>3, <1>4 DEF ResvRow

LEMMA AdvanceType ==
  ASSUME TypeOK, NEW c \in Clients, Advance(c)
  PROVE  TypeOK'
<1>0. /\ RequestOK(req[c]) /\ req[c].b \in Batches /\ req[c].loc \in Places
      /\ batch[req[c].b] \in BatchRow /\ ledger[req[c].b] \in LedgerRow
  BY DEF TypeOK, RequestOK
<1>1. CASE transferFgBatch(c)
  <2>1. batch' \in [Batches -> BatchRow] /\ ledger' \in [Batches -> LedgerRow]
    BY <1>0, <1>1 DEF transferFgBatch, TypeOK, BatchRow, LedgerRow
  <2> QED BY <1>1, <2>1, RequestsKept DEF transferFgBatch, Done, TypeOK
<1>2. CASE holdFgBatch(c)
  <2>1. [batch[req[c].b] EXCEPT !.stock = "Hold"] \in BatchRow
    BY <1>0 DEF BatchRow, StockStatus
  <2>2. [ledger[req[c].b] EXCEPT !.held = @ + 1] \in LedgerRow
    BY <1>0 DEF LedgerRow
  <2>3. batch' \in [Batches -> BatchRow] /\ ledger' \in [Batches -> LedgerRow]
    BY <1>2, <2>1, <2>2 DEF holdFgBatch, TypeOK
  <2> QED BY <1>2, <2>3, RequestsKept DEF holdFgBatch, Done, TypeOK
<1>3. CASE releaseHoldFgBatch(c)
  <2>1. [batch[req[c].b] EXCEPT !.stock = StatusAfterHold(req[c].row)] \in BatchRow
    BY <1>0 DEF BatchRow, StatusAfterHold, StockStatus
  <2>2. [ledger[req[c].b] EXCEPT !.released = @ + 1] \in LedgerRow
    BY <1>0 DEF LedgerRow
  <2>3. batch' \in [Batches -> BatchRow] /\ ledger' \in [Batches -> LedgerRow]
    BY <1>3, <2>1, <2>2 DEF releaseHoldFgBatch, TypeOK
  <2> QED BY <1>3, <2>3, RequestsKept DEF releaseHoldFgBatch, Done, TypeOK
<1>4. CASE reserveFgBatch(c)
  <2> DEFINE r == req'[c]
             b == req[c].b
             q == req[c].qty
             new == [b |-> b, so |-> req[c].so, qty |-> q, status |-> "Active"]
             w == WriteReserved(c, b, req[c].row.reserved + q)
             st == recomputeSalesOrderStatus(req[c].so, resv \o <<new>>, lineItems)
             log == [ledger[b] EXCEPT !.reserved = @ + q]
  <2>1. /\ r.pc = "tx" /\ r.wNew = <<new>> /\ r.wBatch = w /\ r.wLog = Put(NoWrite, b, log)
        /\ r.status = st
        /\ DOMAIN r = DOMAIN Idle /\ r.op = req[c].op /\ r.b = req[c].b
        /\ r.so = req[c].so /\ r.qty = req[c].qty /\ r.res = req[c].res
        /\ r.loc = req[c].loc /\ r.row = req[c].row /\ r.claims = req[c].claims
        /\ r.lines = req[c].lines /\ r.wResv = req[c].wResv
        /\ r.wItems = req[c].wItems
    BY <1>0, <1>4 DEF reserveFgBatch, TypeOK, RequestOK, Idle
  <2>2. req[c].op = "reserve" /\ req[c].so \in SalesOrders /\ q \in Qty
    BY <1>0, <1>4 DEF reserveFgBatch, At, RequestOK
  <2>3. <<new>> \in Seq(ResvRow)
    <3>1. new \in ResvRow
      BY <1>0, <2>2, FgAssumption DEF ResvRow, Qty
    <3> HIDE DEF new
    <3> QED BY <3>1
  <2>4. DOMAIN Put(NoWrite, b, log) \subseteq Batches
        /\ \A x \in DOMAIN Put(NoWrite, b, log) : Put(NoWrite, b, log)[x] \in LedgerRow
    <3>1. log \in LedgerRow
      BY <1>0, <2>2, FgAssumption DEF LedgerRow, Qty
    <3> HIDE DEF log
    <3> QED BY <1>0, <3>1 DEF Put, NoWrite
  <2>5. /\ DOMAIN w \subseteq Batches /\ \A x \in DOMAIN w : w[x] \in BatchRow
        /\ st \in OrderStatus
    <3>1. req[c].row.reserved + q \in Int
      BY <1>0, <2>2, FgAssumption DEF RequestOK, BatchRow, Qty
    <3> QED BY <3>1, ReservedWriteType, StatusType
  <2> HIDE DEF w, st, new, log
  <2> HIDE DEF r
  <2>9. RequestOK(r)
    BY <1>0, <2>1, <2>2, <2>3, <2>4, <2>5 DEF RequestOK
  <2> USE DEF r
  <2> QED BY <1>4, <2>9, RequestStep DEF reserveFgBatch, TypeOK
<1>5. CASE cancelReadBatch(c)
  <2> DEFINE r == req'[c]
  <2>1. /\ r.pc = "loaded" /\ r.row = batch[req[c].b]
        /\ DOMAIN r = DOMAIN Idle /\ r.op = req[c].op /\ r.b = req[c].b
        /\ r.so = req[c].so /\ r.qty = req[c].qty /\ r.res = req[c].res
        /\ r.loc = req[c].loc /\ r.claims = req[c].claims /\ r.lines = req[c].lines
        /\ r.wBatch = req[c].wBatch /\ r.wLog = req[c].wLog /\ r.wResv = req[c].wResv
        /\ r.wNew = req[c].wNew /\ r.wItems = req[c].wItems
        /\ r.status = req[c].status
    BY <1>0, <1>5 DEF cancelReadBatch, TypeOK, RequestOK, Idle
  <2> HIDE DEF r
  <2>2. RequestOK(r)
    BY <1>0, <2>1 DEF RequestOK
  <2> USE DEF r
  <2> QED BY <1>5, <2>2, RequestStep DEF cancelReadBatch, TypeOK
<1>6. CASE cancelReservation(c)
  <2> DEFINE r == req'[c]
             b == req[c].b
             q == req[c].qty
             i == req[c].res
             gone == [resv[i] EXCEPT !.status = "Cancelled"]
             n == MaxOf(0, req[c].row.reserved - q)
             w == WriteReserved(c, b, n)
             st == recomputeSalesOrderStatus(req[c].so, Over(resv, Put(NoWrite, i, gone)), lineItems)
             log == [ledger[b] EXCEPT !.unreserved = @ + q]
  <2>1. /\ r.pc = "tx" /\ r.wResv = Put(NoWrite, i, gone) /\ r.wBatch = w
        /\ r.wLog = Put(NoWrite, b, log) /\ r.status = st
        /\ DOMAIN r = DOMAIN Idle /\ r.op = req[c].op /\ r.b = req[c].b
        /\ r.so = req[c].so /\ r.qty = req[c].qty /\ r.res = req[c].res
        /\ r.loc = req[c].loc /\ r.row = req[c].row /\ r.claims = req[c].claims
        /\ r.lines = req[c].lines /\ r.wNew = req[c].wNew /\ r.wItems = req[c].wItems
    BY <1>0, <1>6 DEF cancelReservation, TypeOK, RequestOK, Idle
  <2>2. req[c].op = "cancel" /\ req[c].so \in SalesOrders /\ q \in 0..MaxQty /\ i \in DOMAIN resv
    BY <1>0, <1>6 DEF cancelReservation, At, RequestOK
  <2>3. /\ DOMAIN Put(NoWrite, i, gone) \subseteq DOMAIN resv
        /\ \A x \in DOMAIN Put(NoWrite, i, gone) : Put(NoWrite, i, gone)[x] \in ResvRow
    <3>0. resv[i] \in ResvRow
      BY <2>2 DEF TypeOK
    <3>1. gone \in ResvRow
      BY <3>0 DEF ResvRow
    <3> HIDE DEF gone
    <3> QED BY <2>2, <3>1 DEF Put, NoWrite
  <2>4. DOMAIN Put(NoWrite, b, log) \subseteq Batches
        /\ \A x \in DOMAIN Put(NoWrite, b, log) : Put(NoWrite, b, log)[x] \in LedgerRow
    <3>1. log \in LedgerRow
      BY <1>0, <2>2, FgAssumption DEF LedgerRow
    <3> HIDE DEF log
    <3> QED BY <1>0, <3>1 DEF Put, NoWrite
  <2>5. /\ DOMAIN w \subseteq Batches /\ \A x \in DOMAIN w : w[x] \in BatchRow
        /\ st \in OrderStatus
    <3>1. n \in Int
      BY <1>0, <2>2, FgAssumption DEF RequestOK, BatchRow, MaxOf
    <3> HIDE DEF n
    <3> QED BY <3>1, ReservedWriteType, StatusType
  <2> HIDE DEF w, st, gone, log
  <2> HIDE DEF r
  <2>9. RequestOK(r)
    BY <1>0, <2>1, <2>2, <2>3, <2>4, <2>5 DEF RequestOK
  <2> USE DEF r
  <2> QED BY <1>6, <2>9, RequestStep DEF cancelReservation, TypeOK
<1>7. CASE lineReadBatch(c)
  <2> DEFINE r == req'[c]
             b == Head(req[c].lines).b
  <2>1. /\ r.pc = "row" /\ r.b = b /\ r.row = BatchView(c)[b]
        /\ DOMAIN r = DOMAIN Idle /\ r.op = req[c].op /\ r.so = req[c].so
        /\ r.qty = req[c].qty /\ r.res = req[c].res /\ r.loc = req[c].loc
        /\ r.claims = req[c].claims /\ r.lines = req[c].lines
        /\ r.wBatch = req[c].wBatch /\ r.wLog = req[c].wLog /\ r.wResv = req[c].wResv
        /\ r.wNew = req[c].wNew /\ r.wItems = req[c].wItems
        /\ r.status = req[c].status
    BY <1>0, <1>7 DEF lineReadBatch, TypeOK, RequestOK, Idle
  <2>2. req[c].op = "dispatch" /\ req[c].lines # << >>
    BY <1>7 DEF lineReadBatch, At
  <2>3. b \in Batches /\ BatchView(c)[b] \in BatchRow
    <3>1. Head(req[c].lines) \in [b : Batches, qty : Qty]
      BY <1>0, <2>2, HeadTailProperties DEF RequestOK
    <3> QED BY <3>1, ViewTypes
  <2> HIDE DEF b, r
  <2>4. RequestOK(r)
    BY <1>0, <2>1, <2>2, <2>3 DEF RequestOK
  <2> USE DEF r
  <2> QED BY <1>7, <2>4, RequestStep DEF lineReadBatch, TypeOK
<1>8. CASE lineReadClaims(c)
  <2> DEFINE r == req'[c]
             rs == ResvView(c)
             mine == [i \in Claims(rs, req[c].b, req[c].so) |-> rs[i]]
  <2>1. /\ r.pc = "claims" /\ r.claims = mine
        /\ DOMAIN r = DOMAIN Idle /\ r.op = req[c].op /\ r.b = req[c].b
        /\ r.so = req[c].so /\ r.qty = req[c].qty /\ r.res = req[c].res
        /\ r.loc = req[c].loc /\ r.row = req[c].row /\ r.lines = req[c].lines
        /\ r.wBatch = req[c].wBatch /\ r.wLog = req[c].wLog /\ r.wResv = req[c].wResv
        /\ r.wNew = req[c].wNew /\ r.wItems = req[c].wItems
        /\ r.status = req[c].status
    BY <1>0, <1>8 DEF lineReadClaims, TypeOK, RequestOK, Idle
  <2>2. req[c].op = "dispatch" /\ req[c].lines # << >>
    BY <1>0, <1>8 DEF lineReadClaims, At, RequestOK
  <2>3. DOMAIN mine \subseteq DOMAIN resv /\ \A i \in DOMAIN mine : mine[i] \in ResvRow
    BY <2>2, ViewTypes DEF Claims, ActiveOn, ActiveFor, Active
  <2> HIDE DEF mine, r
  <2>4. RequestOK(r)
    BY <1>0, <2>1, <2>2, <2>3 DEF RequestOK
  <2> USE DEF r
  <2> QED BY <1>8, <2>4, RequestStep DEF lineReadClaims, TypeOK
<1>9. CASE processDispatchLineItem(c)
  <2> DEFINE r == req'[c]
             b == req[c].b
             q == Head(req[c].lines).qty
             row == req[c].row
             claims == req[c].claims
             portion == MinOf(q, Total(claims, DOMAIN claims))
             drawn == Consumed(ResvView(c), claims, portion)
             wr == Then(req[c].wResv, drawn)
             newRow == ShippedRow(c, b, portion, q)
             item == [so |-> req[c].so, b |-> b, qty |-> q]
             log == Logged(c, b, q)
  <2>1. /\ r.pc = "line" /\ r.lines = Tail(req[c].lines) /\ r.wResv = wr
        /\ r.wBatch = Put(req[c].wBatch, b, newRow) /\ r.wItems = Append(req[c].wItems, item)
        /\ r.wLog = Put(req[c].wLog, b, log)
        /\ DOMAIN r = DOMAIN Idle /\ r.op = req[c].op /\ r.b = req[c].b
        /\ r.so = req[c].so /\ r.qty = req[c].qty /\ r.res = req[c].res
        /\ r.loc = req[c].loc /\ r.row = req[c].row /\ r.claims = req[c].claims
        /\ r.wNew = req[c].wNew /\ r.status = req[c].status
    <3>1. DOMAIN req[c] = DOMAIN Idle /\ c \in DOMAIN req
      BY <1>0 DEF RequestOK, TypeOK
    <3> HIDE DEF wr, newRow, item, log
    <3>2. req' = [req EXCEPT ![c] = [req[c] EXCEPT !.pc = "line",
                    !.lines = Tail(req[c].lines), !.wResv = wr,
                    !.wBatch = Put(req[c].wBatch, b, newRow),
                    !.wItems = Append(req[c].wItems, item),
                    !.wLog = Put(req[c].wLog, b, log)]]
      BY <1>9 DEF processDispatchLineItem, wr, newRow, item, log
    <3> QED BY <3>1, <3>2 DEF Idle
  <2>2. /\ req[c].op = "dispatch" /\ req[c].lines # << >> /\ q \in Qty /\ q \in Nat
        /\ Tail(req[c].lines) \in Seq([b : Batches, qty : Qty])
    <3>1. req[c].op = "dispatch" /\ req[c].lines # << >>
      BY <1>0, <1>9 DEF processDispatchLineItem, At, RequestOK
    <3>2. Head(req[c].lines) \in [b : Batches, qty : Qty]
          /\ Tail(req[c].lines) \in Seq([b : Batches, qty : Qty])
      BY <1>0, <3>1, HeadTailProperties DEF RequestOK
    <3> QED BY <3>1, <3>2, FgAssumption DEF Qty
  <2>3. portion \in Int
    <3>1. IsFiniteSet(DOMAIN claims)
      BY <1>0, PositionsFinite DEF RequestOK, TypeOK
    <3> QED BY <2>2, <3>1, TotalType, FgAssumption DEF MinOf
  <2>4. DOMAIN wr \subseteq DOMAIN resv /\ \A i \in DOMAIN wr : wr[i] \in ResvRow
    <3>1. IsFiniteSet(DOMAIN claims) /\ DOMAIN claims \subseteq DOMAIN resv
      BY <1>0, PositionsFinite DEF RequestOK, TypeOK
    <3>2. \A i \in DOMAIN claims : ResvView(c)[i] \in ResvRow /\ claims[i] \in ResvRow
      BY <1>0, <3>1, ViewTypes DEF RequestOK
    <3> HIDE DEF portion
    <3>3. DOMAIN drawn \subseteq DOMAIN claims /\ \A i \in DOMAIN drawn : drawn[i] \in ResvRow
      BY <2>3, <3>1, <3>2, ConsumedType
    <3> HIDE DEF drawn
    <3> QED BY <1>0, <3>1, <3>3 DEF RequestOK, Then
  <2>5. DOMAIN Put(req[c].wBatch, b, newRow) \subseteq Batches
        /\ \A x \in DOMAIN Put(req[c].wBatch, b, newRow) :
             Put(req[c].wBatch, b, newRow)[x] \in BatchRow
    <3>1. BatchView(c)[b] \in BatchRow /\ row.reserved \in Int /\ row.dispatched \in Int
      BY <1>0, ViewTypes DEF RequestOK, BatchRow
    <3> HIDE DEF portion, q, row
    <3>2. row.reserved - portion \in Int /\ row.dispatched + q \in Int
      BY <2>2, <2>3, <3>1
    <3>3. \A n, m : computeStockStatus(b, row.stock, n, m) \in StockStatus
      BY DEF computeStockStatus, StockStatus
    <3>4. newRow \in BatchRow
      BY <3>1, <3>2, <3>3 DEF BatchRow, DispatchStatus, ShippedRow, row
    <3> HIDE DEF newRow
    <3> QED BY <1>0, <3>4 DEF Put, RequestOK
  <2>6. Append(req[c].wItems, item) \in Seq(LineItem)
    <3>1. item \in LineItem
      BY <1>0, <2>2 DEF LineItem, RequestOK
    <3> HIDE DEF item
    <3> QED BY <1>0, <3>1 DEF RequestOK
  <2>7. DOMAIN Put(req[c].wLog, b, log) \subseteq Batches
        /\ \A x \in DOMAIN Put(req[c].wLog, b, log) : Put(req[c].wLog, b, log)[x] \in LedgerRow
    <3>1. LedgerView(c)[b] \in LedgerRow
      BY <1>0, ViewTypes
    <3>2. log \in LedgerRow
      BY <2>2, <3>1 DEF LedgerRow, Logged
    <3> HIDE DEF log
    <3> QED BY <1>0, <3>2 DEF Put, RequestOK
  <2> HIDE DEF r, wr, newRow, item, log
  <2>9. RequestOK(r)
    BY <1>0, <2>1, <2>2, <2>4, <2>5, <2>6, <2>7 DEF RequestOK
  <2> USE DEF r
  <2> QED BY <1>9, <2>9, RequestStep DEF processDispatchLineItem, TypeOK
<1>10. CASE dispatchRecompute(c)
  <2> DEFINE r == req'[c]
             st == recomputeSalesOrderStatus(req[c].so, ResvView(c), ItemView(c))
  <2>1. /\ r.pc = "tx" /\ r.status = IF req[c].so = NoSO THEN "Absent" ELSE st
        /\ DOMAIN r = DOMAIN Idle /\ r.op = req[c].op /\ r.b = req[c].b
        /\ r.so = req[c].so /\ r.qty = req[c].qty /\ r.res = req[c].res
        /\ r.loc = req[c].loc /\ r.row = req[c].row /\ r.claims = req[c].claims
        /\ r.lines = req[c].lines /\ r.wBatch = req[c].wBatch /\ r.wLog = req[c].wLog
        /\ r.wResv = req[c].wResv /\ r.wNew = req[c].wNew /\ r.wItems = req[c].wItems
    BY <1>0, <1>10 DEF dispatchRecompute, TypeOK, RequestOK, Idle
  <2>2. st \in OrderStatus
    BY StatusType
  <2> HIDE DEF st, r
  <2>3. RequestOK(r)
    BY <1>0, <2>1, <2>2 DEF RequestOK, OrderStatus
  <2> USE DEF r
  <2> QED BY <1>10, <2>3, RequestStep DEF dispatchRecompute, TypeOK
<1>12. CASE Rollback(c)
  BY <1>12, RequestsKept DEF Rollback, Done, TypeOK
<1>11. CASE Commit(c)
  <2>1. order' \in [SalesOrders -> OrderRow]
    BY <1>0, <1>11 DEF Commit, TypeOK, RequestOK, OrderRow
  <2>2. /\ batch' \in [Batches -> BatchRow] /\ ledger' \in [Batches -> LedgerRow]
        /\ resv' \in Seq(ResvRow) /\ lineItems' \in Seq(LineItem)
        /\ DOMAIN resv \subseteq DOMAIN resv'
    BY <1>11, ViewTypes DEF Commit
  <2> QED BY <1>11, <2>1, <2>2, RequestsKept DEF Commit, Done, TypeOK
<1> QED
  BY <1>1, <1>2, <1>3, <1>4, <1>5, <1>6, <1>7, <1>8, <1>9, <1>10, <1>11, <1>12 DEF Advance

LEMMA NextType == TypeOK /\ [Next]_vars => TypeOK'
<1> SUFFICES ASSUME TypeOK, [Next]_vars PROVE TypeOK'
  OBVIOUS
<1>1. CASE UNCHANGED vars
  BY <1>1, RequestsKept DEF vars, TypeOK
<1>2. CASE Next
  BY <1>2, RequestType, AdvanceType DEF Next
<1> QED BY <1>1, <1>2

\* Whatever the requests do and however they interleave, the rows of every
\* table and the contents of every request keep their types: no quantity of a
\* reservation goes below 0, no status outside the schema's enums is written and
\* no request names a row that does not exist.
THEOREM TypeCorrect == Spec => []TypeOK
<1>1. Init => TypeOK
  BY InitType
<1>2. TypeOK /\ [Next]_vars => TypeOK'
  BY NextType
<1> QED BY <1>1, <1>2, PTL DEF Spec

-----------------------------------------------------------------------------
(* A dispatch draws only on reservations of its own sales order *)

\* What request r has read as claims belongs to its sales order and batch, and
\* whatever it takes off a reservation is matched by one of its line items.
OwnRequest(r) ==
  /\ r.pc = "claims" =>
       \A i \in DOMAIN r.claims : resv[i].so = r.so /\ resv[i].b = r.b
  /\ \A i \in DOMAIN r.wResv :
       /\ r.wResv[i].so = resv[i].so /\ r.wResv[i].b = resv[i].b
       /\ r.wResv[i].qty < resv[i].qty =>
            \E j \in DOMAIN r.wItems :
              r.wItems[j].so = resv[i].so /\ r.wItems[j].b = resv[i].b

\* The same of every request, and no two hold the lock of one reservation.
OwnDraws ==
  /\ \A c \in Clients : OwnRequest(req[c])
  /\ \A c, d \in Clients : c # d => DOMAIN req[c].wResv \cap DOMAIN req[d].wResv = {}

LEMMA ResvQty ==
  ASSUME TypeOK, NEW i \in DOMAIN resv
  PROVE  resv[i] \in ResvRow /\ resv[i].qty \in Int
<1>1. resv[i] \in ResvRow
  BY DEF TypeOK
<1> QED BY <1>1, FgAssumption DEF ResvRow

\* A step of c that changes no reservation and draws on none.
LEMMA OwnStep ==
  ASSUME OwnDraws, NEW c \in Clients, resv' = resv,
         \A d \in Clients \ {c} : req'[d] = req[d], req'[c].pc # "claims",
         \/ DOMAIN req'[c].wResv = {}
         \/ req'[c].wResv = req[c].wResv /\ req'[c].wItems = req[c].wItems
  PROVE  OwnDraws'
<1>1. OwnRequest(req[c])'
  BY DEF OwnDraws, OwnRequest
<1>2. ASSUME NEW d \in Clients \ {c} PROVE OwnRequest(req[d])'
  BY <1>2 DEF OwnDraws, OwnRequest
<1>3. ASSUME NEW d \in Clients, NEW e \in Clients, d # e
      PROVE  DOMAIN req'[d].wResv \cap DOMAIN req'[e].wResv = {}
  BY <1>3 DEF OwnDraws
<1> QED BY <1>1, <1>2, <1>3 DEF OwnDraws

\* What a transaction sees of a reservation names the order and batch of the row.
LEMMA OwnView ==
  ASSUME TypeOK, OwnDraws, NEW c \in Clients, NEW i \in DOMAIN resv
  PROVE  /\ ResvView(c)[i] = IF i \in DOMAIN req[c].wResv THEN req[c].wResv[i] ELSE resv[i]
         /\ ResvView(c)[i].so = resv[i].so /\ ResvView(c)[i].b = resv[i].b
<1> DEFINE x == Over(resv, req[c].wResv)  y == req[c].wNew
<1>1. resv \in [1..Len(resv) -> ResvRow] /\ Len(resv) \in Nat /\ DOMAIN resv = 1..Len(resv)
  BY LenProperties DEF TypeOK
<1>2. x \in [1..Len(resv) -> ResvRow]
  BY <1>1 DEF TypeOK, RequestOK, Over
<1>3. x \in Seq(ResvRow) /\ Len(x) = Len(resv) /\ y \in Seq(ResvRow)
  <2>1. x \in Seq(ResvRow) /\ Len(x) = Len(resv)
    BY <1>1, <1>2, SeqDef, LenProperties
  <2> QED BY <2>1 DEF TypeOK, RequestOK
<1>4. x[i] = IF i \in DOMAIN req[c].wResv THEN req[c].wResv[i] ELSE resv[i]
  BY DEF Over
<1> HIDE DEF x, y
<1>5. (x \o y)[i] = x[i]
  BY <1>1, <1>3, ConcatProperties
<1>6. ResvView(c)[i] = x[i]
  BY <1>5 DEF ResvView, x, y
<1> QED BY <1>4, <1>6 DEF OwnDraws, OwnRequest

LEMMA OwnDispatch ==
  ASSUME TypeOK, OwnDraws, NEW c \in Clients, processDispatchLineItem(c)
  PROVE  OwnDraws'
<1> DEFINE r == req[c]
           q == Head(r.lines).qty
           portion == MinOf(q, Total(r.claims, DOMAIN r.claims))
           drawn == Consumed(ResvView(c), r.claims, portion)
           item == [so |-> r.so, b |-> r.b, qty |-> q]
           wr == Then(r.wResv, drawn)
<1>0. RequestOK(r) /\ OwnRequest(r) /\ r.pc = "claims" /\ DOMAIN req = Clients
  BY DEF TypeOK, OwnDraws, processDispatchLineItem, At
<1>1. /\ req'[c].pc = "line" /\ req'[c].wItems = Append(r.wItems, item)
      /\ req'[c].wResv = wr
      /\ \A d \in Clients \ {c} : req'[d] = req[d]
      /\ resv' = resv /\ ResvFree(c, DOMAIN drawn)
  <2> DEFINE new == Put(r.wBatch, r.b, ShippedRow(c, r.b, portion, q))
             log == Put(r.wLog, r.b, Logged(c, r.b, q))
  <2>1. req' = [req EXCEPT ![c] = [r EXCEPT !.pc = "line", !.lines = Tail(r.lines),
                  !.wResv = wr, !.wBatch = new, !.wItems = Append(r.wItems, item),
                  !.wLog = log]]
        /\ resv' = resv /\ ResvFree(c, DOMAIN drawn)
    BY DEF processDispatchLineItem
  <2> HIDE DEF new, log, wr, item, drawn
  <2>2. DOMAIN r = DOMAIN Idle
    BY <1>0 DEF RequestOK
  <2> HIDE DEF r
  <2> QED BY <1>0, <2>1, <2>2 DEF Idle
<1>2. /\ DOMAIN drawn \subseteq DOMAIN r.claims /\ DOMAIN r.claims \subseteq DOMAIN resv
      /\ \A i \in DOMAIN drawn : drawn[i].so = ResvView(c)[i].so /\ drawn[i].b = ResvView(c)[i].b
  <2>1. DOMAIN drawn \subseteq DOMAIN r.claims /\ DOMAIN r.claims \subseteq DOMAIN resv
    BY <1>0 DEF RequestOK, Consumed
  <2>2. ASSUME NEW i \in DOMAIN resv
        PROVE  ResvView(c)[i] \in ResvRow
    BY ViewTypes
  <2>3. ASSUME NEW i \in DOMAIN drawn
        PROVE  drawn[i].so = ResvView(c)[i].so /\ drawn[i].b = ResvView(c)[i].b
    <3>1. ResvView(c)[i] \in ResvRow
      BY <2>1, <2>2
    <3> HIDE DEF portion
    <3> QED BY <3>1 DEF Consumed, ResvRow
  <2> QED BY <2>1, <2>3
<1> HIDE DEF drawn, wr
<1>3. \A i \in DOMAIN wr : wr[i].so = resv[i].so /\ wr[i].b = resv[i].b
  <2>1. \A i \in DOMAIN drawn : wr[i].so = resv[i].so /\ wr[i].b = resv[i].b
    BY <1>2, OwnView DEF wr, Then
  <2>2. \A i \in DOMAIN wr \ DOMAIN drawn : wr[i].so = resv[i].so /\ wr[i].b = resv[i].b
    BY <1>0 DEF wr, Then, OwnRequest
  <2> QED BY <2>1, <2>2
<1>4. ASSUME NEW i \in DOMAIN wr, wr[i].qty < resv[i].qty
      PROVE  \E j \in DOMAIN Append(r.wItems, item) :
               /\ Append(r.wItems, item)[j].so = resv[i].so
               /\ Append(r.wItems, item)[j].b = resv[i].b
  <2>1. r.wItems \in Seq(LineItem)
    BY <1>0 DEF RequestOK
  <2>2. CASE i \in DOMAIN drawn
    <3>1. item.so = resv[i].so /\ item.b = resv[i].b
      BY <1>0, <1>2, <2>2 DEF OwnRequest
    <3> HIDE DEF item
    <3> DEFINE n == Len(r.wItems) + 1
    <3>2. n \in DOMAIN Append(r.wItems, item) /\ Append(r.wItems, item)[n] = item
      <4>1. r.wItems \in Seq(LineItem \cup {item}) /\ item \in LineItem \cup {item}
        BY <2>1
      <4> QED BY <4>1
    <3> QED BY <3>1, <3>2
  <2>3. CASE i \notin DOMAIN drawn
    <3>1. i \in DOMAIN r.wResv /\ r.wResv[i] = wr[i]
      BY <2>3 DEF wr, Then
    <3>2. PICK j \in DOMAIN r.wItems :
            r.wItems[j].so = resv[i].so /\ r.wItems[j].b = resv[i].b
      BY <1>0, <1>4, <3>1 DEF OwnRequest
    <3> HIDE DEF item
    <3>3. j \in DOMAIN Append(r.wItems, item) /\ Append(r.wItems, item)[j] = r.wItems[j]
      BY <2>1, <3>2
    <3> QED BY <3>2, <3>3
  <2> QED BY <2>2, <2>3
<1>5. OwnRequest(req[c])'
  BY <1>1, <1>3, <1>4 DEF OwnRequest
<1>6. ASSUME NEW d \in Clients \ {c} PROVE OwnRequest(req[d])'
  BY <1>1, <1>6 DEF OwnDraws, OwnRequest
<1>7. \A d \in Clients \ {c} : DOMAIN wr \cap DOMAIN req'[d].wResv = {}
  BY <1>1 DEF wr, Then, ResvFree, OwnDraws
<1>8. ASSUME NEW d \in Clients, NEW e \in Clients, d # e
      PROVE  DOMAIN req'[d].wResv \cap DOMAIN req'[e].wResv = {}
  BY <1>1, <1>7, <1>8 DEF OwnDraws
<1> QED BY <1>5, <1>6, <1>8 DEF OwnDraws

LEMMA OwnCancel ==
  ASSUME TypeOK, OwnDraws, NEW c \in Clients, cancelReservation(c)
  PROVE  OwnDraws'
<1> DEFINE r == req[c]
           i == r.res
           gone == [resv[i] EXCEPT !.status = "Cancelled"]
           w == Put(NoWrite, i, gone)
<1>0. /\ r.op = "cancel" /\ i \in DOMAIN resv /\ resv[i] \in ResvRow
      /\ DOMAIN req = Clients /\ DOMAIN r = DOMAIN Idle
  BY DEF TypeOK, RequestOK, cancelReservation, At
<1>1. /\ req'[c].pc = "tx" /\ req'[c].wResv = w /\ resv' = resv
      /\ \A d \in Clients \ {c} : req'[d] = req[d]
      /\ \A d \in Clients \ {c} : i \notin DOMAIN req[d].wResv
  BY <1>0 DEF cancelReservation, ResvFree, Idle
<1>2. DOMAIN w = {i} /\ w[i] = gone
  BY DEF Put, NoWrite
<1>3. gone.so = resv[i].so /\ gone.b = resv[i].b /\ gone.qty = resv[i].qty
  BY <1>0 DEF ResvRow
<1>4. resv[i].qty \in Int
  BY <1>0, FgAssumption DEF ResvRow
<1> HIDE DEF w, gone
<1>5. OwnRequest(req[c])'
  BY <1>1, <1>2, <1>3, <1>4 DEF OwnRequest
<1>6. ASSUME NEW d \in Clients \ {c} PROVE OwnRequest(req[d])'
  BY <1>1, <1>6 DEF OwnDraws, OwnRequest
<1>7. ASSUME NEW d \in Clients, NEW e \in Clients, d # e
      PROVE  DOMAIN req'[d].wResv \cap DOMAIN req'[e].wResv = {}
  BY <1>1, <1>2, <1>7 DEF OwnDraws
<1> QED BY <1>5, <1>6, <1>7 DEF OwnDraws

\* A commit takes off a reservation only what its line items ship for it.
LEMMA OwnCommit ==
  ASSUME TypeOK, OwnDraws, NEW c \in Clients, Commit(c)
  PROVE  /\ OwnDraws'
         /\ \A i \in DOMAIN resv : resv'[i].qty < resv[i].qty =>
              \E j \in DOMAIN lineItems' \ DOMAIN lineItems :
                lineItems'[j].so = resv[i].so /\ lineItems'[j].b = resv[i].b
<1> DEFINE r == req[c]
<1>1. /\ resv' = ResvView(c) /\ lineItems' = ItemView(c)
      /\ req'[c] = Idle /\ \A d \in Clients \ {c} : req'[d] = req[d]
  BY DEF Commit, Done, TypeOK
<1>2. \A i \in DOMAIN resv :
        /\ resv'[i] = IF i \in DOMAIN r.wResv THEN r.wResv[i] ELSE resv[i]
        /\ resv'[i].so = resv[i].so /\ resv'[i].b = resv[i].b
  BY <1>1, OwnView
<1>3. OwnDraws'
  <2>1. OwnRequest(req[c])'
    BY <1>1 DEF Idle, NoWrite, OwnRequest
  <2>2. ASSUME NEW d \in Clients \ {c} PROVE OwnRequest(req[d])'
    <3>1. /\ DOMAIN req[d].claims \subseteq DOMAIN resv
          /\ DOMAIN req[d].wResv \subseteq DOMAIN resv
          /\ DOMAIN r.wResv \cap DOMAIN req[d].wResv = {} /\ OwnRequest(req[d])
      BY <2>2 DEF TypeOK, RequestOK, OwnDraws
    <3>2. \A i \in DOMAIN req[d].wResv : resv'[i] = resv[i]
      BY <1>2, <3>1
    <3>3. req'[d].pc = "claims" =>
            \A i \in DOMAIN req'[d].claims : resv'[i].so = req'[d].so /\ resv'[i].b = req'[d].b
      BY <1>1, <1>2, <2>2, <3>1 DEF OwnRequest
    <3>4. \A i \in DOMAIN req'[d].wResv :
            /\ req'[d].wResv[i].so = resv'[i].so /\ req'[d].wResv[i].b = resv'[i].b
            /\ req'[d].wResv[i].qty < resv'[i].qty =>
                 \E j \in DOMAIN req'[d].wItems :
                   req'[d].wItems[j].so = resv'[i].so /\ req'[d].wItems[j].b = resv'[i].b
      BY <1>1, <2>2, <3>1, <3>2 DEF OwnRequest
    <3> QED BY <3>3, <3>4 DEF OwnRequest
  <2>3. ASSUME NEW d \in Clients, NEW e \in Clients, d # e
        PROVE  DOMAIN req'[d].wResv \cap DOMAIN req'[e].wResv = {}
    BY <1>1, <2>3 DEF OwnDraws, Idle, NoWrite
  <2> QED BY <2>1, <2>2, <2>3 DEF OwnDraws
<1>4. ASSUME NEW i \in DOMAIN resv, resv'[i].qty < resv[i].qty
      PROVE  \E j \in DOMAIN lineItems' \ DOMAIN lineItems :
               lineItems'[j].so = resv[i].so /\ lineItems'[j].b = resv[i].b
  <2>1. resv[i].qty \in Int
    BY ResvQty
  <2>2. i \in DOMAIN r.wResv /\ r.wResv[i].qty < resv[i].qty
    BY <1>2, <1>4, <2>1
  <2>3. PICK k \in DOMAIN r.wItems :
          r.wItems[k].so = resv[i].so /\ r.wItems[k].b = resv[i].b
    BY <2>2 DEF OwnDraws, OwnRequest
  <2> DEFINE x == lineItems  y == r.wItems
  <2>4. x \in Seq(LineItem) /\ y \in Seq(LineItem) /\ lineItems' = x \o y
    BY <1>1 DEF TypeOK, RequestOK, ItemView
  <2>5. y[k].so = resv[i].so /\ y[k].b = resv[i].b /\ k \in DOMAIN y
    BY <2>3
  <2> HIDE DEF y
  <2>6. /\ Len(x) \in Nat /\ DOMAIN x = 1..Len(x) /\ k \in 1..Len(y) /\ Len(y) \in Nat
        /\ Len(x) + k \in DOMAIN (x \o y) /\ (x \o y)[Len(x) + k] = y[k]
    BY <2>4, <2>5
  <2>7. Len(x) + k \in DOMAIN lineItems' \ DOMAIN lineItems
    BY <2>4, <2>6
  <2> QED BY <2>4, <2>5, <2>6, <2>7
<1> QED BY <1>3, <1>4

LEMMA OwnRequestStep ==
  ASSUME TypeOK, OwnDraws, NEW c \in Clients, Request(c)
  PROVE  OwnDraws' /\ resv' = resv
<1> USE DEF NoWrite, Idle
<1>0. DOMAIN req = Clients
  BY DEF TypeOK
<1>1. CASE UNCHANGED req
  <2>1. resv' = resv
    BY <1>1 DEF Request, deleteSalesOrder, createSalesOrder, updateSalesOrder,
       generateFgBatch, Load, transferLoad, holdLoad, releaseLoad, reserveLoad,
       cancelLoad, createDispatch
  <2> QED BY <1>1, <2>1 DEF OwnDraws, OwnRequest
<1>2. CASE \E op, b, so, q, l : Load(c, op, b, so, q, l)
  <2>1. /\ req'[c].pc = "loaded" /\ req'[c].wResv = NoWrite /\ resv' = resv
        /\ \A d \in Clients \ {c} : req'[d] = req[d]
    BY <1>0, <1>2 DEF Load
  <2> QED BY <2>1, OwnStep
<1>3. CASE \E i \in DOMAIN resv : cancelLoad(c, i)
  <2>1. /\ req'[c].pc = "found" /\ req'[c].wResv = NoWrite /\ resv' = resv
        /\ \A d \in Clients \ {c} : req'[d] = req[d]
    BY <1>0, <1>3 DEF cancelLoad
  <2> QED BY <2>1, OwnStep
<1>4. CASE \E s \in SalesOrders \cup {NoSO}, lines \in Lines : createDispatch(c, s, lines)
  <2>1. /\ req'[c].pc = "line" /\ req'[c].wResv = NoWrite /\ resv' = resv
        /\ \A d \in Clients \ {c} : req'[d] = req[d]
    BY <1>0, <1>4 DEF createDispatch
  <2> QED BY <2>1, OwnStep
<1> HIDE DEF NoWrite, Idle
<1> QED
  BY <1>1, <1>2, <1>3, <1>4 DEF Request, deleteSalesOrder, createSalesOrder,
     updateSalesOrder, generateFgBatch, transferLoad, holdLoad, releaseLoad, reserveLoad

LEMMA OwnAdvance ==
  ASSUME TypeOK, OwnDraws, NEW c \in Clients, Advance(c), ~Commit(c)
  PROVE  OwnDraws' /\ resv' = resv
<1>0. DOMAIN req = Clients /\ DOMAIN req[c] = DOMAIN Idle
  BY DEF TypeOK, RequestOK
<1>1. CASE transferFgBatch(c) \/ holdFgBatch(c) \/ releaseHoldFgBatch(c) \/ Rollback(c)
  BY <1>0, <1>1, OwnStep DEF transferFgBatch, holdFgBatch, releaseHoldFgBatch, Rollback,
     Done, Idle, NoWrite
<1>2. CASE reserveFgBatch(c)
  BY <1>0, <1>2, OwnStep DEF reserveFgBatch, Idle
<1>3. CASE cancelReadBatch(c)
  BY <1>0, <1>3, OwnStep DEF cancelReadBatch, Idle
<1>4. CASE cancelReservation(c)
  BY <1>4, OwnCancel DEF cancelReservation
<1>5. CASE lineReadBatch(c)
  BY <1>0, <1>5, OwnStep DEF lineReadBatch, Idle
<1>6. CASE lineReadClaims(c)
  <2> DEFINE rs == ResvView(c)
             mine == [i \in Claims(rs, req[c].b, req[c].so) |-> rs[i]]
  <2>1. /\ req'[c].pc = "claims" /\ req'[c].claims = mine
        /\ req'[c].so = req[c].so /\ req'[c].b = req[c].b
        /\ req'[c].wResv = req[c].wResv /\ req'[c].wItems = req[c].wItems
        /\ resv' = resv /\ \A d \in Clients \ {c} : req'[d] = req[d]
    BY <1>0, <1>6 DEF lineReadClaims, Idle
  <2>2. DOMAIN mine \subseteq DOMAIN resv
    BY <1>6, ViewTypes DEF lineReadClaims, At, Claims, ActiveOn, ActiveFor, Active
  <2>3. \A i \in DOMAIN mine : resv[i].so = req[c].so /\ resv[i].b = req[c].b
    BY <2>2, OwnView DEF Claims, ActiveOn, ActiveFor, Active
  <2> HIDE DEF mine
  <2>4. OwnRequest(req[c])'
    BY <2>1, <2>3 DEF OwnDraws, OwnRequest
  <2>5. ASSUME NEW d \in Clients \ {c} PROVE OwnRequest(req[d])'
    BY <2>1, <2>5 DEF OwnDraws, OwnRequest
  <2>6. ASSUME NEW d \in Clients, NEW e \in Clients, d # e
        PROVE  DOMAIN req'[d].wResv \cap DOMAIN req'[e].wResv = {}
    BY <2>1, <2>6 DEF OwnDraws
  <2> QED BY <2>1, <2>4, <2>5, <2>6 DEF OwnDraws
<1>7. CASE processDispatchLineItem(c)
  BY <1>7, OwnDispatch DEF processDispatchLineItem
<1>8. CASE dispatchRecompute(c)
  BY <1>0, <1>8, OwnStep DEF dispatchRecompute, Idle
<1> QED BY <1>1, <1>2, <1>3, <1>4, <1>5, <1>6, <1>7, <1>8 DEF Advance

LEMMA OwnInit == Init => OwnDraws
  BY DEF Init, OwnDraws, OwnRequest, Idle, NoWrite

\* With any number of requests in flight, an FG dispatch reduces only
\* reservations of its own sales order, by line items of the reservation's own
\* batch: no order's reserved stock is shipped under another order's name
\* (processDispatchLineItem, steps 1 to 3).
THEOREM DrawsOnlyOwn == Spec => OnlyOwnReservations
<1> DEFINE A == \A i \in DOMAIN resv : resv'[i].qty < resv[i].qty =>
                  \E j \in DOMAIN lineItems' \ DOMAIN lineItems :
                    lineItems'[j].so = resv[i].so /\ lineItems'[j].b = resv[i].b
<1>1. Init => TypeOK /\ OwnDraws
  BY InitType, OwnInit
<1>2. ASSUME TypeOK, OwnDraws, [Next]_vars
      PROVE  TypeOK' /\ OwnDraws' /\ [A]_vars
  <2>1. TypeOK'
    BY <1>2, NextType
  <2>2. CASE UNCHANGED vars
    BY <2>1, <2>2, <1>2 DEF vars, OwnDraws, OwnRequest
  <2>3. ASSUME NEW c \in Clients, Request(c) \/ (Advance(c) /\ ~Commit(c))
        PROVE  OwnDraws' /\ A
    <3>1. OwnDraws' /\ resv' = resv
      BY <1>2, <2>3, OwnRequestStep, OwnAdvance
    <3>2. \A i \in DOMAIN resv : resv[i].qty \in Int
      BY <1>2, ResvQty
    <3> QED BY <3>1, <3>2
  <2>4. ASSUME NEW c \in Clients, Commit(c)
        PROVE  OwnDraws' /\ A
    BY <1>2, <2>4, OwnCommit
  <2> HIDE DEF A
  <2> QED BY <1>2, <2>1, <2>2, <2>3, <2>4 DEF Next
<1> QED BY <1>1, <1>2, PTL DEF Spec, OnlyOwnReservations

\* The line a dispatch is at.
LEMMA HeadLine ==
  ASSUME NEW r, RequestOK(r), r.lines # << >>
  PROVE  /\ Head(r.lines).b \in Batches /\ Head(r.lines).qty \in Qty
         /\ Head(r.lines).qty \in Nat /\ Head(r.lines).qty > 0
<1>1. r.lines \in Seq([b : Batches, qty : Qty])
  BY DEF RequestOK
<1>2. Head(r.lines) \in [b : Batches, qty : Qty]
  BY <1>1, HeadTailProperties
<1> QED BY <1>2, FgAssumption DEF Qty

-----------------------------------------------------------------------------
(* The dispatch status of a batch is that of its dispatched quantity *)

RowAgrees(b, row) ==
  /\ row.dispatched \in Nat
  /\ row.dispatch = IF row.dispatched = 0 THEN "Ready"
                    ELSE IF row.dispatched = PassedQty[b] THEN "Dispatched"
                    ELSE "Partial"

\* Of the rows of the table, of those a transaction has written, and of no
\* row that was read is less than nothing dispatched.
RowsAgree ==
  /\ \A b \in Batches : RowAgrees(b, batch[b])
  /\ \A c \in Clients :
       /\ req[c].row.dispatched \in Nat
       /\ \A b \in DOMAIN req[c].wBatch : RowAgrees(b, req[c].wBatch[b])

\* A step that changes no batch, and one request.
LEMMA AgreeStep ==
  ASSUME RowsAgree, NEW c \in Clients, batch' = batch,
         \A d \in Clients \ {c} : req'[d] = req[d],
         req'[c].row.dispatched \in Nat,
         \A b \in DOMAIN req'[c].wBatch : RowAgrees(b, req'[c].wBatch[b])
  PROVE  RowsAgree'
<1>1. ASSUME NEW d \in Clients
      PROVE  /\ req'[d].row.dispatched \in Nat
             /\ \A b \in DOMAIN req'[d].wBatch : RowAgrees(b, req'[d].wBatch[b])
  BY DEF RowsAgree
<1>2. \A b \in Batches : RowAgrees(b, batch'[b])
  BY DEF RowsAgree
<1> QED BY <1>1, <1>2 DEF RowsAgree, RowAgrees

\* A step that ends the request of c, or leaves the requests alone.
LEMMA AgreeEnd ==
  ASSUME TypeOK, RowsAgree, NEW c \in Clients, Done(c) \/ UNCHANGED req,
         \A b \in Batches : RowAgrees(b, batch'[b])
  PROVE  RowsAgree'
<1>1. ASSUME NEW d \in Clients
      PROVE  /\ req'[d].row.dispatched \in Nat
             /\ \A b \in DOMAIN req'[d].wBatch : RowAgrees(b, req'[d].wBatch[b])
  <2>1. req'[d] = req[d] \/ req'[d] = Idle
    BY DEF TypeOK, Done
  <2> QED BY <2>1 DEF RowsAgree, Idle, NoRow, NoWrite
<1> QED BY <1>1 DEF RowsAgree, RowAgrees

LEMMA AgreeView ==
  ASSUME TypeOK, RowsAgree, NEW c \in Clients, NEW b \in Batches
  PROVE  RowAgrees(b, BatchView(c)[b]) /\ BatchView(c)[b] \in BatchRow
<1>1. BatchView(c)[b] = IF b \in DOMAIN req[c].wBatch THEN req[c].wBatch[b] ELSE batch[b]
  BY DEF BatchView, Over, TypeOK
<1> QED BY <1>1, ViewTypes DEF RowsAgree

LEMMA AgreeReserved ==
  ASSUME TypeOK, RowsAgree, NEW c \in Clients, NEW n
  PROVE  LET w == WriteReserved(c, req[c].b, n) IN
         \A b \in DOMAIN w : RowAgrees(b, w[b])
<1> DEFINE b == req[c].b
           st == computeStockStatus(b, req[c].row.stock, n, req[c].row.dispatched)
           row == [BatchView(c)[b] EXCEPT !.reserved = n, !.stock = st]
<1>1. b \in Batches
  BY DEF TypeOK, RequestOK
<1>2. RowAgrees(b, BatchView(c)[b]) /\ BatchView(c)[b] \in BatchRow
  BY <1>1, AgreeView
<1> HIDE DEF st
<1>3. RowAgrees(b, row)
  BY <1>2 DEF RowAgrees, BatchRow
<1> HIDE DEF row
<1> QED BY <1>3 DEF WriteReserved, Put, RowsAgree, row, st

LEMMA AgreeShipped ==
  ASSUME TypeOK, RowsAgree, NEW c \in Clients, NEW b \in Batches, NEW p, NEW q \in Qty
  PROVE  RowAgrees(b, ShippedRow(c, b, p, q))
<1> DEFINE n == req[c].row.dispatched + q
           st == computeStockStatus(b, req[c].row.stock, req[c].row.reserved - p, n)
           m == req[c].row.reserved - p
<1>1. q \in Nat /\ q > 0 /\ req[c].row.dispatched \in Nat
  BY FgAssumption DEF Qty, RowsAgree
<1>2. n \in Nat /\ n # 0
  BY <1>1
<1>3. BatchView(c)[b] \in BatchRow
  BY AgreeView
<1>4. ShippedRow(c, b, p, q) =
        [BatchView(c)[b] EXCEPT !.reserved = m, !.dispatched = n,
           !.dispatch = IF n = PassedQty[b] THEN "Dispatched" ELSE "Partial", !.stock = st]
  BY DEF ShippedRow
<1> HIDE DEF n, m, st
<1> QED BY <1>2, <1>3, <1>4 DEF RowAgrees, BatchRow

LEMMA AgreeRequest ==
  ASSUME TypeOK, RowsAgree, NEW c \in Clients, Request(c)
  PROVE  RowsAgree'
<1>0. DOMAIN req = Clients
  BY DEF TypeOK
<1>1. CASE \/ \E s \in SalesOrders : deleteSalesOrder(c, s)
           \/ \E s \in SalesOrders, q \in OrderedQty :
                createSalesOrder(c, s, q) \/ updateSalesOrder(c, s, q)
  BY <1>1 DEF deleteSalesOrder, createSalesOrder, updateSalesOrder, RowsAgree
<1>2. ASSUME NEW b \in Batches, NEW l \in Places, generateFgBatch(c, b, l)
      PROVE  RowsAgree'
  <2>1. RowAgrees(b, FreshRow(l))
    BY DEF RowAgrees, FreshRow
  <2>2. \A x \in Batches : RowAgrees(x, batch'[x])
    BY <1>2, <2>1 DEF generateFgBatch, TypeOK, RowsAgree
  <2> QED BY <1>2, <2>2, AgreeEnd DEF generateFgBatch
<1>3. ASSUME NEW op, NEW b \in Batches, NEW so, NEW q, NEW l, Load(c, op, b, so, q, l)
      PROVE  RowsAgree'
  <2>1. /\ req'[c].row = batch[b] /\ req'[c].wBatch = NoWrite /\ batch' = batch
        /\ \A d \in Clients \ {c} : req'[d] = req[d]
    BY <1>0, <1>3 DEF Load, Idle
  <2>2. batch[b].dispatched \in Nat
    BY DEF RowsAgree, RowAgrees
  <2> QED BY <2>1, <2>2, AgreeStep DEF NoWrite
<1>4. CASE \/ \E i \in DOMAIN resv : cancelLoad(c, i)
           \/ \E s \in SalesOrders \cup {NoSO}, lines \in Lines : createDispatch(c, s, lines)
  <2>1. /\ req'[c].row = NoRow /\ req'[c].wBatch = NoWrite /\ batch' = batch
        /\ \A d \in Clients \ {c} : req'[d] = req[d]
    BY <1>0, <1>4 DEF cancelLoad, createDispatch, Idle
  <2> QED BY <2>1, AgreeStep DEF NoWrite, NoRow
<1> QED
  BY <1>1, <1>2, <1>3, <1>4 DEF Request, transferLoad, holdLoad, releaseLoad, reserveLoad

LEMMA AgreeAdvance ==
  ASSUME TypeOK, RowsAgree, NEW c \in Clients, Advance(c)
  PROVE  RowsAgree'
<1> DEFINE r == req[c]
<1>0. /\ DOMAIN req = Clients /\ DOMAIN r = DOMAIN Idle /\ RequestOK(r) /\ r.b \in Batches
      /\ r.row.dispatched \in Nat
  BY DEF TypeOK, RequestOK, RowsAgree
<1>1. CASE transferFgBatch(c) \/ holdFgBatch(c) \/ releaseHoldFgBatch(c)
  <2>1. batch[r.b] \in BatchRow
    BY <1>0 DEF TypeOK
  <2>2. \A x \in Batches : /\ batch'[x].dispatched = batch[x].dispatched
                           /\ batch'[x].dispatch = batch[x].dispatch
    <3>1. CASE transferFgBatch(c)
      BY <1>0, <2>1, <3>1 DEF transferFgBatch, TypeOK, BatchRow
    <3>2. CASE holdFgBatch(c)
      BY <1>0, <2>1, <3>2 DEF holdFgBatch, TypeOK, BatchRow
    <3>3. CASE releaseHoldFgBatch(c)
      BY <1>0, <2>1, <3>3 DEF releaseHoldFgBatch, TypeOK, BatchRow
    <3> QED BY <1>1, <3>1, <3>2, <3>3
  <2>3. \A x \in Batches : RowAgrees(x, batch'[x])
    BY <2>2 DEF RowsAgree, RowAgrees
  <2> QED BY <1>1, <2>3, AgreeEnd DEF transferFgBatch, holdFgBatch, releaseHoldFgBatch
<1>2. CASE reserveFgBatch(c) \/ cancelReservation(c)
  <2>1. PICK n : /\ req'[c].wBatch = WriteReserved(c, r.b, n) /\ req'[c].row = r.row
                 /\ batch' = batch /\ \A d \in Clients \ {c} : req'[d] = req[d]
    <3>1. CASE reserveFgBatch(c)
      <4> HIDE DEF r
      <4> QED BY <1>0, <3>1 DEF reserveFgBatch, Idle, r
    <3>2. CASE cancelReservation(c)
      BY <1>0, <3>2 DEF cancelReservation, Idle
    <3> QED BY <1>2, <3>1, <3>2
  <2>2. \A b \in DOMAIN req'[c].wBatch : RowAgrees(b, req'[c].wBatch[b])
    BY <2>1, AgreeReserved
  <2> QED BY <1>0, <2>1, <2>2, AgreeStep
<1>3. CASE cancelReadBatch(c) \/ lineReadBatch(c)
  <2>1. PICK b \in Batches : /\ req'[c].row = batch[b] \/ req'[c].row = BatchView(c)[b]
                             /\ req'[c].wBatch = r.wBatch /\ batch' = batch
                             /\ \A d \in Clients \ {c} : req'[d] = req[d]
    <3>1. CASE cancelReadBatch(c)
      BY <1>0, <3>1 DEF cancelReadBatch, Idle
    <3>2. CASE lineReadBatch(c)
      <4>1. Head(r.lines).b \in Batches
        BY <1>0, <3>2, HeadLine DEF lineReadBatch
      <4> QED BY <1>0, <3>2, <4>1 DEF lineReadBatch, Idle
    <3> QED BY <1>3, <3>1, <3>2
  <2>2. batch[b].dispatched \in Nat /\ BatchView(c)[b].dispatched \in Nat
    BY AgreeView DEF RowsAgree, RowAgrees
  <2>3. \A x \in DOMAIN r.wBatch : RowAgrees(x, r.wBatch[x])
    BY DEF RowsAgree
  <2> QED BY <2>1, <2>2, <2>3, AgreeStep
<1>4. CASE lineReadClaims(c) \/ dispatchRecompute(c)
  <2>1. /\ req'[c].row = r.row /\ req'[c].wBatch = r.wBatch /\ batch' = batch
        /\ \A d \in Clients \ {c} : req'[d] = req[d]
    BY <1>0, <1>4 DEF lineReadClaims, dispatchRecompute, Idle
  <2> QED BY <1>0, <2>1, AgreeStep DEF RowsAgree
<1>5. CASE processDispatchLineItem(c)
  <2> DEFINE b == r.b
             q == Head(r.lines).qty
             portion == MinOf(q, Total(r.claims, DOMAIN r.claims))
             row == ShippedRow(c, b, portion, q)
             w == Put(r.wBatch, b, row)
  <2>1. /\ req'[c].row = r.row /\ req'[c].wBatch = w /\ batch' = batch
        /\ \A d \in Clients \ {c} : req'[d] = req[d]
    <3> DEFINE wr == Then(r.wResv, Consumed(ResvView(c), r.claims, portion))
               items == Append(r.wItems, [so |-> r.so, b |-> b, qty |-> q])
               log == Put(r.wLog, b, Logged(c, b, q))
    <3>1. /\ req' = [req EXCEPT ![c] = [r EXCEPT !.pc = "line", !.lines = Tail(r.lines),
                       !.wResv = wr, !.wBatch = w, !.wItems = items, !.wLog = log]]
          /\ batch' = batch
      BY <1>5 DEF processDispatchLineItem
    <3> HIDE DEF r, wr, w, items, log
    <3> QED BY <1>0, <3>1 DEF Idle, r
  <2>2. q \in Qty
    <3>1. r.lines # << >>
      BY <1>0, <1>5 DEF processDispatchLineItem, At, RequestOK
    <3> QED BY <1>0, <3>1, HeadLine
  <2> HIDE DEF portion, q
  <2>3. RowAgrees(b, row)
    BY <1>0, <2>2, AgreeShipped
  <2> HIDE DEF row
  <2>4. \A x \in DOMAIN w : RowAgrees(x, w[x])
    BY <2>3 DEF Put, RowsAgree
  <2> HIDE DEF w
  <2> QED BY <1>0, <2>1, <2>4, AgreeStep
<1>6. CASE Commit(c) \/ Rollback(c)
  <2>1. \A x \in Batches : RowAgrees(x, batch'[x])
    BY <1>6, AgreeView DEF Commit, Rollback, RowsAgree
  <2> QED BY <1>6, <2>1, AgreeEnd DEF Commit, Rollback
<1> QED BY <1>1, <1>2, <1>3, <1>4, <1>5, <1>6 DEF Advance

\* Whatever interleaves, dispatchStatus is Ready, Partial or Dispatched as
\* dispatchedQty says: both are written by one update of processDispatchLineItem
\* and nothing else writes either.
THEOREM DispatchStatusTrue == Spec => []DispatchStatusAgrees
<1>1. Init => TypeOK /\ RowsAgree
  <2> SUFFICES ASSUME Init PROVE RowsAgree
    BY InitType
  <2> QED BY DEF Init, RowsAgree, RowAgrees, NoRow, Idle, NoWrite
<1>2. TypeOK /\ RowsAgree /\ [Next]_vars => TypeOK' /\ RowsAgree'
  <2> SUFFICES ASSUME TypeOK, RowsAgree, [Next]_vars PROVE RowsAgree'
    BY NextType
  <2>1. CASE UNCHANGED vars
    BY <2>1 DEF vars, RowsAgree, RowAgrees
  <2>2. CASE Next
    BY <2>2, AgreeRequest, AgreeAdvance DEF Next
  <2> QED BY <2>1, <2>2
<1>3. RowsAgree => DispatchStatusAgrees
  BY DEF RowsAgree, RowAgrees, DispatchStatusAgrees
<1> QED BY <1>1, <1>2, <1>3, PTL DEF Spec

-----------------------------------------------------------------------------
(* Sums as numbers of units *)

Units(rows, ids) == {u \in ids \X Qty : u[2] <= rows[u[1]].qty}

LEMMA UnitsFinite ==
  ASSUME NEW rows, NEW ids, IsFiniteSet(ids)
  PROVE  /\ IsFiniteSet(Units(rows, ids)) /\ Total(rows, ids) = Cardinality(Units(rows, ids))
         /\ Total(rows, ids) \in Nat
<1>1. IsFiniteSet(Qty)
  BY FS_Interval, FgAssumption DEF Qty
<1>2. IsFiniteSet(ids \X Qty)
  BY <1>1, FS_Product
<1>3. Units(rows, ids) \in SUBSET (ids \X Qty)
  BY DEF Units
<1>4. IsFiniteSet(Units(rows, ids))
  BY <1>2, <1>3, FS_Subset
<1> QED BY <1>4, FS_CardinalityType DEF Units, Total

\* The rows f and g have the same quantities at ids.
SameQty(f, g, ids) == \A i \in ids : f[i].qty = g[i].qty

LEMMA TotalSame ==
  ASSUME NEW f, NEW g, NEW ids, SameQty(f, g, ids)
  PROVE  Total(f, ids) = Total(g, ids)
<1>1. Units(f, ids) = Units(g, ids)
  BY DEF Units, SameQty
<1> QED BY <1>1 DEF Total, Units

LEMMA TotalUnion ==
  ASSUME NEW f, NEW S, NEW T, IsFiniteSet(S), IsFiniteSet(T), S \cap T = {}
  PROVE  /\ Total(f, S \cup T) = Total(f, S) + Total(f, T)
         /\ IsFiniteSet(S \cup T)
<1> DEFINE U == Units(f, S)
           V == Units(f, T)
<1>1. Units(f, S \cup T) = U \cup V /\ U \cap V = {}
  BY DEF Units
<1>2. IsFiniteSet(S \cup T)
  BY FS_Union
<1>3. IsFiniteSet(U) /\ Total(f, S) = Cardinality(U)
  BY UnitsFinite
<1>4. IsFiniteSet(V) /\ Total(f, T) = Cardinality(V)
  BY UnitsFinite
<1>5. Total(f, S \cup T) = Cardinality(U \cup V)
  BY <1>1, <1>2, UnitsFinite
<1> HIDE DEF U, V
<1>6. Cardinality(U \cup V) = Cardinality(U) + Cardinality(V) - Cardinality({})
  BY <1>1, <1>3, <1>4, FS_Union
<1>7. Cardinality({}) = 0 /\ Cardinality(U) \in Nat /\ Cardinality(V) \in Nat
  BY <1>3, <1>4, FS_EmptySet, FS_CardinalityType
<1>8. Cardinality(U \cup V) = Cardinality(U) + Cardinality(V)
  BY <1>6, <1>7
<1> QED BY <1>2, <1>3, <1>4, <1>5, <1>8

LEMMA TotalOne ==
  ASSUME NEW f, NEW i, f[i].qty \in 0..MaxQty
  PROVE  Total(f, {i}) = f[i].qty
<1> DEFINE q == f[i].qty
<1>1. MaxQty \in Nat /\ q \in Nat /\ q <= MaxQty
  BY FgAssumption
<1>2. Units(f, {i}) = {i} \X (1..q)
  BY <1>1 DEF Units, Qty
<1>3. IsFiniteSet({i}) /\ Cardinality({i}) = 1
  BY FS_Singleton
<1>4. Total(f, {i}) = Cardinality({i} \X (1..q))
  BY <1>2, <1>3, UnitsFinite
<1> HIDE DEF q
<1>5. IsFiniteSet(1..q) /\ Cardinality(1..q) = q
  <2>1. Cardinality(1..q) = IF 1 > q THEN 0 ELSE q - 1 + 1
    BY <1>1, FS_Interval
  <2>2. IsFiniteSet(1..q)
    BY <1>1, FS_Interval
  <2> QED BY <1>1, <2>1, <2>2
<1>6. Cardinality({i} \X (1..q)) = 1 * q
  BY <1>3, <1>5, FS_Product
<1> QED BY <1>1, <1>4, <1>6 DEF q

\* Rows of quantity 0 add nothing, and neither do no rows.
LEMMA TotalZero ==
  ASSUME NEW f, NEW ids, IsFiniteSet(ids), \A i \in ids : f[i].qty = 0
  PROVE  Total(f, ids) = 0
<1>1. Units(f, ids) = {}
  BY FgAssumption DEF Units, Qty
<1> QED BY <1>1, UnitsFinite, FS_EmptySet

LEMMA TotalNothing ==
  ASSUME NEW f
  PROVE  Total(f, {}) = 0
<1>1. IsFiniteSet({})
  BY FS_EmptySet
<1>2. \A i \in {} : f[i].qty = 0
  OBVIOUS
<1> QED BY ONLY <1>1, <1>2, TotalZero

LEMMA TotalAdd ==
  ASSUME NEW f, NEW ids, IsFiniteSet(ids), NEW i, i \notin ids, f[i].qty \in 0..MaxQty
  PROVE  Total(f, ids \cup {i}) = Total(f, ids) + f[i].qty
<1>1. IsFiniteSet({i}) /\ ids \cap {i} = {}
  BY FS_Singleton
<1>2. Total(f, ids \cup {i}) = Total(f, ids) + Total(f, {i})
  BY <1>1, TotalUnion
<1>3. Total(f, {i}) = f[i].qty
  BY TotalOne
<1> QED BY <1>2, <1>3

\* The part of a sum over some of its rows.
LEMMA TotalPart ==
  ASSUME NEW f, NEW S, NEW T, IsFiniteSet(T), S \subseteq T
  PROVE  /\ Total(f, T) = Total(f, S) + Total(f, T \ S)
         /\ Total(f, S) \in Nat /\ Total(f, T \ S) \in Nat /\ Total(f, T) \in Nat
         /\ IsFiniteSet(S) /\ IsFiniteSet(T \ S)
<1>1. IsFiniteSet(S) /\ IsFiniteSet(T \ S) /\ S \cap (T \ S) = {} /\ S \cup (T \ S) = T
  BY FS_Subset
<1> DEFINE D == T \ S
<1>2. IsFiniteSet(D) /\ S \cap D = {} /\ S \cup D = T
  BY <1>1
<1> HIDE DEF D
<1>3. Total(f, S \cup D) = Total(f, S) + Total(f, D)
  BY <1>1, <1>2, TotalUnion
<1>4. Total(f, S) \in Nat /\ Total(f, D) \in Nat /\ Total(f, T) \in Nat
  BY <1>1, <1>2, UnitsFinite
<1> QED BY <1>1, <1>2, <1>3, <1>4 DEF D

\* A row is no more than the sum it is in.
LEMMA TotalMember ==
  ASSUME NEW f, NEW T, IsFiniteSet(T), NEW i \in T, f[i].qty \in 0..MaxQty
  PROVE  f[i].qty <= Total(f, T)
<1>1. Total(f, T) = Total(f, {i}) + Total(f, T \ {i}) /\ Total(f, T \ {i}) \in Nat
  BY TotalPart
<1>2. Total(f, {i}) = f[i].qty
  BY TotalOne
<1>3. f[i].qty \in Nat
  BY FgAssumption
<1> QED BY <1>1, <1>2, <1>3

\* What is left of a portion for a row covers every older row of the same
\* claims: those are drawn on first, and in full.
LEMMA LeftOlder ==
  ASSUME NEW claims, IsFiniteSet(DOMAIN claims), DOMAIN claims \subseteq Nat,
         \A i \in DOMAIN claims : claims[i].qty \in 0..MaxQty,
         NEW portion \in Int, NEW i \in DOMAIN claims, NEW j \in DOMAIN claims, j < i,
         LeftFor(claims, portion, i) > 0
  PROVE  /\ LeftFor(claims, portion, j) > 0
         /\ LeftFor(claims, portion, j) >= claims[j].qty
         /\ LeftFor(claims, portion, j) \in Int
<1> DEFINE A == {k \in DOMAIN claims : k < j}
           B == {k \in DOMAIN claims : k < i}
<1>1. IsFiniteSet(A) /\ IsFiniteSet(B)
  BY FS_Subset
<1>2. j \notin A /\ (A \cup {j}) \subseteq B
  BY DEF A, B
<1>3. LeftFor(claims, portion, i) = portion - Total(claims, B)
      /\ LeftFor(claims, portion, j) = portion - Total(claims, A)
  BY DEF LeftFor
<1> HIDE DEF A, B
<1>4. claims[j].qty \in 0..MaxQty /\ claims[j].qty \in Nat
  BY FgAssumption
<1>5. Total(claims, A \cup {j}) = Total(claims, A) + claims[j].qty
  BY <1>1, <1>2, <1>4, TotalAdd
<1>6. /\ Total(claims, B) = Total(claims, A \cup {j}) + Total(claims, B \ (A \cup {j}))
      /\ Total(claims, B \ (A \cup {j})) \in Nat
  BY <1>1, <1>2, TotalPart
<1>7. Total(claims, A) \in Nat
  BY <1>1, UnitsFinite
<1> HIDE DEF LeftFor
<1> DEFINE x == Total(claims, B \ (A \cup {j}))
           y == Total(claims, A)
           z == Total(claims, B)
<1>8. x \in Nat /\ y \in Nat /\ z = y + claims[j].qty + x
  BY <1>5, <1>6, <1>7
<1> HIDE DEF x, y, z
<1> QED BY <1>3, <1>4, <1>8 DEF z, y

-----------------------------------------------------------------------------
(* Reservations of one order on one batch are consumed oldest first *)

\* What request r has written to reservations: none becomes Active again, only
\* a dispatch changes a quantity, and a dispatch that has drawn on a row, or is
\* about to, has used up or is about to use up every older claim of its order.
OldestRequest(r) ==
  /\ \A i \in DOMAIN r.wResv : r.wResv[i].status = "Active" => resv[i].status = "Active"
  /\ r.op # "dispatch" => \A i \in DOMAIN r.wResv : r.wResv[i].qty = resv[i].qty
  /\ r.op = "dispatch" => \A i \in DOMAIN r.wResv :
       /\ r.wResv[i].status \in {resv[i].status, "Fulfilled"}
       /\ \A j \in Claims(resv, resv[i].b, resv[i].so) : j < i =>
            j \in DOMAIN r.wResv /\ r.wResv[j].status = "Fulfilled"
  /\ r.pc = "claims" => \A i \in DOMAIN r.claims :
       \A j \in Claims(resv, r.b, r.so) : j < i =>
         \/ j \in DOMAIN r.claims
         \/ j \in DOMAIN r.wResv /\ r.wResv[j].status = "Fulfilled"

OldestDraws == \A c \in Clients : OldestRequest(req[c])

LEMMA OldestStep ==
  ASSUME OldestDraws, NEW c \in Clients, resv' = resv,
         \A d \in Clients \ {c} : req'[d] = req[d], req'[c].pc # "claims",
         \/ DOMAIN req'[c].wResv = {}
         \/ req'[c].wResv = req[c].wResv /\ req'[c].op = req[c].op
  PROVE  OldestDraws'
<1>1. OldestRequest(req[c])'
  BY DEF OldestDraws, OldestRequest
<1>2. ASSUME NEW d \in Clients \ {c} PROVE OldestRequest(req[d])'
  BY <1>2 DEF OldestDraws, OldestRequest
<1> QED BY <1>1, <1>2 DEF OldestDraws

LEMMA ClaimsOf ==
  ASSUME NEW rs, NEW b, NEW s, NEW i
  PROVE  i \in Claims(rs, b, s) <=>
           i \in DOMAIN rs /\ rs[i].status = "Active" /\ rs[i].b = b /\ rs[i].so = s
BY DEF Claims, ActiveOn, ActiveFor, Active

LEMMA OldestClaims ==
  ASSUME TypeOK, OwnDraws, OldestDraws, NEW c \in Clients, lineReadClaims(c)
  PROVE  OldestDraws'
<1> DEFINE r == req[c]
           mine == [i \in Claims(ResvView(c), r.b, r.so) |-> ResvView(c)[i]]
<1>0. DOMAIN req = Clients /\ DOMAIN r = DOMAIN Idle /\ r.op = "dispatch"
  BY DEF TypeOK, RequestOK, lineReadClaims, At
<1>1. /\ req'[c].pc = "claims" /\ req'[c].claims = mine /\ req'[c].b = r.b /\ req'[c].so = r.so
      /\ req'[c].wResv = r.wResv /\ req'[c].op = r.op
      /\ resv' = resv /\ \A d \in Clients \ {c} : req'[d] = req[d]
  BY <1>0 DEF lineReadClaims, Idle
<1>2. ASSUME NEW i \in DOMAIN mine, NEW j \in Claims(resv, r.b, r.so), j < i, j \notin DOMAIN mine
      PROVE  j \in DOMAIN r.wResv /\ r.wResv[j].status = "Fulfilled"
  <2>1. j \in DOMAIN resv /\ resv[j].status = "Active" /\ resv[j].b = r.b /\ resv[j].so = r.so
    BY ClaimsOf
  <2>2. /\ ResvView(c)[j] = IF j \in DOMAIN r.wResv THEN r.wResv[j] ELSE resv[j]
        /\ ResvView(c)[j].so = resv[j].so /\ ResvView(c)[j].b = resv[j].b
        /\ j \in DOMAIN ResvView(c)
    BY <2>1, OwnView, ViewTypes
  <2>3. ResvView(c)[j].status # "Active"
    BY <1>2, <2>1, <2>2, ClaimsOf
  <2> QED BY <1>0, <2>1, <2>2, <2>3 DEF OldestDraws, OldestRequest
<1> HIDE DEF mine
<1>3. OldestRequest(req[c])'
  BY <1>0, <1>1, <1>2 DEF OldestDraws, OldestRequest
<1>4. ASSUME NEW d \in Clients \ {c} PROVE OldestRequest(req[d])'
  BY <1>1, <1>4 DEF OldestDraws, OldestRequest
<1> QED BY <1>3, <1>4 DEF OldestDraws

LEMMA OldestDispatch ==
  ASSUME TypeOK, OwnDraws, OldestDraws, NEW c \in Clients, processDispatchLineItem(c)
  PROVE  OldestDraws'
<1> DEFINE r == req[c]
           q == Head(r.lines).qty
           portion == MinOf(q, Total(r.claims, DOMAIN r.claims))
           drawn == Consumed(ResvView(c), r.claims, portion)
           wr == Then(r.wResv, drawn)
<1>0. /\ RequestOK(r) /\ OwnRequest(r) /\ OldestRequest(r) /\ DOMAIN req = Clients
      /\ r.pc = "claims" /\ r.op = "dispatch" /\ r.lines # << >>
  BY DEF TypeOK, OwnDraws, OldestDraws, processDispatchLineItem, At, RequestOK
<1>1. /\ req'[c].pc = "line" /\ req'[c].op = r.op /\ req'[c].wResv = wr /\ resv' = resv
      /\ \A d \in Clients \ {c} : req'[d] = req[d]
  <2> DEFINE new == Put(r.wBatch, r.b, ShippedRow(c, r.b, portion, q))
             log == Put(r.wLog, r.b, Logged(c, r.b, q))
             items == Append(r.wItems, [so |-> r.so, b |-> r.b, qty |-> q])
  <2>1. /\ req' = [req EXCEPT ![c] = [r EXCEPT !.pc = "line", !.lines = Tail(r.lines),
                     !.wResv = wr, !.wBatch = new, !.wItems = items, !.wLog = log]]
        /\ resv' = resv
    BY DEF processDispatchLineItem
  <2> HIDE DEF new, log, wr, items, drawn
  <2>2. DOMAIN r = DOMAIN Idle
    BY <1>0 DEF RequestOK
  <2> HIDE DEF r
  <2> QED BY <1>0, <2>1, <2>2 DEF Idle
<1>2. /\ DOMAIN r.claims \subseteq DOMAIN resv /\ IsFiniteSet(DOMAIN r.claims)
      /\ DOMAIN r.claims \subseteq Nat /\ \A i \in DOMAIN r.claims : r.claims[i].qty \in 0..MaxQty
  <2>1. DOMAIN resv = 1..Len(resv)
    BY DEF TypeOK
  <2> QED BY <1>0, <2>1, PositionsFinite DEF RequestOK, TypeOK, ResvRow
<1>3. portion \in Int
  <2>1. q \in Nat
    BY <1>0, HeadLine
  <2> QED BY <1>2, <2>1, UnitsFinite DEF MinOf
<1> HIDE DEF portion
\* A row that is drawn on keeps its status as the transaction sees it, or is used up.
<1>4. ASSUME NEW i \in DOMAIN drawn
      PROVE  /\ i \in DOMAIN r.claims /\ i \in DOMAIN resv /\ LeftFor(r.claims, portion, i) > 0
             /\ drawn[i].status \in {ResvView(c)[i].status, "Fulfilled"}
             /\ LeftFor(r.claims, portion, i) >= r.claims[i].qty
                  /\ LeftFor(r.claims, portion, i) \in Int => drawn[i].status = "Fulfilled"
             /\ ResvView(c)[i] = IF i \in DOMAIN r.wResv THEN r.wResv[i] ELSE resv[i]
  <2>1. i \in DOMAIN r.claims /\ LeftFor(r.claims, portion, i) > 0
    BY DEF Consumed
  <2>2. i \in DOMAIN resv
    BY <1>2, <2>1
  <2>3. ResvView(c)[i] \in ResvRow
        /\ ResvView(c)[i] = IF i \in DOMAIN r.wResv THEN r.wResv[i] ELSE resv[i]
    BY <2>2, ViewTypes, OwnView
  <2> DEFINE left == r.claims[i].qty - MinOf(LeftFor(r.claims, portion, i), r.claims[i].qty)
  <2>4. drawn[i] = [ResvView(c)[i] EXCEPT !.qty = left,
                      !.status = IF left = 0 THEN "Fulfilled" ELSE ResvView(c)[i].status]
    BY <2>1 DEF Consumed
  <2>5. LeftFor(r.claims, portion, i) >= r.claims[i].qty
          /\ LeftFor(r.claims, portion, i) \in Int => left = 0
    BY <1>2, <2>1, FgAssumption DEF MinOf
  <2> HIDE DEF left
  <2> QED BY <2>1, <2>2, <2>3, <2>4, <2>5 DEF ResvRow
<1>5. ASSUME NEW i \in DOMAIN r.claims, LeftFor(r.claims, portion, i) > 0
      PROVE  i \in DOMAIN drawn
  BY <1>5 DEF Consumed
<1> HIDE DEF drawn
<1>6. ASSUME NEW i \in DOMAIN wr
      PROVE  /\ wr[i].status \in {resv[i].status, "Fulfilled"}
             /\ i \in DOMAIN r.wResv /\ r.wResv[i].status = "Fulfilled" => wr[i].status = "Fulfilled"
  BY <1>0, <1>4, <1>6 DEF OldestRequest, wr, Then
<1>7. ASSUME NEW i \in DOMAIN wr, NEW j \in Claims(resv, resv[i].b, resv[i].so), j < i
      PROVE  j \in DOMAIN wr /\ wr[j].status = "Fulfilled"
  <2>1. CASE j \in DOMAIN r.wResv /\ r.wResv[j].status = "Fulfilled"
    BY <1>6, <2>1 DEF wr, Then
  <2>2. CASE i \in DOMAIN drawn /\ j \in DOMAIN r.claims
    <3>1. i \in DOMAIN r.claims /\ LeftFor(r.claims, portion, i) > 0
      BY <1>4, <2>2
    <3>2. /\ LeftFor(r.claims, portion, j) > 0
          /\ LeftFor(r.claims, portion, j) >= r.claims[j].qty
          /\ LeftFor(r.claims, portion, j) \in Int
      <4> DEFINE cl == r.claims
      <4>1. /\ IsFiniteSet(DOMAIN cl) /\ DOMAIN cl \subseteq Nat /\ j \in DOMAIN cl /\ i \in DOMAIN cl
            /\ \A k \in DOMAIN cl : cl[k].qty \in 0..MaxQty
            /\ LeftFor(cl, portion, i) > 0
        BY <1>2, <2>2, <3>1
      <4> HIDE DEF cl
      <4>2. /\ LeftFor(cl, portion, j) > 0 /\ LeftFor(cl, portion, j) >= cl[j].qty
            /\ LeftFor(cl, portion, j) \in Int
        BY <1>3, <1>7, <4>1, LeftOlder
      <4> QED BY <4>2 DEF cl
    <3>3. j \in DOMAIN drawn /\ drawn[j].status = "Fulfilled"
      BY <1>4, <1>5, <2>2, <3>2
    <3> QED BY <3>3 DEF wr, Then
  <2>3. CASE i \in DOMAIN drawn /\ ~(j \in DOMAIN r.wResv /\ r.wResv[j].status = "Fulfilled")
    <3>1. i \in DOMAIN r.claims /\ resv[i].b = r.b /\ resv[i].so = r.so
      BY <1>0, <1>4, <2>3 DEF OwnRequest
    <3>2. j \in DOMAIN r.claims
      BY <1>0, <1>7, <2>3, <3>1 DEF OldestRequest
    <3> QED BY <2>2, <2>3, <3>2
  <2>4. CASE i \notin DOMAIN drawn
    <3>1. i \in DOMAIN r.wResv
      BY <2>4 DEF wr, Then
    <3>2. j \in DOMAIN r.wResv /\ r.wResv[j].status = "Fulfilled"
      BY <1>0, <1>7, <3>1 DEF OldestRequest
    <3> QED BY <2>1, <3>2
  <2> QED BY <2>1, <2>3, <2>4
<1> HIDE DEF wr
<1>8. OldestRequest(req[c])'
  BY <1>0, <1>1, <1>6, <1>7 DEF OldestRequest
<1>9. ASSUME NEW d \in Clients \ {c} PROVE OldestRequest(req[d])'
  BY <1>1, <1>9 DEF OldestDraws, OldestRequest
<1> QED BY <1>8, <1>9 DEF OldestDraws

LEMMA OldestCancel ==
  ASSUME TypeOK, OldestDraws, NEW c \in Clients, cancelReservation(c)
  PROVE  OldestDraws'
<1> DEFINE r == req[c]
           i == r.res
           gone == [resv[i] EXCEPT !.status = "Cancelled"]
           w == Put(NoWrite, i, gone)
<1>0. /\ r.op = "cancel" /\ i \in DOMAIN resv /\ resv[i] \in ResvRow
      /\ DOMAIN req = Clients /\ DOMAIN r = DOMAIN Idle
  BY DEF TypeOK, RequestOK, cancelReservation, At
<1>1. /\ req'[c].pc = "tx" /\ req'[c].op = "cancel" /\ req'[c].wResv = w /\ resv' = resv
      /\ \A d \in Clients \ {c} : req'[d] = req[d]
  BY <1>0 DEF cancelReservation, Idle
<1>2. DOMAIN w = {i} /\ w[i] = gone
  BY DEF Put, NoWrite
<1>3. gone.qty = resv[i].qty /\ gone.status = "Cancelled"
  BY <1>0 DEF ResvRow
<1> HIDE DEF w, gone
<1>5. OldestRequest(req[c])'
  BY <1>1, <1>2, <1>3 DEF OldestRequest
<1>6. ASSUME NEW d \in Clients \ {c} PROVE OldestRequest(req[d])'
  BY <1>1, <1>6 DEF OldestDraws, OldestRequest
<1> QED BY <1>5, <1>6 DEF OldestDraws

\* A commit keeps the requests of others in order, and uses up the older claims
\* of every row it shrinks.
LEMMA OldestCommit ==
  ASSUME TypeOK, OwnDraws, OldestDraws, NEW c \in Clients, Commit(c)
  PROVE  /\ OldestDraws'
         /\ \A i \in DOMAIN resv : resv'[i].qty < resv[i].qty =>
              \A j \in Claims(resv, resv[i].b, resv[i].so) :
                 j < i => resv'[j].status = "Fulfilled"
<1> DEFINE r == req[c]
<1>1. /\ resv' = ResvView(c) /\ req'[c] = Idle /\ \A d \in Clients \ {c} : req'[d] = req[d]
  BY DEF Commit, Done, TypeOK
<1>2. \A i \in DOMAIN resv :
        /\ resv'[i] = IF i \in DOMAIN r.wResv THEN r.wResv[i] ELSE resv[i]
        /\ resv'[i].so = resv[i].so /\ resv'[i].b = resv[i].b
  BY <1>1, OwnView
<1>3. \A i \in DOMAIN resv : resv'[i].status = "Active" => resv[i].status = "Active"
  BY <1>2 DEF OldestDraws, OldestRequest
<1>4. \A i \in DOMAIN resv : \A b, s, j : j \in Claims(resv', b, s) /\ j < i => j \in Claims(resv, b, s)
  <2>1. /\ DOMAIN resv = 1..Len(resv) /\ Len(resv) \in Nat
        /\ DOMAIN ResvView(c) = 1..Len(ResvView(c)) /\ Len(ResvView(c)) \in Nat
    BY ViewTypes, LenProperties DEF TypeOK
  <2>2. SUFFICES ASSUME NEW i \in DOMAIN resv, NEW b, NEW s, NEW j \in Claims(resv', b, s), j < i
                 PROVE  j \in Claims(resv, b, s)
    OBVIOUS
  <2>3. /\ j \in DOMAIN resv' /\ resv'[j].status = "Active"
        /\ resv'[j].b = b /\ resv'[j].so = s
    BY <2>2, ClaimsOf
  <2>4. j \in DOMAIN resv
    BY <1>1, <2>1, <2>2, <2>3
  <2> QED BY <1>2, <1>3, <2>3, <2>4, ClaimsOf
<1>5. OldestDraws'
  <2>1. OldestRequest(req[c])'
    BY <1>1 DEF Idle, NoWrite, OldestRequest
  <2>2. ASSUME NEW d \in Clients \ {c} PROVE OldestRequest(req[d])'
    <3>1. /\ DOMAIN req[d].claims \subseteq DOMAIN resv
          /\ DOMAIN req[d].wResv \subseteq DOMAIN resv
          /\ DOMAIN r.wResv \cap DOMAIN req[d].wResv = {} /\ OldestRequest(req[d])
      BY <2>2 DEF TypeOK, RequestOK, OwnDraws, OldestDraws
    <3>2. \A i \in DOMAIN req[d].wResv : resv'[i] = resv[i] /\ i \in DOMAIN resv
      BY <1>2, <3>1
    <3>3. req'[d] = req[d]
      BY <1>1, <2>2
    <3>4. /\ \A i \in DOMAIN req[d].wResv : req[d].wResv[i].status = "Active" => resv'[i].status = "Active"
          /\ req[d].op # "dispatch" => \A i \in DOMAIN req[d].wResv : req[d].wResv[i].qty = resv'[i].qty
      BY <3>1, <3>2 DEF OldestRequest
    <3>5. req[d].op = "dispatch" => \A i \in DOMAIN req[d].wResv :
             /\ req[d].wResv[i].status \in {resv'[i].status, "Fulfilled"}
             /\ \A j \in Claims(resv', resv'[i].b, resv'[i].so) : j < i =>
                  j \in DOMAIN req[d].wResv /\ req[d].wResv[j].status = "Fulfilled"
      BY <1>4, <3>1, <3>2 DEF OldestRequest
    <3>6. req[d].pc = "claims" => \A i \in DOMAIN req[d].claims :
             \A j \in Claims(resv', req[d].b, req[d].so) : j < i =>
               \/ j \in DOMAIN req[d].claims
               \/ j \in DOMAIN req[d].wResv /\ req[d].wResv[j].status = "Fulfilled"
      BY <1>4, <3>1 DEF OldestRequest
    <3> QED BY <3>3, <3>4, <3>5, <3>6 DEF OldestRequest
  <2> QED BY <2>1, <2>2 DEF OldestDraws
<1>6. ASSUME NEW i \in DOMAIN resv, resv'[i].qty < resv[i].qty,
             NEW j \in Claims(resv, resv[i].b, resv[i].so), j < i
      PROVE  resv'[j].status = "Fulfilled"
  <2>1. resv[i].qty \in Int
    BY ResvQty
  <2>2. i \in DOMAIN r.wResv /\ r.wResv[i].qty < resv[i].qty
    BY <1>2, <1>6, <2>1
  <2>3. r.op = "dispatch"
    BY <2>1, <2>2 DEF OldestDraws, OldestRequest
  <2>4. j \in DOMAIN r.wResv /\ r.wResv[j].status = "Fulfilled"
    BY <1>6, <2>2, <2>3 DEF OldestDraws, OldestRequest
  <2>5. j \in DOMAIN resv
    BY ClaimsOf
  <2> QED BY <1>2, <2>4, <2>5
<1> QED BY <1>5, <1>6

LEMMA OldestQuiet ==
  ASSUME TypeOK, OwnDraws, OldestDraws, NEW c \in Clients,
         Request(c) \/ (Advance(c) /\ ~Commit(c))
  PROVE  OldestDraws' /\ resv' = resv
<1>0. DOMAIN req = Clients /\ DOMAIN req[c] = DOMAIN Idle
  BY DEF TypeOK, RequestOK
<1>1. resv' = resv
  BY OwnRequestStep, OwnAdvance
<1>2. CASE Request(c)
  <2>1. \/ UNCHANGED req
        \/ /\ req'[c].pc # "claims" /\ DOMAIN req'[c].wResv = {}
           /\ \A d \in Clients \ {c} : req'[d] = req[d]
    <3>1. CASE UNCHANGED req
      BY <3>1
    <3>2. CASE \E op, b, so, q, l : Load(c, op, b, so, q, l)
      BY <1>0, <3>2 DEF Load, Idle, NoWrite
    <3>3. CASE \E i \in DOMAIN resv : cancelLoad(c, i)
      BY <1>0, <3>3 DEF cancelLoad, Idle, NoWrite
    <3>4. CASE \E s \in SalesOrders \cup {NoSO}, lines \in Lines : createDispatch(c, s, lines)
      BY <1>0, <3>4 DEF createDispatch, Idle, NoWrite
    <3> QED
      BY <1>2, <3>1, <3>2, <3>3, <3>4 DEF Request, deleteSalesOrder, createSalesOrder,
         updateSalesOrder, generateFgBatch, transferLoad, holdLoad, releaseLoad, reserveLoad
  <2>2. CASE UNCHANGED req
    BY <1>1, <2>2 DEF OldestDraws, OldestRequest
  <2> QED BY <1>1, <2>1, <2>2, OldestStep
<1>3. CASE transferFgBatch(c) \/ holdFgBatch(c) \/ releaseHoldFgBatch(c) \/ Rollback(c)
  BY <1>0, <1>1, <1>3, OldestStep DEF transferFgBatch, holdFgBatch, releaseHoldFgBatch, Rollback,
     Done, Idle, NoWrite
<1>4. CASE reserveFgBatch(c)
  BY <1>0, <1>1, <1>4, OldestStep DEF reserveFgBatch, Idle
<1>5. CASE cancelReadBatch(c) \/ lineReadBatch(c) \/ dispatchRecompute(c)
  BY <1>0, <1>1, <1>5, OldestStep DEF cancelReadBatch, lineReadBatch, dispatchRecompute, Idle
<1> QED
  BY <1>1, <1>2, <1>3, <1>4, <1>5, OldestCancel, OldestClaims, OldestDispatch DEF Advance

\* However many requests are in flight, a dispatch takes a reservation only
\* when every older Active one of the same order on the same batch is used up
\* in the same commit, although the claims it counted on were read before
\* (processDispatchLineItem, FIFO by createdAt).
THEOREM ConsumesOldestFirst == Spec => OldestFirst
<1> DEFINE A == \A i \in DOMAIN resv : resv'[i].qty < resv[i].qty =>
                  \A j \in Claims(resv, resv[i].b, resv[i].so) :
                     j < i => resv'[j].status = "Fulfilled"
           I == TypeOK /\ OwnDraws /\ OldestDraws
<1>1. Init => I
  <2> SUFFICES ASSUME Init PROVE OldestDraws
    BY InitType, OwnInit
  <2> QED BY DEF Init, OldestDraws, OldestRequest, Idle, NoWrite
<1>2. ASSUME I, [Next]_vars
      PROVE  I' /\ [A]_vars
  <2>1. TypeOK' /\ TypeOK /\ OwnDraws /\ OldestDraws
    BY <1>2, NextType
  <2>2. CASE UNCHANGED vars
    BY <2>1, <2>2 DEF vars, OwnDraws, OwnRequest, OldestDraws, OldestRequest
  <2>3. ASSUME NEW c \in Clients, Request(c) \/ (Advance(c) /\ ~Commit(c))
        PROVE  OwnDraws' /\ OldestDraws' /\ A
    <3>1. OwnDraws' /\ OldestDraws' /\ resv' = resv
      BY <2>1, <2>3, OwnRequestStep, OwnAdvance, OldestQuiet
    <3>2. \A i \in DOMAIN resv : resv[i].qty \in Int
      BY <2>1, ResvQty
    <3> QED BY <3>1, <3>2
  <2>4. ASSUME NEW c \in Clients, Commit(c)
        PROVE  OwnDraws' /\ OldestDraws' /\ A
    BY <2>1, <2>4, OwnCommit, OldestCommit
  <2> HIDE DEF A
  <2> QED BY <1>2, <2>1, <2>2, <2>3, <2>4 DEF Next
<1> QED BY <1>1, <1>2, PTL DEF Spec, OldestFirst

-----------------------------------------------------------------------------
(* Sums over the rows of two tables one after the other *)

Shifted(n, ids) == {n + i : i \in ids}

\* The same quantities under other numbers.
LEMMA TotalShift ==
  ASSUME NEW f, NEW g, NEW n \in Nat, NEW ids \in SUBSET Nat, IsFiniteSet(ids),
         \A i \in ids : g[n + i].qty = f[i].qty
  PROVE  /\ Total(g, Shifted(n, ids)) = Total(f, ids)
         /\ IsFiniteSet(Shifted(n, ids))
<1> DEFINE S == Units(f, ids)
           shifted == {n + i : i \in ids}
           T == Units(g, shifted)
           F == [u \in S |-> <<n + u[1], u[2]>>]
           G == [i \in ids |-> n + i]
<1>1. G \in Bijection(ids, shifted)
  <2>1. G \in [ids -> shifted]
    OBVIOUS
  <2>2. \A i, j \in ids : G[i] = G[j] => i = j
    OBVIOUS
  <2>3. \A t \in shifted : \E i \in ids : G[i] = t
    OBVIOUS
  <2> HIDE DEF G, shifted
  <2> QED BY <2>1, <2>2, <2>3 DEF Bijection, Injection, Surjection, IsInjective
<1>2. IsFiniteSet(shifted)
  BY <1>1, FS_Bijection DEF ExistsBijection
<1>3. F \in [S -> T]
  <2> SUFFICES ASSUME NEW u \in S PROVE <<n + u[1], u[2]>> \in T
    OBVIOUS
  <2>1. u[1] \in ids /\ u[2] \in Qty /\ u[2] <= f[u[1]].qty
    BY DEF Units
  <2> QED BY <2>1 DEF Units
<1>4. \A u, v \in S : F[u] = F[v] => u = v
  <2> SUFFICES ASSUME NEW u \in S, NEW v \in S, F[u] = F[v] PROVE u = v
    OBVIOUS
  <2>1. u \in Nat \X Qty /\ v \in Nat \X Qty
    BY DEF Units
  <2>2. F[u] = <<n + u[1], u[2]>> /\ F[v] = <<n + v[1], v[2]>>
    OBVIOUS
  <2> HIDE DEF S, F
  <2> DEFINE a == n + u[1]
             b == n + v[1]
  <2>3. a = b /\ u[2] = v[2]
    <3>1. <<a, u[2]>> = <<b, v[2]>>
      BY <2>2
    <3> HIDE DEF a, b
    <3> QED BY <3>1
  <2>4. u[1] \in Nat /\ v[1] \in Nat
    BY <2>1
  <2>5. u[1] = v[1]
    BY <2>3, <2>4
  <2>6. u = <<u[1], u[2]>> /\ v = <<v[1], v[2]>>
    BY <2>1
  <2> QED BY <2>3, <2>5, <2>6
<1>5. \A t \in T : \E u \in S : F[u] = t
  <2> SUFFICES ASSUME NEW t \in T PROVE \E u \in S : F[u] = t
    OBVIOUS
  <2>1. t = <<t[1], t[2]>> /\ t[1] \in shifted /\ t[2] \in Qty /\ t[2] <= g[t[1]].qty
    BY DEF Units
  <2>2. PICK i \in ids : t[1] = n + i
    BY <2>1
  <2>3. <<i, t[2]>> \in S
    BY <2>1, <2>2 DEF Units
  <2>4. F[<<i, t[2]>>] = t
    BY <2>1, <2>2, <2>3
  <2> QED BY <2>3, <2>4
<1> HIDE DEF S, T, F, shifted
<1>6. F \in Bijection(S, T)
  <2>1. DOMAIN F = S
    BY <1>3
  <2> QED BY <1>3, <1>4, <1>5, <2>1 DEF Bijection, Injection, Surjection, IsInjective
<1>7. IsFiniteSet(S) /\ Total(f, ids) = Cardinality(S)
  BY UnitsFinite DEF S
<1>8. Cardinality(T) = Cardinality(S)
  BY <1>6, <1>7, FS_Bijection DEF ExistsBijection
<1>9. Total(g, shifted) = Cardinality(T)
  BY <1>2, UnitsFinite DEF T
<1> QED BY <1>2, <1>7, <1>8, <1>9 DEF shifted, Shifted

\* A sum over rows of x \o y is one over rows of x and one over rows of y.
LEMMA TotalConcat ==
  ASSUME NEW R, NEW x \in Seq(R), NEW y \in Seq(R),
         NEW ids \in SUBSET DOMAIN (x \o y), NEW A, NEW B,
         A = {i \in DOMAIN x : i \in ids}, B = {i \in DOMAIN y : Len(x) + i \in ids}
  PROVE  Total(x \o y, ids) = Total(x, A) + Total(y, B)
<1> DEFINE n == Len(x)
           h == x \o y
           C == Shifted(n, B)
<1>1. /\ n \in Nat /\ Len(y) \in Nat /\ DOMAIN x = 1..n /\ DOMAIN y = 1..Len(y)
      /\ DOMAIN h = 1..(n + Len(y))
      /\ \A i \in 1..n : h[i] = x[i]
      /\ \A i \in 1..Len(y) : h[n + i] = y[i]
  OBVIOUS
<1>2. IsFiniteSet(A) /\ IsFiniteSet(B) /\ B \in SUBSET Nat
  <2>1. A \in SUBSET DOMAIN x /\ B \in SUBSET DOMAIN y
    OBVIOUS
  <2> QED BY <1>1, <2>1, PositionsFinite
<1> HIDE DEF n, h
<1>3. /\ n \in Nat /\ B \in SUBSET Nat /\ IsFiniteSet(B)
      /\ \A i \in B : h[n + i].qty = y[i].qty
  BY <1>1, <1>2
<1>4. Total(h, C) = Total(y, B) /\ IsFiniteSet(C)
  BY ONLY <1>3, TotalShift
<1>5. ids = A \cup C
  <2>1. \A k \in ids : k \in A \/ k \in C
    <3> SUFFICES ASSUME NEW k \in ids, k \notin A PROVE k \in C
      OBVIOUS
    <3>1. k \in 1..(n + Len(y)) /\ k \notin 1..n
      BY <1>1 DEF h
    <3>2. k - n \in 1..Len(y) /\ n + (k - n) = k
      BY <1>1, <3>1
    <3>3. k - n \in B
      BY <1>1, <3>2 DEF n
    <3> QED BY <3>2, <3>3 DEF Shifted
  <2>2. \A k \in C : k \in ids
    BY DEF Shifted, n
  <2> QED BY <2>1, <2>2
<1>6. A \cap C = {}
  BY <1>1 DEF Shifted
<1> HIDE DEF C
<1>7. Total(h, A \cup C) = Total(h, A) + Total(h, C)
  BY <1>2, <1>4, <1>6, TotalUnion
<1>8. Total(h, A) = Total(x, A)
  <2>1. SameQty(h, x, A)
    BY <1>1 DEF SameQty
  <2> QED BY <2>1, TotalSame
<1> QED BY <1>4, <1>5, <1>7, <1>8 DEF h

\* The line items from b of two lists one after the other, and those of s.
LEMMA ItemsConcat ==
  ASSUME NEW x \in Seq(LineItem), NEW y \in Seq(LineItem), NEW k
  PROVE  /\ Total(x \o y, ItemsFrom(x \o y, k)) = Total(x, ItemsFrom(x, k)) + Total(y, ItemsFrom(y, k))
         /\ Total(x \o y, ItemsOf(x \o y, k)) = Total(x, ItemsOf(x, k)) + Total(y, ItemsOf(y, k))
         /\ Total(y, ItemsFrom(y, k)) \in Nat /\ Total(x, ItemsFrom(x, k)) \in Nat
         /\ Total(y, ItemsOf(y, k)) \in Nat /\ Total(x, ItemsOf(x, k)) \in Nat
<1> DEFINE h == x \o y
<1>1. /\ Len(x) \in Nat /\ Len(y) \in Nat /\ DOMAIN x = 1..Len(x) /\ DOMAIN y = 1..Len(y)
      /\ DOMAIN h = 1..(Len(x) + Len(y))
      /\ \A i \in DOMAIN x : i \in DOMAIN h /\ h[i] = x[i]
      /\ \A i \in DOMAIN y : Len(x) + i \in DOMAIN h /\ h[Len(x) + i] = y[i]
  OBVIOUS
<1> HIDE DEF h
<1>2. Total(h, ItemsFrom(h, k)) = Total(x, ItemsFrom(x, k)) + Total(y, ItemsFrom(y, k))
  <2>1. /\ ItemsFrom(x, k) = {i \in DOMAIN x : i \in ItemsFrom(h, k)}
        /\ ItemsFrom(y, k) = {i \in DOMAIN y : Len(x) + i \in ItemsFrom(h, k)}
        /\ ItemsFrom(h, k) \in SUBSET DOMAIN h
    BY <1>1 DEF ItemsFrom
  <2> QED BY <2>1, TotalConcat DEF h
<1>3. Total(h, ItemsOf(h, k)) = Total(x, ItemsOf(x, k)) + Total(y, ItemsOf(y, k))
  <2>1. /\ ItemsOf(x, k) = {i \in DOMAIN x : i \in ItemsOf(h, k)}
        /\ ItemsOf(y, k) = {i \in DOMAIN y : Len(x) + i \in ItemsOf(h, k)}
        /\ ItemsOf(h, k) \in SUBSET DOMAIN h
    BY <1>1 DEF ItemsOf
  <2> QED BY <2>1, TotalConcat DEF h
<1>4. /\ IsFiniteSet(ItemsFrom(x, k)) /\ IsFiniteSet(ItemsFrom(y, k))
      /\ IsFiniteSet(ItemsOf(x, k)) /\ IsFiniteSet(ItemsOf(y, k))
  <2>1. /\ ItemsFrom(x, k) \in SUBSET DOMAIN x /\ ItemsFrom(y, k) \in SUBSET DOMAIN y
        /\ ItemsOf(x, k) \in SUBSET DOMAIN x /\ ItemsOf(y, k) \in SUBSET DOMAIN y
    BY DEF ItemsFrom, ItemsOf
  <2> QED BY <2>1, PositionsFinite
<1> QED BY <1>2, <1>3, <1>4, UnitsFinite DEF h

\* One more line item.
LEMMA ItemsAppend ==
  ASSUME NEW x \in Seq(LineItem), NEW e \in LineItem
  PROVE  /\ \A b : Total(Append(x, e), ItemsFrom(Append(x, e), b)) =
                     Total(x, ItemsFrom(x, b)) + (IF e.b = b THEN e.qty ELSE 0)
         /\ \A s : Total(Append(x, e), ItemsOf(Append(x, e), s)) =
                     Total(x, ItemsOf(x, s)) + (IF e.so = s THEN e.qty ELSE 0)
<1> DEFINE y == <<e>>
<1>1. y \in Seq(LineItem) /\ Append(x, e) = x \o y /\ DOMAIN y = {1} /\ y[1] = e
  OBVIOUS
<1>2. e.qty \in Nat /\ e.qty \in 0..MaxQty
  BY FgAssumption DEF LineItem, Qty
<1> HIDE DEF y
<1>3. ASSUME NEW k
      PROVE  /\ Total(y, ItemsFrom(y, k)) = IF e.b = k THEN e.qty ELSE 0
             /\ Total(y, ItemsOf(y, k)) = IF e.so = k THEN e.qty ELSE 0
  <2>1. Total(y, {1}) = e.qty /\ Total(y, {}) = 0
    BY <1>1, <1>2, TotalOne, TotalNothing
  <2>2. /\ ItemsFrom(y, k) = IF e.b = k THEN {1} ELSE {}
        /\ ItemsOf(y, k) = IF e.so = k THEN {1} ELSE {}
    BY <1>1 DEF ItemsFrom, ItemsOf
  <2> QED BY <2>1, <2>2
<1>4. ASSUME NEW k
      PROVE  /\ Total(x \o y, ItemsFrom(x \o y, k)) =
                  Total(x, ItemsFrom(x, k)) + (IF e.b = k THEN e.qty ELSE 0)
             /\ Total(x \o y, ItemsOf(x \o y, k)) =
                  Total(x, ItemsOf(x, k)) + (IF e.so = k THEN e.qty ELSE 0)
  <2>1. /\ Total(x \o y, ItemsFrom(x \o y, k)) = Total(x, ItemsFrom(x, k)) + Total(y, ItemsFrom(y, k))
        /\ Total(x \o y, ItemsOf(x \o y, k)) = Total(x, ItemsOf(x, k)) + Total(y, ItemsOf(y, k))
    BY <1>1, ItemsConcat
  <2> QED BY <1>3, <2>1
<1> QED BY <1>1, <1>4

-----------------------------------------------------------------------------
(* The ledger and the line items *)

\* What request r is about to ship of b.
ShippedBy(r, b) == Total(r.wItems, ItemsFrom(r.wItems, b))

\* The ledger entries request r holds have the line items it holds on top of
\* the committed ones, and it holds the lock of a batch it logs for.
LogRequest(r) ==
  /\ DOMAIN r.wLog = DOMAIN r.wBatch
  /\ r.op # "dispatch" => r.wItems = << >>
  /\ r.pc \in {"idle", "found", "loaded"} => DOMAIN r.wBatch = {}
  /\ \A b \in Batches : IF b \in DOMAIN r.wLog
       THEN r.wLog[b].dispatched = ledger[b].dispatched + ShippedBy(r, b)
       ELSE ShippedBy(r, b) = 0

LogsAgree ==
  /\ LedgerMatchesLineItems
  /\ \A c \in Clients : LogRequest(req[c])
  /\ \A c, d \in Clients : c # d => DOMAIN req[c].wBatch \cap DOMAIN req[d].wBatch = {}

\* No step but a commit changes what was dispatched.
SameShipped ==
  /\ \A b \in Batches : ledger'[b].dispatched = ledger[b].dispatched
  /\ \A b \in Batches : Total(lineItems', ItemsFrom(lineItems', b)) =
                        Total(lineItems, ItemsFrom(lineItems, b))

LEMMA LogStep ==
  ASSUME LogsAgree, NEW c \in Clients, SameShipped,
         \A d \in Clients \ {c} : req'[d] = req[d],
         LogRequest(req[c])', NEW x, BatchFree(c, x),
         DOMAIN req'[c].wBatch \subseteq DOMAIN req[c].wBatch \cup {x}
  PROVE  LogsAgree'
<1>1. LedgerMatchesLineItems'
  BY DEF LogsAgree, LedgerMatchesLineItems, SameShipped
<1>2. ASSUME NEW d \in Clients \ {c} PROVE LogRequest(req[d])'
  <2>1. req'[d] = req[d] /\ LogRequest(req[d])
    BY DEF LogsAgree
  <2> DEFINE r == req[d]
  <2>2. \A b \in Batches : IF b \in DOMAIN r.wLog
          THEN r.wLog[b].dispatched = ledger'[b].dispatched + ShippedBy(r, b)
          ELSE ShippedBy(r, b) = 0
    BY <2>1 DEF LogRequest, SameShipped
  <2> QED BY <2>1, <2>2 DEF LogRequest, ShippedBy
<1>3. ASSUME NEW d \in Clients, NEW e \in Clients, d # e
      PROVE  DOMAIN req'[d].wBatch \cap DOMAIN req'[e].wBatch = {}
  BY <1>3 DEF LogsAgree, BatchFree
<1> QED BY <1>1, <1>2, <1>3 DEF LogsAgree

LEMMA ShippedNothing ==
  ASSUME NEW b
  PROVE  Total(<< >>, ItemsFrom(<< >>, b)) = 0
<1>1. ItemsFrom(<< >>, b) = {}
  BY DEF ItemsFrom
<1> QED BY <1>1, TotalNothing

\* A request that has written nothing.
LEMMA LogFresh ==
  ASSUME TypeOK, LogsAgree, NEW c \in Clients, SameShipped,
         \A d \in Clients \ {c} : req'[d] = req[d],
         DOMAIN req'[c].wBatch = {}, DOMAIN req'[c].wLog = {}, req'[c].wItems = << >>
  PROVE  LogsAgree'
<1>1. LogRequest(req[c])'
  BY ShippedNothing DEF LogRequest, ShippedBy
<1>3. ASSUME NEW d \in Clients \ {c} PROVE LogRequest(req[d])'
  <2>1. req'[d] = req[d] /\ LogRequest(req[d])
    BY DEF LogsAgree
  <2> DEFINE r == req[d]
  <2>2. \A b \in Batches : IF b \in DOMAIN r.wLog
          THEN r.wLog[b].dispatched = ledger'[b].dispatched + ShippedBy(r, b)
          ELSE ShippedBy(r, b) = 0
    BY <2>1 DEF LogRequest, SameShipped
  <2> QED BY <2>1, <2>2 DEF LogRequest, ShippedBy
<1>4. ASSUME NEW d \in Clients, NEW e \in Clients, d # e
      PROVE  DOMAIN req'[d].wBatch \cap DOMAIN req'[e].wBatch = {}
  BY <1>4 DEF LogsAgree
<1>5. LedgerMatchesLineItems'
  BY DEF LogsAgree, LedgerMatchesLineItems, SameShipped
<1> QED BY <1>1, <1>3, <1>4, <1>5 DEF LogsAgree

\* A request that keeps what it has written.
LEMMA LogKept ==
  ASSUME TypeOK, LogsAgree, NEW c \in Clients, SameShipped,
         \A d \in Clients \ {c} : req'[d] = req[d],
         req'[c].wBatch = req[c].wBatch, req'[c].wLog = req[c].wLog,
         req'[c].wItems = req[c].wItems, req'[c].op = req[c].op,
         req'[c].pc \notin {"idle", "found", "loaded"} \/ req[c].pc \in {"found", "loaded"}
  PROVE  LogsAgree'
<1>1. ASSUME NEW d \in Clients PROVE LogRequest(req[d])'
  <2>1. /\ LogRequest(req[d]) /\ req'[d].wBatch = req[d].wBatch /\ req'[d].wLog = req[d].wLog
        /\ req'[d].wItems = req[d].wItems /\ req'[d].op = req[d].op
        /\ req'[d].pc \in {"idle", "found", "loaded"} => DOMAIN req[d].wBatch = {}
    BY DEF LogsAgree, LogRequest
  <2> DEFINE r == req[d]
  <2>2. \A b \in Batches : IF b \in DOMAIN r.wLog
          THEN r.wLog[b].dispatched = ledger'[b].dispatched + ShippedBy(r, b)
          ELSE ShippedBy(r, b) = 0
    BY <2>1 DEF LogRequest, SameShipped
  <2> QED BY <2>1, <2>2 DEF LogRequest, ShippedBy
<1>2. \A d \in Clients : req'[d].wBatch = req[d].wBatch
  OBVIOUS
<1>3. LedgerMatchesLineItems'
  BY DEF LogsAgree, LedgerMatchesLineItems, SameShipped
<1> QED BY <1>1, <1>2, <1>3 DEF LogsAgree

\* What is logged is kept in the rows of the ledger the transaction sees.
LEMMA LogView ==
  ASSUME TypeOK, LogsAgree, NEW c \in Clients, NEW b \in Batches
  PROVE  /\ LedgerView(c)[b].dispatched = ledger[b].dispatched + ShippedBy(req[c], b)
         /\ LedgerView(c)[b] \in LedgerRow /\ ledger[b].dispatched \in Nat
<1>1. LedgerView(c)[b] = IF b \in DOMAIN req[c].wLog THEN req[c].wLog[b] ELSE ledger[b]
  BY DEF LedgerView, Over, TypeOK
<1>2. LogRequest(req[c])
  BY DEF LogsAgree
<1>3. ledger[b].dispatched \in Nat
  BY DEF TypeOK, LedgerRow
<1>4. LedgerView(c)[b] \in LedgerRow
  BY ViewTypes
<1>5. CASE b \in DOMAIN req[c].wLog
  <2>1. LedgerView(c)[b].dispatched = ledger[b].dispatched + ShippedBy(req[c], b)
    BY <1>1, <1>2, <1>5 DEF LogRequest
  <2> QED BY <1>3, <1>4, <2>1
<1>6. CASE b \notin DOMAIN req[c].wLog
  <2>1. LedgerView(c)[b] = ledger[b] /\ ShippedBy(req[c], b) = 0
    BY <1>1, <1>2, <1>6 DEF LogRequest
  <2>2. ledger[b].dispatched = ledger[b].dispatched + 0
    BY <1>3
  <2> QED BY <1>3, <1>4, <2>1, <2>2
<1> QED BY <1>5, <1>6

LEMMA LogReserved ==
  ASSUME TypeOK, LogsAgree, NEW c \in Clients, reserveFgBatch(c) \/ cancelReservation(c)
  PROVE  LogsAgree'
<1> DEFINE r == req[c]
           b == r.b
<1>0. /\ RequestOK(r) /\ LogRequest(r) /\ b \in Batches /\ DOMAIN req = Clients
      /\ DOMAIN r = DOMAIN Idle /\ r.pc = "loaded" /\ r.op # "dispatch" /\ BatchFree(c, b)
      /\ ledger[b] \in LedgerRow /\ r.qty \in Nat
  <2>1. r.pc = "loaded" /\ r.op # "dispatch" /\ BatchFree(c, b)
    BY DEF reserveFgBatch, cancelReservation, At
  <2>2. RequestOK(r) /\ LogRequest(r) /\ DOMAIN req = Clients
    BY DEF TypeOK, LogsAgree
  <2>3. b \in Batches /\ DOMAIN r = DOMAIN Idle /\ r.qty \in 0..MaxQty
    BY <2>2 DEF RequestOK
  <2>4. ledger[b] \in LedgerRow
    BY <2>3 DEF TypeOK
  <2>5. r.qty \in Nat
    BY <2>3, FgAssumption
  <2> QED BY <2>1, <2>2, <2>3, <2>4, <2>5
<1>1. r.wItems = << >> /\ DOMAIN r.wBatch = {}
  BY <1>0 DEF LogRequest
<1>2. PICK n, e : /\ req'[c].wBatch = WriteReserved(c, b, n) /\ req'[c].wLog = Put(NoWrite, b, e)
                  /\ e.dispatched = ledger[b].dispatched
                  /\ req'[c].wItems = << >> /\ req'[c].op = r.op /\ req'[c].pc = "tx"
                  /\ UNCHANGED <<ledger, lineItems>>
                  /\ \A d \in Clients \ {c} : req'[d] = req[d]
  <2>1. ASSUME NEW q \in Nat
        PROVE  /\ [ledger[b] EXCEPT !.reserved = @ + q].dispatched = ledger[b].dispatched
               /\ [ledger[b] EXCEPT !.unreserved = @ + q].dispatched = ledger[b].dispatched
    BY <1>0 DEF LedgerRow
  <2>2. CASE reserveFgBatch(c)
    <3> HIDE DEF r
    <3>1. /\ req'[c].wBatch = WriteReserved(c, b, r.row.reserved + r.qty)
          /\ req'[c].wLog = Put(NoWrite, b, [ledger[b] EXCEPT !.reserved = @ + r.qty])
          /\ req'[c].wItems = << >> /\ req'[c].op = r.op /\ req'[c].pc = "tx"
      BY <1>0, <1>1, <2>2 DEF reserveFgBatch, Idle, r
    <3> QED BY <1>0, <2>1, <2>2, <3>1 DEF reserveFgBatch
  <2>3. CASE cancelReservation(c)
    <3> HIDE DEF r
    <3>1. /\ req'[c].wBatch = WriteReserved(c, b, MaxOf(0, r.row.reserved - r.qty))
          /\ req'[c].wLog = Put(NoWrite, b, [ledger[b] EXCEPT !.unreserved = @ + r.qty])
          /\ req'[c].wItems = << >> /\ req'[c].op = r.op /\ req'[c].pc = "tx"
      BY <1>0, <1>1, <2>3 DEF cancelReservation, Idle, r
    <3> QED BY <1>0, <2>1, <2>3, <3>1 DEF cancelReservation
  <2> QED BY <2>2, <2>3
<1>3. /\ DOMAIN req'[c].wBatch = {b} /\ DOMAIN req'[c].wLog = {b} /\ req'[c].wLog[b] = e
  BY <1>1, <1>2 DEF WriteReserved, Put, NoWrite
<1>4. LogRequest(req[c])'
  <2>1. \A x : ShippedBy(req'[c], x) = 0
    BY <1>2, ShippedNothing DEF ShippedBy
  <2>2. ledger[b].dispatched \in Nat
    BY <1>0 DEF LedgerRow
  <2>3. ASSUME NEW x \in Batches
        PROVE  IF x \in DOMAIN req'[c].wLog
               THEN req'[c].wLog[x].dispatched = ledger'[x].dispatched + ShippedBy(req'[c], x)
               ELSE ShippedBy(req'[c], x) = 0
    BY <1>2, <1>3, <2>1, <2>2
  <2> QED BY <1>2, <1>3, <2>3 DEF LogRequest, ShippedBy
<1>5. SameShipped
  BY <1>2 DEF SameShipped
<1> QED BY <1>0, <1>1, <1>2, <1>3, <1>4, <1>5, LogStep

LEMMA LogDispatch ==
  ASSUME TypeOK, LogsAgree, NEW c \in Clients, processDispatchLineItem(c)
  PROVE  LogsAgree'
<1> DEFINE r == req[c]
           b == r.b
           q == Head(r.lines).qty
           portion == MinOf(q, Total(r.claims, DOMAIN r.claims))
           item == [so |-> r.so, b |-> b, qty |-> q]
           new == Put(r.wBatch, b, ShippedRow(c, b, portion, q))
           log == Put(r.wLog, b, Logged(c, b, q))
           items == Append(r.wItems, item)
<1>0. /\ RequestOK(r) /\ LogRequest(r) /\ b \in Batches /\ r.so \in SalesOrders \cup {NoSO}
      /\ DOMAIN req = Clients /\ r.op = "dispatch" /\ r.lines # << >> /\ BatchFree(c, b)
  BY DEF TypeOK, LogsAgree, RequestOK, processDispatchLineItem, At
<1>1. q \in Qty /\ q \in Nat
  BY <1>0, HeadLine
<1>2. /\ req'[c].pc = "line" /\ req'[c].op = r.op /\ req'[c].wBatch = new
      /\ req'[c].wLog = log /\ req'[c].wItems = items /\ UNCHANGED <<ledger, lineItems>>
      /\ \A d \in Clients \ {c} : req'[d] = req[d]
  <2> DEFINE wr == Then(r.wResv, Consumed(ResvView(c), r.claims, portion))
  <2>1. /\ req' = [req EXCEPT ![c] = [r EXCEPT !.pc = "line", !.lines = Tail(r.lines),
                     !.wResv = wr, !.wBatch = new, !.wItems = items, !.wLog = log]]
        /\ UNCHANGED <<ledger, lineItems>>
    BY DEF processDispatchLineItem
  <2>2. DOMAIN r = DOMAIN Idle
    BY <1>0 DEF RequestOK
  <2> HIDE DEF r, wr, new, items, log
  <2> QED BY <1>0, <2>1, <2>2 DEF Idle, r
<1>3. item \in LineItem /\ item.b = b /\ item.qty = q /\ r.wItems \in Seq(LineItem)
  BY <1>0, <1>1 DEF LineItem, RequestOK
<1> HIDE DEF item
<1>4. ASSUME NEW x \in Batches
      PROVE  /\ ShippedBy(req'[c], x) = ShippedBy(r, x) + (IF b = x THEN q ELSE 0)
             /\ ShippedBy(r, x) \in Nat
  <2>1. Total(items, ItemsFrom(items, x)) =
          Total(r.wItems, ItemsFrom(r.wItems, x)) + (IF b = x THEN q ELSE 0)
    BY <1>3, ItemsAppend
  <2>2. ItemsFrom(r.wItems, x) \in SUBSET DOMAIN r.wItems
    BY DEF ItemsFrom
  <2>3. ShippedBy(r, x) \in Nat
    BY <1>3, <2>2, PositionsFinite, UnitsFinite DEF ShippedBy
  <2> HIDE DEF items
  <2> QED BY <1>2, <2>1, <2>3 DEF ShippedBy
<1> HIDE DEF q, portion
<1>5. DOMAIN new = DOMAIN r.wBatch \cup {b} /\ DOMAIN log = DOMAIN r.wLog \cup {b}
      /\ log[b] = Logged(c, b, q) /\ \A x \in DOMAIN log \ {b} : log[x] = r.wLog[x]
  BY DEF Put
<1>6. Logged(c, b, q).dispatched = ledger[b].dispatched + ShippedBy(r, b) + q
  <2>1. LedgerView(c)[b].dispatched = ledger[b].dispatched + ShippedBy(r, b)
        /\ LedgerView(c)[b] \in LedgerRow
    BY <1>0, LogView
  <2>2. Logged(c, b, q).dispatched = LedgerView(c)[b].dispatched + q
    BY <2>1 DEF Logged, LedgerRow
  <2> QED BY <2>1, <2>2
<1> HIDE DEF new, log, items
<1>7. LogRequest(req[c])'
  <2>1. ASSUME NEW x \in Batches
        PROVE  IF x \in DOMAIN log
               THEN log[x].dispatched = ledger[x].dispatched + ShippedBy(req'[c], x)
               ELSE ShippedBy(req'[c], x) = 0
    <3> DEFINE m == ShippedBy(req'[c], x)
               k == ShippedBy(r, x)
    <3>1. m = k + (IF b = x THEN q ELSE 0) /\ k \in Nat /\ ledger[x].dispatched \in Nat
      BY <1>4, LogView
    <3>2. IF x \in DOMAIN r.wLog THEN r.wLog[x].dispatched = ledger[x].dispatched + k ELSE k = 0
      BY <1>0 DEF LogRequest
    <3>3. x = b => log[x].dispatched = ledger[x].dispatched + k + q
      BY <1>5, <1>6
    <3> HIDE DEF m, k
    <3>4. CASE x = b
      BY <1>1, <1>5, <3>1, <3>3, <3>4 DEF m
    <3>5. CASE x # b
      BY <1>5, <3>1, <3>2, <3>5 DEF m
    <3> QED BY <3>4, <3>5
  <2> QED BY <1>0, <1>2, <1>5, <2>1 DEF LogRequest, ShippedBy
<1>8. SameShipped
  BY <1>2 DEF SameShipped
<1> QED BY <1>0, <1>2, <1>5, <1>7, <1>8, LogStep

\* A commit adds the line items of a transaction and what it logged for them.
LEMMA LogCommit ==
  ASSUME TypeOK, LogsAgree, NEW c \in Clients, Commit(c)
  PROVE  LogsAgree'
<1> DEFINE r == req[c]
<1>1. /\ ledger' = LedgerView(c) /\ lineItems' = ItemView(c)
      /\ req'[c] = Idle /\ \A d \in Clients \ {c} : req'[d] = req[d]
  BY DEF Commit, Done, TypeOK
<1>2. ASSUME NEW b \in Batches
      PROVE  ledger'[b].dispatched = Total(lineItems', ItemsFrom(lineItems', b))
  <2> DEFINE x == lineItems  y == r.wItems
  <2>1. x \in Seq(LineItem) /\ y \in Seq(LineItem) /\ lineItems' = x \o y
    BY <1>1 DEF TypeOK, RequestOK, ItemView
  <2>2. ledger'[b].dispatched = ledger[b].dispatched + Total(y, ItemsFrom(y, b))
    BY <1>1, LogView DEF ShippedBy
  <2>3. ledger[b].dispatched = Total(x, ItemsFrom(x, b))
    BY DEF LogsAgree, LedgerMatchesLineItems
  <2> HIDE DEF y
  <2>4. Total(x \o y, ItemsFrom(x \o y, b)) = Total(x, ItemsFrom(x, b)) + Total(y, ItemsFrom(y, b))
    BY <2>1, ItemsConcat
  <2> QED BY <2>1, <2>2, <2>3, <2>4
<1>3. LogRequest(req[c])'
  BY <1>1, ShippedNothing DEF LogRequest, ShippedBy, Idle, NoWrite
<1>4. ASSUME NEW d \in Clients \ {c} PROVE LogRequest(req[d])'
  <2>1. /\ req'[d] = req[d] /\ LogRequest(req[d]) /\ LogRequest(r)
        /\ DOMAIN req[d].wBatch \cap DOMAIN r.wBatch = {}
    BY <1>1 DEF LogsAgree
  <2>2. \A b \in Batches : b \in DOMAIN req[d].wLog => ledger'[b] = ledger[b]
    BY <1>1, <2>1 DEF LogRequest, LedgerView, Over, TypeOK
  <2>3. \A b \in Batches : IF b \in DOMAIN req[d].wLog
          THEN req[d].wLog[b].dispatched = ledger'[b].dispatched + ShippedBy(req[d], b)
          ELSE ShippedBy(req[d], b) = 0
    BY <2>1, <2>2 DEF LogRequest
  <2> QED BY <2>1, <2>3 DEF LogRequest, ShippedBy
<1>5. ASSUME NEW d \in Clients, NEW e \in Clients, d # e
      PROVE  DOMAIN req'[d].wBatch \cap DOMAIN req'[e].wBatch = {}
  BY <1>1, <1>5 DEF LogsAgree, Idle, NoWrite
<1> QED BY <1>2, <1>3, <1>4, <1>5 DEF LogsAgree, LedgerMatchesLineItems

LEMMA LogRequestStep ==
  ASSUME TypeOK, LogsAgree, NEW c \in Clients, Request(c)
  PROVE  LogsAgree'
<1>0. DOMAIN req = Clients /\ \A b \in Batches : ledger[b] \in LedgerRow
  BY DEF TypeOK
<1>1. CASE UNCHANGED req
  <2>1. SameShipped
    <3>1. CASE \E s \in SalesOrders : deleteSalesOrder(c, s)
      <4>1. PICK s \in SalesOrders : deleteSalesOrder(c, s)
        BY <3>1
      <4>2. \A i \in DOMAIN lineItems : lineItems[i] \in LineItem
        BY DEF TypeOK
      <4>3. /\ DOMAIN lineItems' = DOMAIN lineItems /\ ledger' = ledger
            /\ \A i \in DOMAIN lineItems : /\ lineItems'[i].b = lineItems[i].b
                                           /\ lineItems'[i].qty = lineItems[i].qty
        BY <4>1, <4>2 DEF deleteSalesOrder, LineItem
      <4>4. \A b : ItemsFrom(lineItems', b) = ItemsFrom(lineItems, b)
                   /\ SameQty(lineItems', lineItems, ItemsFrom(lineItems, b))
        BY <4>3 DEF ItemsFrom, SameQty
      <4>5. ASSUME NEW b
            PROVE  Total(lineItems', ItemsFrom(lineItems', b)) =
                     Total(lineItems, ItemsFrom(lineItems, b))
        BY <4>4, TotalSame
      <4> QED BY <4>3, <4>5 DEF SameShipped
    <3>2. CASE \E b \in Batches, l \in Places : generateFgBatch(c, b, l)
      BY <1>0, <3>2 DEF generateFgBatch, SameShipped, LedgerRow
    <3>3. CASE UNCHANGED <<ledger, lineItems>>
      BY <3>3 DEF SameShipped
    <3> QED BY <3>1, <3>2, <3>3 DEF Request, createSalesOrder, updateSalesOrder, Load,
         transferLoad, holdLoad, releaseLoad, reserveLoad, cancelLoad, createDispatch
  <2>2. LogRequest(req[c])'
    <3> DEFINE r == req[c]
    <3>1. LogRequest(r) /\ req'[c] = r
      BY <1>1 DEF LogsAgree
    <3>2. \A b \in Batches : IF b \in DOMAIN r.wLog
            THEN r.wLog[b].dispatched = ledger'[b].dispatched + ShippedBy(r, b)
            ELSE ShippedBy(r, b) = 0
      BY <2>1, <3>1 DEF LogRequest, SameShipped
    <3> QED BY <3>1, <3>2 DEF LogRequest, ShippedBy
  <2>3. \A d \in Clients : req'[d] = req[d]
    BY <1>1
  <2>4. ASSUME NEW d \in Clients \ {c} PROVE LogRequest(req[d])'
    <3> DEFINE r == req[d]
    <3>1. LogRequest(r) /\ req'[d] = r
      BY <1>1 DEF LogsAgree
    <3>2. \A b \in Batches : IF b \in DOMAIN r.wLog
            THEN r.wLog[b].dispatched = ledger'[b].dispatched + ShippedBy(r, b)
            ELSE ShippedBy(r, b) = 0
      BY <2>1, <3>1 DEF LogRequest, SameShipped
    <3> QED BY <3>1, <3>2 DEF LogRequest, ShippedBy
  <2>5. LedgerMatchesLineItems'
    BY <2>1 DEF LogsAgree, LedgerMatchesLineItems, SameShipped
  <2> QED BY <2>2, <2>3, <2>4, <2>5 DEF LogsAgree
<1>2. CASE \E op, b, so, q, l : Load(c, op, b, so, q, l)
  <2>1. /\ DOMAIN req'[c].wBatch = {} /\ DOMAIN req'[c].wLog = {} /\ req'[c].wItems = << >>
        /\ \A d \in Clients \ {c} : req'[d] = req[d]
    BY <1>0, <1>2 DEF Load, Idle, NoWrite
  <2>2. SameShipped
    BY <1>2 DEF Load, SameShipped
  <2> QED BY <2>1, <2>2, LogFresh
<1>3. CASE \E i \in DOMAIN resv : cancelLoad(c, i)
  <2>1. /\ DOMAIN req'[c].wBatch = {} /\ DOMAIN req'[c].wLog = {} /\ req'[c].wItems = << >>
        /\ \A d \in Clients \ {c} : req'[d] = req[d]
    BY <1>0, <1>3 DEF cancelLoad, Idle, NoWrite
  <2>2. SameShipped
    BY <1>3 DEF cancelLoad, SameShipped
  <2> QED BY <2>1, <2>2, LogFresh
<1>4. CASE \E s \in SalesOrders \cup {NoSO}, lines \in Lines : createDispatch(c, s, lines)
  <2>1. /\ DOMAIN req'[c].wBatch = {} /\ DOMAIN req'[c].wLog = {} /\ req'[c].wItems = << >>
        /\ \A d \in Clients \ {c} : req'[d] = req[d]
    BY <1>0, <1>4 DEF createDispatch, Idle, NoWrite
  <2>2. SameShipped
    BY <1>4 DEF createDispatch, SameShipped
  <2> QED BY <2>1, <2>2, LogFresh
<1> QED
  BY <1>1, <1>2, <1>3, <1>4 DEF Request, deleteSalesOrder, createSalesOrder,
     updateSalesOrder, generateFgBatch, transferLoad, holdLoad, releaseLoad, reserveLoad

LEMMA LogAdvance ==
  ASSUME TypeOK, LogsAgree, NEW c \in Clients, Advance(c)
  PROVE  LogsAgree'
<1>0. /\ DOMAIN req = Clients /\ DOMAIN req[c] = DOMAIN Idle /\ req[c].b \in Batches
      /\ ledger[req[c].b] \in LedgerRow
  BY DEF TypeOK, RequestOK
<1>1. CASE transferFgBatch(c) \/ holdFgBatch(c) \/ releaseHoldFgBatch(c) \/ Rollback(c)
  <2>1. SameShipped
    <3>1. CASE transferFgBatch(c)
      BY <1>0, <3>1 DEF transferFgBatch, SameShipped, LedgerRow, TypeOK
    <3>2. CASE holdFgBatch(c)
      BY <1>0, <3>2 DEF holdFgBatch, SameShipped, LedgerRow, TypeOK
    <3>3. CASE releaseHoldFgBatch(c)
      BY <1>0, <3>3 DEF releaseHoldFgBatch, SameShipped, LedgerRow, TypeOK
    <3>4. CASE Rollback(c)
      BY <3>4 DEF Rollback, SameShipped
    <3> QED BY <1>1, <3>1, <3>2, <3>3, <3>4
  <2>2. /\ DOMAIN req'[c].wBatch = {} /\ DOMAIN req'[c].wLog = {} /\ req'[c].wItems = << >>
        /\ \A d \in Clients \ {c} : req'[d] = req[d]
    BY <1>0, <1>1 DEF transferFgBatch, holdFgBatch, releaseHoldFgBatch, Rollback, Done, Idle, NoWrite
  <2> QED BY <2>1, <2>2, LogFresh
<1>2. CASE reserveFgBatch(c) \/ cancelReservation(c)
  BY <1>2, LogReserved
<1>3. CASE cancelReadBatch(c) \/ lineReadBatch(c) \/ lineReadClaims(c) \/ dispatchRecompute(c)
  <2>1. SameShipped
    BY <1>3 DEF cancelReadBatch, lineReadBatch, lineReadClaims, dispatchRecompute, SameShipped
  <2>2. /\ req'[c].wBatch = req[c].wBatch /\ req'[c].wLog = req[c].wLog
        /\ req'[c].wItems = req[c].wItems /\ req'[c].op = req[c].op
        /\ req'[c].pc \notin {"idle", "found", "loaded"} \/ req[c].pc \in {"found", "loaded"}
        /\ \A d \in Clients \ {c} : req'[d] = req[d]
    <3>1. CASE cancelReadBatch(c)
      BY <1>0, <3>1 DEF cancelReadBatch, At, Idle
    <3>2. CASE lineReadBatch(c)
      BY <1>0, <3>2 DEF lineReadBatch, Idle
    <3>3. CASE lineReadClaims(c)
      BY <1>0, <3>3 DEF lineReadClaims, Idle
    <3>4. CASE dispatchRecompute(c)
      BY <1>0, <3>4 DEF dispatchRecompute, Idle
    <3> QED BY <1>3, <3>1, <3>2, <3>3, <3>4
  <2> QED BY <2>1, <2>2, LogKept
<1>4. CASE processDispatchLineItem(c)
  BY <1>4, LogDispatch
<1>5. CASE Commit(c)
  BY <1>5, LogCommit
<1> QED BY <1>1, <1>2, <1>3, <1>4, <1>5 DEF Advance

\* However many dispatches are in flight, the quantity of the Dispatched
\* movements of a batch is what its line items add up to: a dispatch logs each
\* line in the transaction that writes it, on top of what the row lock shows.
THEOREM LedgerTellsShipments == Spec => []LedgerMatchesLineItems
<1>1. Init => TypeOK /\ LogsAgree
  <2> SUFFICES ASSUME Init PROVE LogsAgree
    BY InitType
  <2>1. LedgerMatchesLineItems
    BY ShippedNothing DEF Init, LedgerMatchesLineItems, NoMoves
  <2>2. LogRequest(Idle)
    BY ShippedNothing DEF LogRequest, ShippedBy, Idle, NoWrite
  <2> QED BY <2>1, <2>2 DEF Init, LogsAgree, Idle, NoWrite
<1>2. TypeOK /\ LogsAgree /\ [Next]_vars => TypeOK' /\ LogsAgree'
  <2> SUFFICES ASSUME TypeOK, LogsAgree, [Next]_vars PROVE LogsAgree'
    BY NextType
  <2>1. CASE UNCHANGED vars
    BY <2>1 DEF vars, LogsAgree, LogRequest, ShippedBy, LedgerMatchesLineItems
  <2>2. CASE Next
    BY <2>2, LogRequestStep, LogAdvance DEF Next
  <2> QED BY <2>1, <2>2
<1>3. LogsAgree => LedgerMatchesLineItems
  BY DEF LogsAgree
<1> QED BY <1>1, <1>2, <1>3, PTL DEF Spec

-----------------------------------------------------------------------------
(* Least and greatest elements *)

\* Every set of natural numbers that has an element has a least one.
LEMMA LeastOf ==
  ASSUME NEW S \in SUBSET Nat, S # {}
  PROVE  \E m \in S : \A k \in S : m <= k
<1> DEFINE R == OpToRel(<, Nat)
<1>1. IsWellFoundedOn(R, Nat)
  BY NatLessThanWellFounded
<1>2. \A x, y \in Nat : x < y => <<x, y>> \in R
  BY DEF OpToRel
<1> HIDE DEF R
<1>3. PICK m \in S : \A k \in S : ~ (<<k, m>> \in R)
  BY <1>1, WFMin
<1>4. ASSUME NEW k \in S PROVE m <= k
  <2>1. ~(k < m)
    BY <1>2, <1>3
  <2>2. k \in Nat /\ m \in Nat
    OBVIOUS
  <2> QED BY <2>1, <2>2
<1> QED BY <1>4

\* And one that is bounded has a greatest one.
LEMMA GreatestOf ==
  ASSUME NEW n \in Nat, NEW S \in SUBSET (1..n), S # {}
  PROVE  \E m \in S : \A k \in S : k <= m
<1> DEFINE T == {n - k : k \in S}
<1>1. T \in SUBSET Nat /\ T # {}
  <2>1. \A k \in S : k \in 1..n /\ n - k \in Nat
    OBVIOUS
  <2>2. \E k \in S : n - k \in T
    OBVIOUS
  <2> QED BY <2>1, <2>2
<1>2. PICK t \in T : \A u \in T : t <= u
  <2> HIDE DEF T
  <2> QED BY <1>1, LeastOf
<1>3. PICK m \in S : t = n - m
  OBVIOUS
<1>4. ASSUME NEW k \in S PROVE k <= m
  <2>1. n - k \in T
    OBVIOUS
  <2>2. n - m <= n - k
    BY <1>2, <1>3, <2>1
  <2>3. k \in Int /\ m \in Int
    OBVIOUS
  <2> QED BY <2>2, <2>3
<1> QED BY <1>4

-----------------------------------------------------------------------------
(* What a line item draws on the claims of its order *)

\* The claims a line item read, and what it takes of them.
Reads(rs, C, portion) ==
  /\ rs \in Seq(ResvRow) /\ C \subseteq DOMAIN rs /\ portion \in Nat
  /\ portion <= Total(rs, C)

ClaimsRead(rs, C) == [i \in C |-> rs[i]]
DrawnOn(rs, C, portion) == {j \in C : LeftFor(ClaimsRead(rs, C), portion, j) > 0}
After(rs, C, portion) == Over(rs, Consumed(rs, ClaimsRead(rs, C), portion))

LEMMA ReadsTypes ==
  ASSUME NEW rs, NEW C, NEW portion, Reads(rs, C, portion)
  PROVE  /\ Len(rs) \in Nat /\ DOMAIN rs = 1..Len(rs) /\ C \in SUBSET (1..Len(rs))
         /\ IsFiniteSet(C) /\ \A i \in DOMAIN rs : rs[i] \in ResvRow /\ rs[i].qty \in 0..MaxQty
         /\ \A i \in DOMAIN rs : rs[i].qty \in Nat
         /\ \A i \in C : LeftFor(ClaimsRead(rs, C), portion, i) =
                           portion - Total(rs, {k \in C : k < i})
         /\ \A i \in C : LeftFor(ClaimsRead(rs, C), portion, i) \in Int
<1> USE DEF Reads
<1>1. Len(rs) \in Nat /\ DOMAIN rs = 1..Len(rs) /\ C \in SUBSET (1..Len(rs))
  OBVIOUS
<1>2. IsFiniteSet(C)
  BY PositionsFinite
<1>3. \A i \in DOMAIN rs : rs[i] \in ResvRow /\ rs[i].qty \in 0..MaxQty /\ rs[i].qty \in Nat
  <2>1. \A i \in DOMAIN rs : rs[i] \in ResvRow
    OBVIOUS
  <2>2. MaxQty \in Nat
    BY FgAssumption
  <2> QED BY <2>1, <2>2 DEF ResvRow
<1>4. ASSUME NEW i \in C
      PROVE  /\ LeftFor(ClaimsRead(rs, C), portion, i) = portion - Total(rs, {k \in C : k < i})
             /\ LeftFor(ClaimsRead(rs, C), portion, i) \in Int
  <2> DEFINE P == {k \in C : k < i}
  <2>1. SameQty(ClaimsRead(rs, C), rs, P)
    BY DEF SameQty, ClaimsRead
  <2>2. LeftFor(ClaimsRead(rs, C), portion, i) = portion - Total(ClaimsRead(rs, C), P)
    BY DEF LeftFor, ClaimsRead
  <2>3. IsFiniteSet(P)
    BY <1>2, FS_Subset
  <2> HIDE DEF P
  <2>4. Total(ClaimsRead(rs, C), P) = Total(rs, P) /\ Total(rs, P) \in Nat
    BY <2>1, <2>3, TotalSame, UnitsFinite
  <2> QED BY <2>2, <2>4 DEF P
<1> QED BY <1>1, <1>2, <1>3, <1>4

\* Row by row: a row that is drawn on has something left and its status, or
\* nothing left and is Fulfilled; the other rows are as they were.
LEMMA AfterRows ==
  ASSUME NEW rs, NEW C, NEW portion, Reads(rs, C, portion)
  PROVE  LET rs2 == After(rs, C, portion)  D == DrawnOn(rs, C, portion) IN
         /\ rs2 \in Seq(ResvRow) /\ Len(rs2) = Len(rs) /\ DOMAIN rs2 = DOMAIN rs
         /\ D \subseteq C
         /\ \A i \in DOMAIN rs \ D : rs2[i] = rs[i]
         /\ \A i \in DOMAIN rs : rs2[i].b = rs[i].b /\ rs2[i].so = rs[i].so
         /\ \A i \in D :
              /\ rs2[i].qty = rs[i].qty - MinOf(LeftFor(ClaimsRead(rs, C), portion, i), rs[i].qty)
              /\ rs2[i].status = IF rs2[i].qty = 0 THEN "Fulfilled" ELSE rs[i].status
<1> DEFINE rs2 == After(rs, C, portion)
           D == DrawnOn(rs, C, portion)
           cl == ClaimsRead(rs, C)
           W == Consumed(rs, cl, portion)
<1>0. /\ Len(rs) \in Nat /\ DOMAIN rs = 1..Len(rs) /\ IsFiniteSet(C) /\ C \subseteq DOMAIN rs
      /\ \A i \in DOMAIN rs : rs[i] \in ResvRow
      /\ portion \in Int /\ DOMAIN cl = C /\ \A i \in C : cl[i] = rs[i]
  BY ReadsTypes DEF Reads, ClaimsRead
<1>1. DOMAIN W = D
  BY <1>0 DEF Consumed, DrawnOn
<1>2. \A i \in DOMAIN W : W[i] \in ResvRow
  BY <1>0, ConsumedType
<1>3. ASSUME NEW i \in D
      PROVE  /\ W[i].qty = rs[i].qty - MinOf(LeftFor(cl, portion, i), rs[i].qty)
             /\ W[i].status = IF W[i].qty = 0 THEN "Fulfilled" ELSE rs[i].status
             /\ W[i].b = rs[i].b /\ W[i].so = rs[i].so
  <2> DEFINE left == cl[i].qty - MinOf(LeftFor(cl, portion, i), cl[i].qty)
  <2>1. i \in C /\ i \in DOMAIN rs /\ cl[i] = rs[i] /\ rs[i] \in ResvRow
    BY <1>0 DEF DrawnOn
  <2>2. W[i] = [rs[i] EXCEPT !.qty = left, !.status = IF left = 0 THEN "Fulfilled" ELSE rs[i].status]
    BY <1>0 DEF Consumed, DrawnOn
  <2>3. left = rs[i].qty - MinOf(LeftFor(cl, portion, i), rs[i].qty)
    BY <2>1
  <2> HIDE DEF left, W, cl
  <2> QED BY <2>1, <2>2, <2>3 DEF ResvRow
<1>4. \A i \in DOMAIN rs : rs2[i] = IF i \in D THEN W[i] ELSE rs[i]
  BY <1>1 DEF After, Over
<1>5. rs2 \in [1..Len(rs) -> ResvRow]
  <2>1. rs2 = [i \in 1..Len(rs) |-> IF i \in D THEN W[i] ELSE rs[i]]
    BY <1>0, <1>1 DEF After, Over
  <2> HIDE DEF rs2, W, D
  <2> QED BY <1>0, <1>1, <1>2, <2>1
<1>6. rs2 \in Seq(ResvRow) /\ Len(rs2) = Len(rs) /\ DOMAIN rs2 = DOMAIN rs
  <2> HIDE DEF rs2
  <2> QED BY <1>0, <1>5, SeqDef, LenProperties
<1>7. D \subseteq C
  BY DEF DrawnOn
<1> HIDE DEF rs2, D, W, cl
<1>8. \A i \in DOMAIN rs : rs2[i].b = rs[i].b /\ rs2[i].so = rs[i].so
  BY <1>3, <1>4
<1>9. \A i \in D : i \in DOMAIN rs
  BY <1>0, <1>7
<1> QED BY <1>3, <1>4, <1>6, <1>7, <1>8, <1>9 DEF rs2, D, cl

\* A portion of what is claimed is taken from the claims, no less and no more.
LEMMA ConsumedSum ==
  ASSUME NEW rs, NEW C, NEW portion, Reads(rs, C, portion)
  PROVE  Total(After(rs, C, portion), C) = Total(rs, C) - portion
<1> DEFINE rs2 == After(rs, C, portion)
           D == DrawnOn(rs, C, portion)
           cl == ClaimsRead(rs, C)
           n == Len(rs)
<1>0. /\ n \in Nat /\ DOMAIN rs = 1..n /\ C \in SUBSET (1..n) /\ IsFiniteSet(C)
      /\ C \in SUBSET Nat /\ portion \in Nat /\ portion <= Total(rs, C)
      /\ \A i \in C : rs[i].qty \in 0..MaxQty /\ rs[i].qty \in Nat
      /\ \A i \in C : LeftFor(cl, portion, i) = portion - Total(rs, {k \in C : k < i})
      /\ \A i \in C : LeftFor(cl, portion, i) \in Int
      /\ DOMAIN cl = C /\ \A i \in C : cl[i] = rs[i]
      /\ \A i \in D : i \in C /\ LeftFor(cl, portion, i) > 0
      /\ \A i \in C \ D : ~(LeftFor(cl, portion, i) > 0)
  BY ReadsTypes DEF Reads, ClaimsRead, DrawnOn
<1>1. /\ \A i \in C \ D : rs2[i] = rs[i]
      /\ \A i \in D : rs2[i].qty = rs[i].qty - MinOf(LeftFor(cl, portion, i), rs[i].qty)
      /\ D \subseteq C
  BY <1>0, AfterRows
<1> HIDE DEF rs2, D, n, cl
<1>2. CASE D = {}
  <2>1. portion = 0
    <3>1. CASE C = {}
      BY <1>0, <3>1, TotalNothing
    <3>2. CASE C # {}
      <4>1. PICK m \in C : \A k \in C : m <= k
        BY <1>0, <3>2, LeastOf
      <4>2. {k \in C : k < m} = {}
        <5>1. \A k \in C : k \in Nat /\ m \in Nat /\ m <= k
          BY <1>0, <4>1
        <5>2. \A k \in C : ~(k < m)
          BY <5>1
        <5> QED BY <5>2
      <4>3. LeftFor(cl, portion, m) = portion - 0
        BY <1>0, <4>2, TotalNothing
      <4> QED BY <1>0, <1>2, <4>3
    <3> QED BY <3>1, <3>2
  <2>2. SameQty(rs2, rs, C)
    BY <1>1, <1>2 DEF SameQty
  <2>3. Total(rs2, C) = Total(rs, C) /\ Total(rs, C) \in Nat
    BY <1>0, <2>2, TotalSame, UnitsFinite
  <2> QED BY <2>1, <2>3 DEF rs2
<1>3. CASE D # {}
  <2>1. PICK m \in D : \A k \in D : k <= m
    <3>1. D \in SUBSET (1..n)
      BY <1>0
    <3> QED BY <1>0, <1>3, <3>1, GreatestOf
  <2> DEFINE P == {k \in C : k < m}
             U == {k \in C : k > m}
             q == rs[m].qty
             left == LeftFor(cl, portion, m)
  <2>2. /\ m \in C /\ m \in Nat /\ q \in Nat /\ q \in 0..MaxQty /\ left \in Int /\ left > 0
        /\ left = portion - Total(rs, P)
    BY <1>0, <2>1
  <2>3. /\ C = (P \cup {m}) \cup U /\ m \notin P /\ (P \cup {m}) \cap U = {}
        /\ P \in SUBSET C /\ U \in SUBSET C
    <3>1. \A k \in C : k \in Nat /\ (k < m \/ k = m \/ k > m)
      BY <1>0, <2>2
    <3>2. m \in C /\ m \in Nat
      BY <2>2
    <3>3. \A k \in P \cup {m} : k \notin U
      BY <3>1, <3>2
    <3> QED BY <3>1, <3>2, <3>3
  <2>4. IsFiniteSet(P) /\ IsFiniteSet(U) /\ IsFiniteSet(P \cup {m})
    <3>1. P \cup {m} \in SUBSET C
      BY <2>2, <2>3
    <3> HIDE DEF P, U
    <3> QED BY <1>0, <2>3, <3>1, FS_Subset
  <2>5. /\ \A j \in P : rs2[j].qty = 0
        /\ \A j \in U : rs2[j].qty = rs[j].qty
    <3>1. ASSUME NEW j \in P PROVE rs2[j].qty = 0
      <4>1. j \in C /\ j < m
        BY <3>1
      <4>2. /\ LeftFor(cl, portion, j) > 0 /\ LeftFor(cl, portion, j) >= cl[j].qty
            /\ LeftFor(cl, portion, j) \in Int
        <5>1. /\ IsFiniteSet(DOMAIN cl) /\ DOMAIN cl \subseteq Nat /\ portion \in Int
              /\ \A i \in DOMAIN cl : cl[i].qty \in 0..MaxQty
              /\ m \in DOMAIN cl /\ j \in DOMAIN cl /\ j < m /\ LeftFor(cl, portion, m) > 0
          <6>1. DOMAIN cl = C /\ portion \in Int /\ \A i \in C : cl[i].qty \in 0..MaxQty
            BY <1>0
          <6>2. m \in C /\ j \in C /\ j < m /\ LeftFor(cl, portion, m) > 0
            BY <2>2, <4>1 DEF left
          <6>3. IsFiniteSet(C) /\ C \subseteq Nat
            BY <1>0
          <6> QED BY <6>1, <6>2, <6>3
        <5> QED BY ONLY <5>1, LeftOlder, FgAssumption
      <4>3. j \in D
        BY <1>0, <4>1, <4>2
      <4>4. rs2[j].qty = rs[j].qty - MinOf(LeftFor(cl, portion, j), rs[j].qty)
            /\ cl[j] = rs[j] /\ rs[j].qty \in Nat
        BY <1>0, <1>1, <4>1, <4>3
      <4> QED BY <4>2, <4>4 DEF MinOf
    <3>2. ASSUME NEW j \in U PROVE rs2[j].qty = rs[j].qty
      <4>1. j \notin D
        BY <1>0, <2>1, <2>2, <3>2
      <4> QED BY <1>1, <3>2, <4>1
    <3> QED BY <3>1, <3>2
  <2>6. rs2[m].qty = q - MinOf(left, q)
    BY <1>1, <2>1
  <2>7. ASSUME left > q, U # {} PROVE FALSE
    <3>1. PICK u \in U : \A k \in U : u <= k
      <4>1. U \in SUBSET Nat
        BY <1>0
      <4> HIDE DEF U
      <4> QED BY <2>7, <4>1, LeastOf
    <3>2. u \in C /\ u > m /\ u \in Nat
      BY <1>0, <3>1
    <3>3. {k \in C : k < u} = P \cup {m}
      <4>1. ASSUME NEW k \in C, k < u PROVE k \in P \cup {m}
        BY <1>0, <2>2, <3>1, <3>2, <4>1
      <4>2. ASSUME NEW k \in P \cup {m} PROVE k \in C /\ k < u
        BY <1>0, <2>2, <3>2, <4>2
      <4> QED BY <4>1, <4>2
    <3> HIDE DEF P, U, q, left
    <3>4. Total(rs, P \cup {m}) = Total(rs, P) + q
      BY <2>2, <2>3, <2>4, TotalAdd DEF q
    <3>5. LeftFor(cl, portion, u) = portion - (Total(rs, P) + q)
      BY <1>0, <3>2, <3>3, <3>4
    <3>6. Total(rs, P) \in Nat
      BY <2>4, UnitsFinite
    <3>7. LeftFor(cl, portion, u) > 0
      BY <1>0, <2>2, <2>7, <3>5, <3>6
    <3>8. u \in D
      BY <1>0, <3>2, <3>7
    <3> QED BY <2>1, <2>2, <3>2, <3>8
  <2> HIDE DEF P, U, q, left
  <2>8. /\ Total(rs2, P) = 0 /\ Total(rs2, U) = Total(rs, U)
        /\ Total(rs, P) \in Nat /\ Total(rs, U) \in Nat
    <3>1. SameQty(rs2, rs, U)
      BY <2>5 DEF SameQty
    <3> QED BY <2>4, <2>5, <3>1, TotalZero, TotalSame, UnitsFinite
  <2>9. rs2[m].qty \in 0..MaxQty /\ rs2[m].qty \in Nat
    <3>1. MaxQty \in Nat
      BY FgAssumption
    <3> QED BY <2>2, <2>6, <3>1 DEF MinOf
  <2>10. Total(rs, C) = Total(rs, P) + q + Total(rs, U)
    <3>1. Total(rs, P \cup {m}) = Total(rs, P) + q
      BY <2>2, <2>3, <2>4, TotalAdd DEF q
    <3>2. Total(rs, (P \cup {m}) \cup U) = Total(rs, P \cup {m}) + Total(rs, U)
      BY <2>3, <2>4, TotalUnion
    <3> QED BY <2>3, <3>1, <3>2
  <2>11. Total(rs2, C) = rs2[m].qty + Total(rs, U)
    <3>1. Total(rs2, P \cup {m}) = Total(rs2, P) + rs2[m].qty
      BY <2>3, <2>4, <2>9, TotalAdd
    <3>2. Total(rs2, (P \cup {m}) \cup U) = Total(rs2, P \cup {m}) + Total(rs2, U)
      BY <2>3, <2>4, TotalUnion
    <3> DEFINE a == rs2[m].qty
    <3>3. a \in Nat
      BY <2>9
    <3> HIDE DEF a
    <3> QED BY <2>3, <2>8, <3>1, <3>2, <3>3 DEF a
  <2>12. left <= q
    <3>1. CASE U = {}
      <4>1. Total(rs, U) = 0
        BY <3>1, TotalNothing
      <4> QED BY <1>0, <2>2, <2>8, <2>10, <4>1
    <3>2. CASE U # {}
      <4>1. left \in Int /\ q \in Nat
        BY <2>2
      <4>2. ~(left > q)
        BY <2>7, <3>2
      <4> QED BY <4>1, <4>2
    <3> QED BY <3>1, <3>2
  <2>13. rs2[m].qty = q - left
    BY <2>2, <2>6, <2>12 DEF MinOf
  <2> DEFINE x == Total(rs, P)
             y == Total(rs, U)
             z == Total(rs, C)
             w == Total(rs2, C)
  <2>14. /\ x \in Nat /\ y \in Nat /\ z = x + q + y /\ w = (q - left) + y /\ left = portion - x
         /\ q \in Nat /\ portion \in Nat /\ left \in Int
    BY <1>0, <2>2, <2>8, <2>10, <2>11, <2>13
  <2> HIDE DEF x, y, z, w
  <2>15. w = z - portion
    BY <2>14
  <2> QED BY <2>15 DEF w, z, rs2
<1> QED BY <1>2, <1>3

-----------------------------------------------------------------------------
(* The sums of the Active reservations when some of them change *)

\* An Active reservation is of something.
ResvOK(rs) == \A i \in DOMAIN rs : rs[i].status = "Active" => rs[i].qty >= 1

ReservedOn(rs, b) == Total(rs, ActiveOn(rs, b))
ClaimOf(rs, b, s) == Total(rs, Claims(rs, b, s))

ActiveOf(rs, C) == {i \in C : rs[i].status = "Active"}

LEMMA SumsTypes ==
  ASSUME NEW rs \in Seq(ResvRow), NEW b, NEW s
  PROVE  /\ IsFiniteSet(ActiveOn(rs, b)) /\ IsFiniteSet(Claims(rs, b, s))
         /\ IsFiniteSet(ActiveFor(rs, s))
         /\ ReservedOn(rs, b) \in Nat /\ ClaimOf(rs, b, s) \in Nat
         /\ Total(rs, ActiveFor(rs, s)) \in Nat
         /\ ClaimOf(rs, b, s) <= ReservedOn(rs, b)
<1>1. /\ ActiveOn(rs, b) \in SUBSET DOMAIN rs /\ Claims(rs, b, s) \in SUBSET DOMAIN rs
      /\ ActiveFor(rs, s) \in SUBSET DOMAIN rs
  BY DEF ActiveOn, Claims, ActiveFor, Active
<1>2. /\ IsFiniteSet(ActiveOn(rs, b)) /\ IsFiniteSet(Claims(rs, b, s))
      /\ IsFiniteSet(ActiveFor(rs, s))
  BY <1>1, PositionsFinite
<1>3. /\ Total(rs, ActiveOn(rs, b)) \in Nat /\ Total(rs, Claims(rs, b, s)) \in Nat
      /\ Total(rs, ActiveFor(rs, s)) \in Nat
  BY <1>2, UnitsFinite
<1> DEFINE S == Claims(rs, b, s)
           T == ActiveOn(rs, b)
<1>4. S \subseteq T
  BY DEF Claims
<1> HIDE DEF S, T
<1>5. Total(rs, T) = Total(rs, S) + Total(rs, T \ S) /\ Total(rs, T \ S) \in Nat
      /\ Total(rs, S) \in Nat /\ Total(rs, T) \in Nat
  BY <1>2, <1>4, TotalPart DEF T
<1>6. Total(rs, S) <= Total(rs, T)
  BY <1>5
<1> QED BY <1>2, <1>3, <1>6 DEF S, T, ReservedOn, ClaimOf

\* The rows C of one order on one batch change, the others do not.
Moves(rs, rs2, C, b, s) ==
  /\ rs \in Seq(ResvRow) /\ rs2 \in Seq(ResvRow) /\ DOMAIN rs2 = DOMAIN rs
  /\ C \subseteq Claims(rs, b, s)
  /\ \A i \in DOMAIN rs \ C : rs2[i] = rs[i]
  /\ \A i \in DOMAIN rs : rs2[i].b = rs[i].b /\ rs2[i].so = rs[i].so

\* A sum over S, of which C changes and the rest stays.
LEMMA SumMoves ==
  ASSUME NEW rs, NEW rs2, NEW C, NEW b, NEW s, Moves(rs, rs2, C, b, s),
         NEW S \in SUBSET DOMAIN rs, C \subseteq S
  PROVE  /\ Total(rs2, (S \ C) \cup ActiveOf(rs2, C)) =
              Total(rs, S) - Total(rs, C) + Total(rs2, ActiveOf(rs2, C))
         /\ Total(rs, C) \in Nat /\ Total(rs2, ActiveOf(rs2, C)) \in Nat
         /\ Total(rs, C) <= Total(rs, S) /\ Total(rs, S) \in Nat
<1> DEFINE D == S \ C
           A == ActiveOf(rs2, C)
<1>1. IsFiniteSet(S) /\ rs \in Seq(ResvRow)
  BY PositionsFinite DEF Moves
<1>2. IsFiniteSet(D) /\ IsFiniteSet(C) /\ IsFiniteSet(A) /\ D \cap A = {}
  <2>1. D \in SUBSET S /\ C \in SUBSET S /\ A \in SUBSET S /\ D \cap A = {}
    BY DEF ActiveOf
  <2> HIDE DEF D, A
  <2> QED BY <1>1, <2>1, FS_Subset
<1>3. SameQty(rs2, rs, D)
  BY DEF Moves, SameQty
<1>4. /\ Total(rs, S) = Total(rs, C) + Total(rs, D)
      /\ Total(rs, C) \in Nat /\ Total(rs, D) \in Nat /\ Total(rs, S) \in Nat
  BY <1>1, TotalPart
<1> HIDE DEF D, A
<1>5. Total(rs2, D \cup A) = Total(rs2, D) + Total(rs2, A)
  BY <1>2, TotalUnion
<1>6. Total(rs2, D) = Total(rs, D) /\ Total(rs2, A) \in Nat
  BY <1>2, <1>3, TotalSame, UnitsFinite
<1> QED BY <1>4, <1>5, <1>6 DEF D, A

LEMMA SumsMove ==
  ASSUME NEW rs, NEW rs2, NEW C, NEW b, NEW s, Moves(rs, rs2, C, b, s)
  PROVE  LET n == Total(rs, C) - Total(rs2, ActiveOf(rs2, C)) IN
         /\ n \in Int /\ Total(rs, C) <= ClaimOf(rs, b, s)
         /\ \A x : ReservedOn(rs2, x) = IF x = b THEN ReservedOn(rs, x) - n ELSE ReservedOn(rs, x)
         /\ \A x, t : ClaimOf(rs2, x, t) =
              IF x = b /\ t = s THEN ClaimOf(rs, x, t) - n ELSE ClaimOf(rs, x, t)
<1> DEFINE A == ActiveOf(rs2, C)
<1>0. /\ \A i \in C : i \in DOMAIN rs /\ rs[i].status = "Active" /\ rs[i].b = b /\ rs[i].so = s
      /\ \A i \in DOMAIN rs \ C : rs2[i] = rs[i]
      /\ \A i \in DOMAIN rs : rs2[i].b = rs[i].b /\ rs2[i].so = rs[i].so
      /\ DOMAIN rs2 = DOMAIN rs
  BY ClaimsOf DEF Moves
<1>1. /\ ActiveOn(rs2, b) = (ActiveOn(rs, b) \ C) \cup A
      /\ Claims(rs2, b, s) = (Claims(rs, b, s) \ C) \cup A
      /\ C \subseteq ActiveOn(rs, b) /\ C \subseteq Claims(rs, b, s)
      /\ ActiveOn(rs, b) \in SUBSET DOMAIN rs /\ Claims(rs, b, s) \in SUBSET DOMAIN rs
  <2>1. ActiveOn(rs2, b) = (ActiveOn(rs, b) \ C) \cup A
    BY <1>0 DEF ActiveOn, Active, ActiveOf
  <2>2. Claims(rs2, b, s) = (Claims(rs, b, s) \ C) \cup A
    <3>1. \A i : i \in Claims(rs2, b, s) <=> i \in (Claims(rs, b, s) \ C) \cup A
      BY <1>0, ClaimsOf DEF ActiveOf
    <3> HIDE DEF A
    <3> QED BY <3>1
  <2>3. /\ C \subseteq ActiveOn(rs, b) /\ C \subseteq Claims(rs, b, s)
        /\ ActiveOn(rs, b) \in SUBSET DOMAIN rs /\ Claims(rs, b, s) \in SUBSET DOMAIN rs
    BY <1>0 DEF Claims, ActiveOn, ActiveFor, Active
  <2> QED BY <2>1, <2>2, <2>3
<1> DEFINE m == Total(rs, C)
           k == Total(rs2, A)
<1>2. /\ ReservedOn(rs2, b) = ReservedOn(rs, b) - m + k /\ m \in Nat /\ k \in Nat
      /\ ReservedOn(rs, b) \in Nat
  <2>1. /\ Total(rs2, (ActiveOn(rs, b) \ C) \cup A) = Total(rs, ActiveOn(rs, b)) - m + k
        /\ m \in Nat /\ k \in Nat /\ Total(rs, ActiveOn(rs, b)) \in Nat
    <3> DEFINE S == ActiveOn(rs, b)
    <3>1. S \in SUBSET DOMAIN rs /\ C \subseteq S /\ Moves(rs, rs2, C, b, s)
      BY <1>1
    <3> HIDE DEF S
    <3>2. /\ Total(rs2, (S \ C) \cup ActiveOf(rs2, C)) =
               Total(rs, S) - Total(rs, C) + Total(rs2, ActiveOf(rs2, C))
          /\ Total(rs, C) \in Nat /\ Total(rs2, ActiveOf(rs2, C)) \in Nat
          /\ Total(rs, C) <= Total(rs, S) /\ Total(rs, S) \in Nat
      BY ONLY <3>1, SumMoves
    <3> QED BY <3>2 DEF S
  <2> HIDE DEF A, m, k
  <2> QED BY <1>1, <2>1 DEF ReservedOn
<1>3. /\ ClaimOf(rs2, b, s) = ClaimOf(rs, b, s) - m + k /\ m <= ClaimOf(rs, b, s)
      /\ ClaimOf(rs, b, s) \in Nat
  <2>1. /\ Total(rs2, (Claims(rs, b, s) \ C) \cup A) = Total(rs, Claims(rs, b, s)) - m + k
        /\ m <= Total(rs, Claims(rs, b, s)) /\ Total(rs, Claims(rs, b, s)) \in Nat
    <3> DEFINE S == Claims(rs, b, s)
    <3>1. S \in SUBSET DOMAIN rs /\ C \subseteq S /\ Moves(rs, rs2, C, b, s)
      BY <1>1
    <3> HIDE DEF S
    <3>2. /\ Total(rs2, (S \ C) \cup ActiveOf(rs2, C)) =
               Total(rs, S) - Total(rs, C) + Total(rs2, ActiveOf(rs2, C))
          /\ Total(rs, C) \in Nat /\ Total(rs2, ActiveOf(rs2, C)) \in Nat
          /\ Total(rs, C) <= Total(rs, S) /\ Total(rs, S) \in Nat
      BY ONLY <3>1, SumMoves
    <3> QED BY <3>2 DEF S
  <2> HIDE DEF A, m, k
  <2> QED BY <1>1, <2>1 DEF ClaimOf
<1>4. ASSUME NEW x, x # b PROVE ReservedOn(rs2, x) = ReservedOn(rs, x)
  <2>1. ActiveOn(rs2, x) = ActiveOn(rs, x) /\ SameQty(rs2, rs, ActiveOn(rs, x))
    BY <1>0, <1>4 DEF ActiveOn, Active, SameQty
  <2> QED BY <2>1, TotalSame DEF ReservedOn
<1>5. ASSUME NEW x, NEW t, x # b \/ t # s PROVE ClaimOf(rs2, x, t) = ClaimOf(rs, x, t)
  <2>1. Claims(rs2, x, t) = Claims(rs, x, t) /\ SameQty(rs2, rs, Claims(rs, x, t))
    BY <1>0, <1>5 DEF Claims, ActiveOn, ActiveFor, Active, SameQty
  <2> QED BY <2>1, TotalSame DEF ClaimOf
<1> HIDE DEF A, m, k
<1> DEFINE n == m - k
<1>6. /\ n \in Int
      /\ ReservedOn(rs2, b) = ReservedOn(rs, b) - n
      /\ ClaimOf(rs2, b, s) = ClaimOf(rs, b, s) - n
  BY <1>2, <1>3
<1>7. n = Total(rs, C) - Total(rs2, ActiveOf(rs2, C)) /\ m = Total(rs, C)
  BY DEF m, k, A
<1> HIDE DEF n
<1> QED BY <1>3, <1>4, <1>5, <1>6, <1>7

\* A reservation more.
LEMMA SumsAdd ==
  ASSUME NEW rs \in Seq(ResvRow), NEW e \in ResvRow, e.status = "Active"
  PROVE  LET rs2 == rs \o <<e>> IN
         /\ \A x : ReservedOn(rs2, x) = IF x = e.b THEN ReservedOn(rs, x) + e.qty ELSE ReservedOn(rs, x)
         /\ \A x, t : ClaimOf(rs2, x, t) =
              IF x = e.b /\ t = e.so THEN ClaimOf(rs, x, t) + e.qty ELSE ClaimOf(rs, x, t)
         /\ \A t : ActiveFor(rs2, t) # {} <=> (t = e.so \/ ActiveFor(rs, t) # {})
         /\ \A i \in DOMAIN rs : i \in DOMAIN rs2 /\ rs2[i] = rs[i]
         /\ \A i \in DOMAIN rs2 : i \in DOMAIN rs \/ rs2[i] = e
         /\ rs2 \in Seq(ResvRow)
<1> DEFINE y == <<e>>
           rs2 == rs \o y
<1>1. /\ y \in Seq(ResvRow) /\ DOMAIN y = {1} /\ y[1] = e /\ Len(rs) \in Nat
      /\ DOMAIN rs = 1..Len(rs) /\ DOMAIN rs2 = 1..(Len(rs) + 1) /\ rs2 \in Seq(ResvRow)
      /\ \A i \in DOMAIN rs : i \in DOMAIN rs2 /\ rs2[i] = rs[i]
      /\ rs2[Len(rs) + 1] = e
  OBVIOUS
<1>2. e.qty \in 0..MaxQty
  BY DEF ResvRow
<1> HIDE DEF y
<1>3. Total(y, {1}) = e.qty /\ Total(y, {}) = 0
  BY <1>1, <1>2, TotalOne, TotalNothing
<1> HIDE DEF rs2
<1>4. ASSUME NEW x
      PROVE  ReservedOn(rs2, x) = IF x = e.b THEN ReservedOn(rs, x) + e.qty ELSE ReservedOn(rs, x)
  <2> DEFINE B == IF x = e.b THEN {1} ELSE {}
  <2>1. /\ ActiveOn(rs, x) = {i \in DOMAIN rs : i \in ActiveOn(rs2, x)}
        /\ B = {i \in DOMAIN y : Len(rs) + i \in ActiveOn(rs2, x)}
        /\ ActiveOn(rs2, x) \in SUBSET DOMAIN rs2
    BY <1>1 DEF ActiveOn, Active
  <2>2. Total(rs2, ActiveOn(rs2, x)) = Total(rs, ActiveOn(rs, x)) + Total(y, B)
    <3> HIDE DEF B
    <3> QED BY <1>1, <2>1, TotalConcat DEF rs2
  <2>3. Total(rs, ActiveOn(rs, x)) \in Nat
    BY SumsTypes DEF ReservedOn
  <2> QED BY <1>3, <2>2, <2>3 DEF ReservedOn
<1>5. ASSUME NEW x, NEW t
      PROVE  ClaimOf(rs2, x, t) =
               IF x = e.b /\ t = e.so THEN ClaimOf(rs, x, t) + e.qty ELSE ClaimOf(rs, x, t)
  <2> DEFINE B == IF x = e.b /\ t = e.so THEN {1} ELSE {}
  <2>1. /\ Claims(rs, x, t) = {i \in DOMAIN rs : i \in Claims(rs2, x, t)}
        /\ B = {i \in DOMAIN y : Len(rs) + i \in Claims(rs2, x, t)}
        /\ Claims(rs2, x, t) \in SUBSET DOMAIN rs2
    BY <1>1 DEF Claims, ActiveOn, ActiveFor, Active
  <2>2. Total(rs2, Claims(rs2, x, t)) = Total(rs, Claims(rs, x, t)) + Total(y, B)
    <3> HIDE DEF B
    <3> QED BY <1>1, <2>1, TotalConcat DEF rs2
  <2>3. Total(rs, Claims(rs, x, t)) \in Nat
    BY SumsTypes DEF ClaimOf
  <2> QED BY <1>3, <2>2, <2>3 DEF ClaimOf
<1>6. \A i \in DOMAIN rs2 : i \in DOMAIN rs \/ (i = Len(rs) + 1 /\ rs2[i] = e)
  BY <1>1
<1>7. \A t : ActiveFor(rs2, t) # {} <=> (t = e.so \/ ActiveFor(rs, t) # {})
  BY <1>1, <1>6 DEF ActiveFor, Active
<1> QED BY <1>1, <1>4, <1>5, <1>6, <1>7 DEF rs2, y

\* What a line item draws leaves the claims of its order that much smaller.
LEMMA SumsDrawn ==
  ASSUME NEW rs, NEW b, NEW s, NEW portion, Reads(rs, Claims(rs, b, s), portion)
  PROVE  LET C == Claims(rs, b, s)  rs2 == After(rs, C, portion) IN
         /\ Moves(rs, rs2, C, b, s)
         /\ \A x : ReservedOn(rs2, x) =
              IF x = b THEN ReservedOn(rs, x) - portion ELSE ReservedOn(rs, x)
         /\ \A x, t : ClaimOf(rs2, x, t) =
              IF x = b /\ t = s THEN ClaimOf(rs, x, t) - portion ELSE ClaimOf(rs, x, t)
         /\ ResvOK(rs) => ResvOK(rs2)
<1> DEFINE C == Claims(rs, b, s)
           rs2 == After(rs, C, portion)
           D == DrawnOn(rs, C, portion)
<1>0. /\ Reads(rs, C, portion) /\ rs \in Seq(ResvRow) /\ portion \in Nat
      /\ \A i \in C : i \in DOMAIN rs /\ rs[i].status = "Active"
  BY ClaimsOf DEF Reads
<1>1. /\ IsFiniteSet(C) /\ \A i \in DOMAIN rs : rs[i].qty \in Nat
      /\ \A i \in C : LeftFor(ClaimsRead(rs, C), portion, i) \in Int
  BY <1>0, ReadsTypes
<1>2. /\ rs2 \in Seq(ResvRow) /\ DOMAIN rs2 = DOMAIN rs /\ D \subseteq C
      /\ \A i \in DOMAIN rs \ D : rs2[i] = rs[i]
      /\ \A i \in DOMAIN rs : rs2[i].b = rs[i].b /\ rs2[i].so = rs[i].so
      /\ \A i \in D : rs2[i].qty = rs[i].qty - MinOf(LeftFor(ClaimsRead(rs, C), portion, i), rs[i].qty)
      /\ \A i \in D : rs2[i].status = IF rs2[i].qty = 0 THEN "Fulfilled" ELSE rs[i].status
  BY <1>0, AfterRows
<1>3. Total(rs2, C) = Total(rs, C) - portion
  BY <1>0, ConsumedSum
<1>4. \A i \in D : rs2[i].qty \in Nat
  <2>1. \A i \in D : i \in C /\ i \in DOMAIN rs
    BY <1>0, <1>2
  <2>2. ASSUME NEW i \in D PROVE rs2[i].qty \in Nat
    <3> DEFINE l == LeftFor(ClaimsRead(rs, C), portion, i)
    <3>1. l \in Int /\ l > 0 /\ rs[i].qty \in Nat
      BY <1>1, <2>1 DEF DrawnOn
    <3>2. rs2[i].qty = rs[i].qty - MinOf(l, rs[i].qty)
      BY <1>2
    <3> HIDE DEF l, rs2
    <3> QED BY <3>1, <3>2 DEF MinOf
  <2> QED BY <2>2
<1> HIDE DEF rs2, C, D
<1>5. Moves(rs, rs2, C, b, s)
  BY <1>0, <1>2 DEF Moves, C
<1>6. Total(rs2, ActiveOf(rs2, C)) = Total(rs, C) - portion
  <2> DEFINE A == ActiveOf(rs2, C)
  <2>1. A \subseteq C
    BY DEF ActiveOf
  <2>2. \A i \in C \ A : rs2[i].qty = 0
    BY <1>0, <1>2 DEF ActiveOf
  <2> HIDE DEF A
  <2>3. /\ Total(rs2, C) = Total(rs2, A) + Total(rs2, C \ A) /\ IsFiniteSet(C \ A)
        /\ Total(rs2, A) \in Nat
    BY <1>1, <2>1, TotalPart
  <2>4. Total(rs2, C \ A) = 0
    BY <2>2, <2>3, TotalZero
  <2> QED BY <1>3, <2>3, <2>4 DEF A
<1>7. Total(rs, C) \in Nat
  BY <1>1, UnitsFinite
<1> DEFINE n == Total(rs, C) - Total(rs2, ActiveOf(rs2, C))
<1>8. n = portion
  BY <1>0, <1>6, <1>7
<1>9. /\ \A x : ReservedOn(rs2, x) = IF x = b THEN ReservedOn(rs, x) - n ELSE ReservedOn(rs, x)
      /\ \A x, t : ClaimOf(rs2, x, t) =
           IF x = b /\ t = s THEN ClaimOf(rs, x, t) - n ELSE ClaimOf(rs, x, t)
  BY <1>5, SumsMove
<1> HIDE DEF n
<1>10. ResvOK(rs) => ResvOK(rs2)
  <2> SUFFICES ASSUME ResvOK(rs), NEW i \in DOMAIN rs2, rs2[i].status = "Active"
               PROVE  rs2[i].qty >= 1
    BY DEF ResvOK
  <2>1. CASE i \in D
    BY <1>2, <1>4, <2>1
  <2>2. CASE i \notin D
    BY <1>2, <2>2 DEF ResvOK
  <2> QED BY <2>1, <2>2
<1> QED BY <1>5, <1>8, <1>9, <1>10 DEF rs2, C

-----------------------------------------------------------------------------
(* One request at a time *)

OneAtATime == \A c, d \in Clients : c = d

\* The row of batch b, its ledger and the reservations on it agree, and no more
\* is reserved and dispatched than passed.
BookOK(b, row, rs, log) ==
  /\ row.reserved = ReservedOn(rs, b) /\ row.dispatched \in Nat
  /\ row.stock = "Absent" => row.reserved = 0 /\ row.dispatched = 0
  /\ row.stock # "Absent" => row.reserved + row.dispatched <= PassedQty[b]
  /\ row.loc = log.at /\ row.dispatched = log.dispatched
  /\ log.held - log.released = IF row.stock = "Hold" THEN 1 ELSE 0
  /\ row.reserved <= log.reserved - log.unreserved
  /\ row.reserved >= log.reserved - log.unreserved - log.dispatched

BooksOK(rows, rs, logs) == \A b \in Batches : BookOK(b, rows[b], rs, logs[b])

\* How far order s has come, by the reservations rs and the line items ls.
StageOf(rs, ls, s) ==
  IF Total(ls, ItemsOf(ls, s)) > 0 THEN {"PartiallyDispatched", "Dispatched"}
  ELSE IF ActiveFor(rs, s) # {} THEN {"PartiallyReserved", "FullyReserved"}
  ELSE {"Open"}

\* An order that is not there has no rows; the status of another is of its stage.
OrdersOK == \A s \in SalesOrders :
  IF order[s].status = "Absent"
  THEN (\A i \in DOMAIN resv : resv[i].so # s) /\ ItemsOf(lineItems, s) = {}
  ELSE order[s].status \in StageOf(resv, lineItems, s)

Unwritten(r) ==
  /\ r.wBatch = NoWrite /\ r.wLog = NoWrite /\ r.wResv = NoWrite
  /\ r.wNew = << >> /\ r.wItems = << >>

\* The row of b with n reserved, and the stock status that goes with it.
WithReserved(b, n) ==
  [batch[b] EXCEPT !.reserved = n,
     !.stock = computeStockStatus(b, batch[b].stock, n, batch[b].dispatched)]

Reserving(r) ==
  /\ batch[r.b].stock \notin {"Absent", "Hold"} /\ order[r.so].status # "Absent"
  /\ r.qty <= computeAvailableQty(r.b, batch[r.b])
  /\ r.pc = "tx" =>
       /\ r.wBatch = Put(NoWrite, r.b, WithReserved(r.b, batch[r.b].reserved + r.qty))
       /\ r.wLog = Put(NoWrite, r.b, [ledger[r.b] EXCEPT !.reserved = @ + r.qty])
       /\ r.wNew = <<[b |-> r.b, so |-> r.so, qty |-> r.qty, status |-> "Active"]>>
       /\ r.wResv = NoWrite /\ r.wItems = << >>

Cancelling(r) ==
  /\ resv[r.res].status = "Active" /\ resv[r.res].b = r.b
  /\ resv[r.res].so = r.so /\ resv[r.res].qty = r.qty
  /\ r.pc = "tx" =>
       /\ r.wBatch = Put(NoWrite, r.b, WithReserved(r.b, batch[r.b].reserved - r.qty))
       /\ r.wLog = Put(NoWrite, r.b, [ledger[r.b] EXCEPT !.unreserved = @ + r.qty])
       /\ r.wResv = Put(NoWrite, r.res, [resv[r.res] EXCEPT !.status = "Cancelled"])
       /\ r.wNew = << >> /\ r.wItems = << >>

\* What dispatch r has done to batch b: what it ships comes out of the claim its
\* order had, as far as that goes.
Draws(r, b, row, rs) ==
  LET n == ShippedBy(r, b)
      had == ClaimOf(resv, b, r.so)
      drawn == MinOf(n, had)
  IN  /\ row.dispatched = batch[b].dispatched + n
      /\ row.reserved = batch[b].reserved - drawn
      /\ ClaimOf(rs, b, r.so) = had - drawn
      /\ n > 0 => batch[b].stock \notin {"Absent", "Hold"}
      /\ row.stock = "Absent" <=> batch[b].stock = "Absent"
      /\ row.stock = "Hold" <=> batch[b].stock = "Hold"

\* A dispatch, whose transaction sees rows, rs and logs.
Dispatching(r, rows, rs, logs) ==
  /\ r.so # NoSO => order[r.so].status # "Absent"
  /\ Len(r.wItems) + Len(r.lines) <= MaxLines
  /\ \A j \in DOMAIN r.wItems : r.wItems[j].so = r.so
  /\ \A i \in DOMAIN r.wResv : resv[i].status = "Active" /\ resv[i].so = r.so
  /\ BooksOK(rows, rs, logs) /\ ResvOK(rs)
  /\ \A b \in Batches : Draws(r, b, rows[b], rs)

\* The line a dispatch is at.
AtLine(r, rows, rs) ==
  /\ r.pc \in {"row", "claims"} =>
       /\ r.b = Head(r.lines).b /\ r.row = rows[r.b] /\ r.row.stock \notin {"Absent", "Hold"}
  /\ r.pc = "claims" =>
       /\ r.claims = ClaimsRead(rs, Claims(rs, r.b, r.so))
       /\ Head(r.lines).qty <= computeAvailableQty(r.b, r.row) + ClaimOf(rs, r.b, r.so)

\* The status r will write for its order, or the one it leaves.
StatusKnown(r, rs, ls) ==
  IF r.status # "Absent" THEN r.status \in StageOf(rs, ls, r.so)
  ELSE r.so = NoSO \/ order[r.so].status \in StageOf(rs, ls, r.so)

RequestSees(c) == LET r == req[c] IN
  /\ r.pc = "idle" => r = Idle
  /\ r.pc \in {"found", "loaded"} => Unwritten(r) /\ r.op # "dispatch"
  /\ r.pc = "found" => r.op = "cancel"
  /\ r.pc = "loaded" => r.row = batch[r.b] /\ Exists(r.b)
  /\ r.op = "hold" => batch[r.b].stock # "Hold"
  /\ r.op = "release" => batch[r.b].stock = "Hold"
  /\ r.op = "reserve" => Reserving(r)
  /\ r.op = "cancel" => Cancelling(r)
  /\ r.pc \in {"line", "row", "claims"} => r.op = "dispatch"
  /\ r.op = "dispatch" => /\ Dispatching(r, BatchView(c), ResvView(c), LedgerView(c))
                          /\ AtLine(r, BatchView(c), ResvView(c))
  /\ r.pc = "tx" => /\ r.op \in {"reserve", "cancel", "dispatch"}
                    /\ StatusKnown(r, ResvView(c), ItemView(c))

\* What holds of the tables between two requests, and of the request in flight.
InStep ==
  /\ BooksOK(batch, resv, ledger) /\ ResvOK(resv) /\ OrdersOK
  /\ \A c \in Clients : RequestSees(c)

Alone == OneAtATime /\ TypeOK /\ OwnDraws /\ LogsAgree /\ InStep

-----------------------------------------------------------------------------
LEMMA OverNothing ==
  ASSUME NEW S, NEW T, NEW f \in [S -> T]
  PROVE  Over(f, NoWrite) = f
BY DEF Over, NoWrite

LEMMA ConcatNothing ==
  ASSUME NEW R, NEW s \in Seq(R)
  PROVE  s \o << >> = s
BY ConcatEmptySeq

LEMMA IdleSees ==
  ASSUME NEW c, req[c] = Idle
  PROVE  RequestSees(c)
BY DEF RequestSees, Idle

\* What holds of the tables is left to be shown when the request has ended.
LEMMA AloneEnds ==
  ASSUME Alone, NEW c \in Clients, req'[c] = Idle,
         BooksOK(batch', resv', ledger'), ResvOK(resv'), OrdersOK'
  PROVE  InStep'
<1>1. \A d \in Clients : d = c
  BY DEF Alone, OneAtATime
<1>2. RequestSees(c)'
  BY DEF RequestSees, Idle
<1> QED BY <1>1, <1>2 DEF InStep, BooksOK, BookOK, ResvOK, ReservedOn

\* And of the request when the tables have not changed.
LEMMA AloneMoves ==
  ASSUME Alone, NEW c \in Clients, UNCHANGED <<batch, resv, lineItems, order, ledger>>,
         RequestSees(c)'
  PROVE  InStep'
<1>1. \A d \in Clients : d = c
  BY DEF Alone, OneAtATime
<1>2. /\ BooksOK(batch', resv', ledger') /\ ResvOK(resv') /\ OrdersOK'
  <2>1. BooksOK(batch, resv, ledger) /\ ResvOK(resv) /\ OrdersOK
    BY DEF Alone, InStep
  <2> QED BY <2>1 DEF OrdersOK, StageOf
<1> QED BY <1>1, <1>2 DEF InStep, BooksOK, BookOK, ResvOK, ReservedOn

\* The status recomputeSalesOrderStatus finds is of the stage of the rows it sums up.
LEMMA StatusOfStage ==
  ASSUME TypeOK, NEW rs \in Seq(ResvRow), ResvOK(rs), NEW ls \in Seq(LineItem),
         NEW s \in SalesOrders
  PROVE  LET st == recomputeSalesOrderStatus(s, rs, ls) IN
         IF st # "Absent" THEN st \in StageOf(rs, ls, s)
         ELSE order[s].status \in StageOf(rs, ls, s)
<1> DEFINE A == Total(rs, ActiveFor(rs, s))
           D == Total(ls, ItemsOf(ls, s))
           n == order[s].ordered
           next == StatusFor(n, A, D)
<1>1. A \in Nat /\ D \in Nat /\ n \in Nat
  <2>1. D \in Nat
    <3>1. ItemsOf(ls, s) \in SUBSET DOMAIN ls
      BY DEF ItemsOf
    <3> QED BY <3>1, PositionsFinite, UnitsFinite
  <2> QED BY <2>1, SumsTypes DEF TypeOK, OrderRow
<1>2. A = 0 <=> ActiveFor(rs, s) = {}
  <2>1. ActiveFor(rs, s) = {} => A = 0
    BY TotalNothing
  <2>2. ASSUME NEW i \in ActiveFor(rs, s) PROVE A # 0
    <3>1. i \in DOMAIN rs /\ rs[i] \in ResvRow /\ rs[i].status = "Active"
      BY DEF ActiveFor, Active
    <3>2. rs[i].qty \in 0..MaxQty /\ rs[i].qty >= 1 /\ rs[i].qty \in Nat
      <4>1. rs[i].qty \in 0..MaxQty
        BY <3>1 DEF ResvRow
      <4>2. rs[i].qty >= 1
        BY <3>1 DEF ResvOK
      <4> QED BY <4>1, <4>2, FgAssumption
    <3>3. rs[i].qty <= A
      <4> DEFINE T == ActiveFor(rs, s)
      <4>1. IsFiniteSet(T) /\ i \in T /\ rs[i].qty \in 0..MaxQty
        BY <3>2, SumsTypes
      <4> HIDE DEF T
      <4>2. rs[i].qty <= Total(rs, T)
        BY ONLY <4>1, TotalMember
      <4> QED BY <4>2 DEF T
    <3> QED BY <1>1, <3>2, <3>3
  <2> QED BY <2>1, <2>2
<1>3. recomputeSalesOrderStatus(s, rs, ls) = IF next = order[s].status THEN "Absent" ELSE next
  BY DEF recomputeSalesOrderStatus
<1>4. next \in StageOf(rs, ls, s) /\ next # "Absent"
  <2>1. StageOf(rs, ls, s) = IF D > 0 THEN {"PartiallyDispatched", "Dispatched"}
          ELSE IF ActiveFor(rs, s) # {} THEN {"PartiallyReserved", "FullyReserved"} ELSE {"Open"}
    BY DEF StageOf
  <2> HIDE DEF A, D, n
  <2> QED BY <1>1, <1>2, <2>1 DEF StatusFor
<1> HIDE DEF next
<1> QED BY <1>3, <1>4

-----------------------------------------------------------------------------
(* What a transaction is about to commit *)

TxOK(c) == LET r == req[c]  rs == ResvView(c) IN
  /\ BooksOK(BatchView(c), rs, LedgerView(c)) /\ ResvOK(rs)
  /\ DOMAIN resv \subseteq DOMAIN rs
  /\ \A i \in DOMAIN resv : \/ rs[i] = resv[i]
                            \/ resv[i].so = r.so /\ rs[i].so = r.so /\ resv[i].status = "Active"
  /\ \A i \in DOMAIN rs \ DOMAIN resv : rs[i].so = r.so
  /\ \A j \in DOMAIN r.wItems : r.wItems[j].so = r.so
  /\ r.so # NoSO => order[r.so].status # "Absent"

LEMMA CommitEnds ==
  ASSUME Alone, NEW c \in Clients, Commit(c), TxOK(c)
  PROVE  /\ InStep'
         /\ \A i \in DOMAIN resv : resv[i].status # "Active" => resv'[i] = resv[i]
<1> DEFINE r == req[c]
<1>0. /\ TypeOK /\ RequestOK(r) /\ OrdersOK /\ StatusKnown(r, ResvView(c), ItemView(c))
  BY DEF Alone, InStep, TypeOK, RequestSees, Commit
<1>1. /\ batch' = BatchView(c) /\ resv' = ResvView(c) /\ lineItems' = ItemView(c)
      /\ ledger' = LedgerView(c) /\ req'[c] = Idle
      /\ order' = IF r.status = "Absent" THEN order ELSE [order EXCEPT ![r.so].status = r.status]
  BY <1>0 DEF Commit, Done, TypeOK
<1>2. \A i \in DOMAIN resv : resv[i].status # "Active" => resv'[i] = resv[i]
  BY <1>1 DEF TxOK
<1>3. BooksOK(batch', resv', ledger') /\ ResvOK(resv')
  BY <1>1 DEF TxOK
<1>4. \A s \in SalesOrders : Total(lineItems', ItemsOf(lineItems', s)) =
        Total(lineItems, ItemsOf(lineItems, s)) + Total(r.wItems, ItemsOf(r.wItems, s))
  <2> DEFINE x == lineItems  y == r.wItems
  <2>1. x \in Seq(LineItem) /\ y \in Seq(LineItem) /\ lineItems' = x \o y
    BY <1>0, <1>1 DEF TypeOK, RequestOK, ItemView
  <2> HIDE DEF x, y
  <2>2. \A k : Total(x \o y, ItemsOf(x \o y, k)) = Total(x, ItemsOf(x, k)) + Total(y, ItemsOf(y, k))
    BY <2>1, ItemsConcat
  <2> QED BY <2>1, <2>2 DEF x, y
<1>5. ASSUME NEW s \in SalesOrders, s # r.so
      PROVE  /\ Total(lineItems', ItemsOf(lineItems', s)) = Total(lineItems, ItemsOf(lineItems, s))
             /\ ActiveFor(resv', s) # {} <=> ActiveFor(resv, s) # {}
             /\ order'[s] = order[s]
             /\ \A i \in DOMAIN resv' : resv'[i].so = s => i \in DOMAIN resv /\ resv[i].so = s
             /\ ItemsOf(lineItems, s) = {} => ItemsOf(lineItems', s) = {}
  <2>1. ItemsOf(r.wItems, s) = {}
    BY <1>5 DEF TxOK, ItemsOf
  <2>2. Total(lineItems, ItemsOf(lineItems, s)) \in Nat
    <3>1. ItemsOf(lineItems, s) \in SUBSET DOMAIN lineItems
      BY DEF ItemsOf
    <3> QED BY <1>0, <3>1, PositionsFinite, UnitsFinite DEF TypeOK
  <2>3. Total(lineItems', ItemsOf(lineItems', s)) = Total(lineItems, ItemsOf(lineItems, s))
    BY <1>4, <2>1, <2>2, TotalNothing
  <2>4. \A i \in DOMAIN resv' : resv'[i].so = s => i \in DOMAIN resv /\ resv'[i] = resv[i]
    BY <1>1, <1>5 DEF TxOK
  <2>5. \A i \in DOMAIN resv : resv[i].so = s => i \in DOMAIN resv' /\ resv'[i] = resv[i]
    BY <1>1, <1>5 DEF TxOK
  <2>6. ActiveFor(resv', s) # {} <=> ActiveFor(resv, s) # {}
    BY <2>4, <2>5 DEF ActiveFor, Active
  <2>7. order'[s] = order[s]
    BY <1>0, <1>1, <1>5 DEF TypeOK
  <2>8. ItemsOf(lineItems, s) = {} => ItemsOf(lineItems', s) = {}
    <3> DEFINE x == lineItems  y == r.wItems
    <3>1. x \in Seq(LineItem) /\ y \in Seq(LineItem) /\ lineItems' = x \o y
      BY <1>0, <1>1 DEF TypeOK, RequestOK, ItemView
    <3>2. \A j \in DOMAIN y : y[j].so # s
      BY <1>5 DEF TxOK
    <3> HIDE DEF x, y
    <3>3. \A k \in DOMAIN (x \o y) : \/ k \in DOMAIN x /\ (x \o y)[k] = x[k]
                                     \/ \E j \in DOMAIN y : (x \o y)[k] = y[j]
      <4> SUFFICES ASSUME NEW k \in DOMAIN (x \o y), k \notin DOMAIN x
                   PROVE  \E j \in DOMAIN y : (x \o y)[k] = y[j]
        BY <3>1
      <4>1. /\ Len(x) \in Nat /\ Len(y) \in Nat /\ k \in 1..(Len(x) + Len(y)) /\ k \notin 1..Len(x)
            /\ DOMAIN y = 1..Len(y)
        BY <3>1
      <4>2. k - Len(x) \in DOMAIN y /\ (x \o y)[k] = y[k - Len(x)]
        BY <3>1, <4>1
      <4> QED BY <4>2
    <3> QED BY <3>1, <3>2, <3>3 DEF ItemsOf, x
  <2> QED BY <2>3, <2>4, <2>6, <2>7, <2>8
<1>6. ASSUME NEW s \in SalesOrders, s = r.so
      PROVE  order'[s].status # "Absent" /\ order'[s].status \in StageOf(resv', lineItems', s)
  <2>1. order[s].status # "Absent" /\ order[s] \in OrderRow /\ s # NoSO
    BY <1>0, <1>6, FgAssumption DEF TxOK, TypeOK
  <2>2. order'[s].status = IF r.status = "Absent" THEN order[s].status ELSE r.status
    BY <1>0, <1>1, <1>6, <2>1 DEF TypeOK, OrderRow
  <2>3. IF r.status # "Absent" THEN r.status \in StageOf(resv', lineItems', s)
        ELSE order[s].status \in StageOf(resv', lineItems', s)
    BY <1>0, <1>1, <1>6, <2>1 DEF StatusKnown
  <2> QED BY <2>1, <2>2, <2>3
<1>7. OrdersOK'
  <2> SUFFICES ASSUME NEW s \in SalesOrders
               PROVE  IF order'[s].status = "Absent"
                      THEN (\A i \in DOMAIN resv' : resv'[i].so # s) /\ ItemsOf(lineItems', s) = {}
                      ELSE order'[s].status \in StageOf(resv', lineItems', s)
    BY DEF OrdersOK, StageOf
  <2>1. CASE s = r.so
    BY <1>6, <2>1
  <2>2. CASE s # r.so
    <3>1. IF order[s].status = "Absent"
          THEN (\A i \in DOMAIN resv : resv[i].so # s) /\ ItemsOf(lineItems, s) = {}
          ELSE order[s].status \in StageOf(resv, lineItems, s)
      BY <1>0 DEF OrdersOK
    <3>2. StageOf(resv', lineItems', s) = StageOf(resv, lineItems, s)
      BY <1>5, <2>2 DEF StageOf
    <3> QED BY <1>5, <2>2, <3>1, <3>2
  <2> QED BY <2>1, <2>2
<1> QED BY <1>1, <1>2, <1>3, <1>7, AloneEnds

-----------------------------------------------------------------------------
(* Books that stay in order *)

\* From one row, one set of reservations and one ledger of batch b to the next:
\* k is reserved, m given back, and n dispatched, p of it out of what was reserved.
Booking(b, row, rs, log, row1, rs1, log1, k, m, n, p) ==
  /\ k \in Nat /\ m \in Nat /\ n \in Nat /\ p \in Nat /\ p <= n
  /\ row1.reserved = row.reserved + k - m - p /\ row1.dispatched = row.dispatched + n
  /\ ReservedOn(rs1, b) = ReservedOn(rs, b) + k - m - p
  /\ row.stock # "Absent" /\ row1.stock # "Absent" /\ (row1.stock = "Hold" <=> row.stock = "Hold")
  /\ row1.loc = row.loc /\ log1.at = log.at /\ log1.held = log.held /\ log1.released = log.released
  /\ log1.reserved = log.reserved + k /\ log1.unreserved = log.unreserved + m
  /\ log1.dispatched = log.dispatched + n
  /\ k + n - m - p <= PassedQty[b] - row.reserved - row.dispatched

LEMMA BookMoves ==
  ASSUME NEW b \in Batches, NEW row, NEW rs, NEW log, NEW row1, NEW rs1, NEW log1,
         NEW k, NEW m, NEW n, NEW p, Booking(b, row, rs, log, row1, rs1, log1, k, m, n, p),
         BookOK(b, row, rs, log), row.reserved \in Int, PassedQty[b] \in Nat, log \in LedgerRow
  PROVE  BookOK(b, row1, rs1, log1)
<1> DEFINE R == row.reserved
           D == row.dispatched
           P == PassedQty[b]
           x == log.reserved
           y == log.unreserved
           z == log.dispatched
<1>0. k \in Nat /\ m \in Nat /\ n \in Nat /\ p \in Nat /\ p <= n
  BY DEF Booking
<1>1. R \in Int /\ D \in Nat /\ P \in Nat /\ x \in Nat /\ y \in Nat /\ z \in Nat
  BY DEF BookOK, LedgerRow
<1>2. /\ R = ReservedOn(rs, b) /\ row.loc = log.at /\ R <= x - y /\ R >= x - y - z
      /\ log.held - log.released = IF row.stock = "Hold" THEN 1 ELSE 0
  BY DEF BookOK
<1>3. /\ row1.reserved = R + k - m - p /\ row1.dispatched = D + n
      /\ log1.reserved = x + k /\ log1.unreserved = y + m /\ log1.dispatched = z + n
      /\ k + n - m - p <= P - R - D
  BY DEF Booking
<1>4. row1.reserved = ReservedOn(rs1, b) /\ row1.stock # "Absent"
  BY <1>2, <1>3 DEF Booking
<1>5. /\ row1.loc = log1.at /\ row1.dispatched = log1.dispatched
      /\ log1.held - log1.released = IF row1.stock = "Hold" THEN 1 ELSE 0
  BY <1>2 DEF Booking, BookOK
<1> HIDE DEF R, D, P, x, y, z
<1>6. row1.dispatched \in Nat /\ row1.reserved + row1.dispatched <= P
  BY <1>0, <1>1, <1>3
<1>7. /\ row1.reserved <= log1.reserved - log1.unreserved
      /\ row1.reserved >= log1.reserved - log1.unreserved - log1.dispatched
  BY <1>0, <1>1, <1>2, <1>3
<1> QED BY <1>4, <1>5, <1>6, <1>7 DEF BookOK, P

-----------------------------------------------------------------------------
(* A reservation is about to be committed *)

\* What a transaction that writes one batch sees of the batches and the ledger.
LEMMA ViewsOfOne ==
  ASSUME TypeOK, NEW c \in Clients, NEW b \in Batches, NEW row, NEW log,
         req[c].wBatch = Put(NoWrite, b, row), req[c].wLog = Put(NoWrite, b, log)
  PROVE  /\ \A x \in Batches : BatchView(c)[x] = IF x = b THEN row ELSE batch[x]
         /\ \A x \in Batches : LedgerView(c)[x] = IF x = b THEN log ELSE ledger[x]
BY DEF BatchView, LedgerView, Over, Put, NoWrite, TypeOK

\* The row of a batch with another reserved quantity.
LEMMA ReservedRow ==
  ASSUME TypeOK, NEW b \in Batches, NEW n \in Int
  PROVE  LET row == WithReserved(b, n) IN
         /\ row.reserved = n /\ row.dispatched = batch[b].dispatched
         /\ row.loc = batch[b].loc /\ row.stock # "Absent"
         /\ row.stock = "Hold" <=> batch[b].stock = "Hold"
<1> DEFINE st == computeStockStatus(b, batch[b].stock, n, batch[b].dispatched)
<1>1. st # "Absent" /\ (st = "Hold" <=> batch[b].stock = "Hold")
  BY DEF computeStockStatus
<1>2. batch[b] \in BatchRow
  BY DEF TypeOK
<1>3. WithReserved(b, n) = [batch[b] EXCEPT !.reserved = n, !.stock = st]
  BY DEF WithReserved
<1> HIDE DEF st
<1> QED BY <1>1, <1>2, <1>3 DEF BatchRow

\* What the commit of a reservation changes, seen from the pool.
ReserveMoves(c) == LET r == req[c]  rs == ResvView(c)  rows == BatchView(c) IN
  /\ batch[r.b].stock \notin {"Absent", "Hold"}
  /\ r.qty <= PassedQty[r.b] - batch[r.b].reserved - batch[r.b].dispatched
  /\ \A x \in Batches :
       /\ rows[x].reserved = IF x = r.b THEN batch[x].reserved + r.qty ELSE batch[x].reserved
       /\ rows[x].dispatched = batch[x].dispatched
       /\ rows[x].stock = "Absent" <=> batch[x].stock = "Absent"
       /\ rows[x].stock = "Hold" <=> batch[x].stock = "Hold"
  /\ \A x, t : ClaimOf(rs, x, t) =
       IF x = r.b /\ t = r.so THEN ClaimOf(resv, x, t) + r.qty ELSE ClaimOf(resv, x, t)

LEMMA TxReserve ==
  ASSUME Alone, NEW c \in Clients, req[c].op = "reserve", req[c].pc = "tx"
  PROVE  TxOK(c) /\ ReserveMoves(c)
<1> DEFINE r == req[c]
           b == r.b
           q == r.qty
           e == [b |-> b, so |-> r.so, qty |-> q, status |-> "Active"]
           row == WithReserved(b, batch[b].reserved + q)
           log == [ledger[b] EXCEPT !.reserved = @ + q]
           rs == ResvView(c)
<1>0. /\ TypeOK /\ RequestOK(r) /\ BooksOK(batch, resv, ledger) /\ ResvOK(resv) /\ Reserving(r)
  BY DEF Alone, InStep, TypeOK, RequestSees
<1>1. /\ b \in Batches /\ r.so \in SalesOrders /\ q \in Qty /\ q \in Nat /\ q >= 1 /\ q \in 0..MaxQty
  BY <1>0, FgAssumption DEF RequestOK, Qty
<1>2. /\ r.wBatch = Put(NoWrite, b, row) /\ r.wLog = Put(NoWrite, b, log) /\ r.wNew = <<e>>
      /\ r.wResv = NoWrite /\ r.wItems = << >>
      /\ batch[b].stock \notin {"Absent", "Hold"} /\ order[r.so].status # "Absent"
      /\ q <= PassedQty[b] - batch[b].reserved - batch[b].dispatched
  BY <1>0 DEF Reserving, computeAvailableQty
<1>3. e \in ResvRow /\ e.b = b /\ e.so = r.so /\ e.qty = q /\ e.status = "Active"
  BY <1>1 DEF ResvRow
<1>4. resv \in Seq(ResvRow) /\ rs = resv \o <<e>>
  <2>1. resv \in [1..Len(resv) -> ResvRow] /\ resv \in Seq(ResvRow)
    BY <1>0, LenProperties DEF TypeOK
  <2> QED BY <1>2, <2>1, OverNothing DEF ResvView
<1>5. batch[b] \in BatchRow /\ ledger[b] \in LedgerRow /\ BookOK(b, batch[b], resv, ledger[b])
  BY <1>0, <1>1 DEF TypeOK, BooksOK
<1>6. batch[b].reserved + q \in Int /\ batch[b].reserved \in Int
  BY <1>1, <1>5 DEF BatchRow
<1>7. /\ row.reserved = batch[b].reserved + q /\ row.dispatched = batch[b].dispatched
      /\ row.loc = batch[b].loc /\ row.stock # "Absent"
      /\ row.stock = "Hold" <=> batch[b].stock = "Hold"
  BY <1>0, <1>1, <1>6, ReservedRow
<1>8. /\ log.reserved = ledger[b].reserved + q /\ log.unreserved = ledger[b].unreserved
      /\ log.dispatched = ledger[b].dispatched /\ log.held = ledger[b].held
      /\ log.released = ledger[b].released /\ log.at = ledger[b].at
  BY <1>5 DEF LedgerRow
<1> HIDE DEF row, log, e
<1>9. /\ \A x \in Batches : BatchView(c)[x] = IF x = b THEN row ELSE batch[x]
      /\ \A x \in Batches : LedgerView(c)[x] = IF x = b THEN log ELSE ledger[x]
  BY <1>0, <1>1, <1>2, ViewsOfOne
<1>10. /\ \A x : ReservedOn(rs, x) = IF x = b THEN ReservedOn(resv, x) + q ELSE ReservedOn(resv, x)
       /\ \A x, t : ClaimOf(rs, x, t) =
            IF x = b /\ t = r.so THEN ClaimOf(resv, x, t) + q ELSE ClaimOf(resv, x, t)
       /\ \A i \in DOMAIN resv : i \in DOMAIN rs /\ rs[i] = resv[i]
       /\ \A i \in DOMAIN rs : i \in DOMAIN resv \/ rs[i] = e
  BY <1>3, <1>4, SumsAdd
<1> HIDE DEF rs
<1>11. BooksOK(BatchView(c), rs, LedgerView(c))
  <2> SUFFICES ASSUME NEW x \in Batches PROVE BookOK(x, BatchView(c)[x], rs, LedgerView(c)[x])
    BY DEF BooksOK
  <2>1. CASE x = b
    <3>1. BookOK(b, row, rs, log)
      <4>1. /\ batch[b].reserved \in Int /\ batch[b].dispatched \in Int /\ PassedQty[b] \in Nat
            /\ ledger[b].reserved \in Nat /\ ledger[b].unreserved \in Nat /\ ledger[b].dispatched \in Nat
        BY <1>1, <1>5, FgAssumption DEF BatchRow, LedgerRow
      <4> DEFINE R == batch[b].reserved
      <4>2. /\ row.reserved = R + q - 0 - 0 /\ row.dispatched = batch[b].dispatched + 0
            /\ log.reserved = ledger[b].reserved + q /\ log.unreserved = ledger[b].unreserved + 0
            /\ log.dispatched = ledger[b].dispatched + 0
            /\ q + 0 - 0 - 0 <= PassedQty[b] - R - batch[b].dispatched
        BY <1>1, <1>2, <1>7, <1>8, <4>1
      <4>3. ReservedOn(rs, b) = ReservedOn(resv, b) + q - 0 - 0
        BY <1>1, <1>5, <1>10, <4>1 DEF BookOK
      <4>4. Booking(b, batch[b], resv, ledger[b], row, rs, log, q, 0, 0, 0)
        BY <1>1, <1>2, <1>7, <1>8, <4>2, <4>3 DEF Booking
      <4> QED BY <1>1, <1>5, <4>1, <4>4, BookMoves
    <3> QED BY <1>9, <2>1, <3>1
  <2>2. CASE x # b
    <3>1. BookOK(x, batch[x], resv, ledger[x])
      BY <1>0 DEF BooksOK
    <3> QED BY <1>9, <1>10, <2>2, <3>1 DEF BookOK
  <2> QED BY <2>1, <2>2
<1>12. ResvOK(rs)
  BY <1>0, <1>1, <1>3, <1>10 DEF ResvOK
<1>13. TxOK(c)
  BY <1>2, <1>3, <1>10, <1>11, <1>12 DEF TxOK, rs
<1>14. ReserveMoves(c)
  <2>1. ASSUME NEW x \in Batches
        PROVE  /\ BatchView(c)[x].reserved = IF x = b THEN batch[x].reserved + q ELSE batch[x].reserved
               /\ BatchView(c)[x].dispatched = batch[x].dispatched
               /\ BatchView(c)[x].stock = "Absent" <=> batch[x].stock = "Absent"
               /\ BatchView(c)[x].stock = "Hold" <=> batch[x].stock = "Hold"
    BY <1>2, <1>7, <1>9
  <2> QED BY <1>2, <1>10, <2>1 DEF ReserveMoves, rs
<1> QED BY <1>13, <1>14

-----------------------------------------------------------------------------
(* A cancellation is about to be committed *)

CancelMoves(c) == LET r == req[c]  rs == ResvView(c)  rows == BatchView(c) IN
  /\ batch[r.b].stock # "Absent" /\ r.qty >= 1 /\ r.qty <= ClaimOf(resv, r.b, r.so)
  /\ \A x \in Batches :
       /\ rows[x].reserved = IF x = r.b THEN batch[x].reserved - r.qty ELSE batch[x].reserved
       /\ rows[x].dispatched = batch[x].dispatched
       /\ rows[x].stock = "Absent" <=> batch[x].stock = "Absent"
       /\ rows[x].stock = "Hold" <=> batch[x].stock = "Hold"
  /\ \A x, t : ClaimOf(rs, x, t) =
       IF x = r.b /\ t = r.so THEN ClaimOf(resv, x, t) - r.qty ELSE ClaimOf(resv, x, t)

\* An Active reservation is part of what is reserved of its batch, which exists.
LEMMA ActiveCounts ==
  ASSUME TypeOK, BooksOK(batch, resv, ledger), ResvOK(resv),
         NEW i \in DOMAIN resv, resv[i].status = "Active"
  PROVE  LET b == resv[i].b  q == resv[i].qty IN
         /\ b \in Batches /\ resv[i].so \in SalesOrders /\ q \in Nat /\ q >= 1 /\ q \in 0..MaxQty
         /\ i \in Claims(resv, b, resv[i].so)
         /\ q <= ClaimOf(resv, b, resv[i].so) /\ q <= batch[b].reserved
         /\ batch[b].reserved \in Nat /\ batch[b].stock # "Absent"
<1> DEFINE b == resv[i].b
           s == resv[i].so
           q == resv[i].qty
           C == Claims(resv, b, s)
<1>1. resv \in Seq(ResvRow) /\ resv[i] \in ResvRow
  BY DEF TypeOK
<1>2. b \in Batches /\ s \in SalesOrders /\ q \in 0..MaxQty
  BY <1>1 DEF ResvRow
<1>3. q >= 1 /\ q \in Nat
  BY <1>2, FgAssumption DEF ResvOK
<1>4. i \in C
  BY ClaimsOf
<1>5. /\ IsFiniteSet(C) /\ ClaimOf(resv, b, s) \in Nat /\ ReservedOn(resv, b) \in Nat
      /\ ClaimOf(resv, b, s) <= ReservedOn(resv, b)
  BY <1>1, SumsTypes
<1>6. q <= Total(resv, C)
  <2>1. IsFiniteSet(C) /\ i \in C /\ resv[i].qty \in 0..MaxQty
    BY <1>2, <1>4, <1>5
  <2> HIDE DEF C
  <2>2. resv[i].qty <= Total(resv, C)
    BY ONLY <2>1, TotalMember
  <2> QED BY <2>2
<1>7. batch[b].reserved = ReservedOn(resv, b) /\ (batch[b].stock = "Absent" => batch[b].reserved = 0)
  BY <1>2 DEF BooksOK, BookOK
<1> DEFINE m == ClaimOf(resv, b, s)
<1>8. q <= m /\ m \in Nat /\ m <= ReservedOn(resv, b)
  BY <1>5, <1>6 DEF ClaimOf
<1> HIDE DEF q, m, b, s, C
<1>9. q <= batch[b].reserved /\ batch[b].reserved \in Nat /\ batch[b].stock # "Absent"
  BY <1>3, <1>5, <1>7, <1>8
<1> QED BY <1>2, <1>3, <1>4, <1>8, <1>9 DEF q, m, b, s, C

LEMMA TxCancel ==
  ASSUME Alone, NEW c \in Clients, req[c].op = "cancel", req[c].pc = "tx"
  PROVE  TxOK(c) /\ CancelMoves(c)
<1> DEFINE r == req[c]
           b == r.b
           q == r.qty
           i == r.res
           gone == [resv[i] EXCEPT !.status = "Cancelled"]
           row == WithReserved(b, batch[b].reserved - q)
           log == [ledger[b] EXCEPT !.unreserved = @ + q]
           rs == ResvView(c)
<1>0. /\ TypeOK /\ RequestOK(r) /\ BooksOK(batch, resv, ledger) /\ ResvOK(resv) /\ Cancelling(r)
      /\ OrdersOK
  BY DEF Alone, InStep, TypeOK, RequestSees
<1>1. /\ i \in DOMAIN resv /\ resv[i].status = "Active" /\ resv[i].b = b /\ resv[i].so = r.so
      /\ resv[i].qty = q /\ resv \in Seq(ResvRow) /\ resv[i] \in ResvRow
  BY <1>0 DEF RequestOK, Cancelling, TypeOK
<1>2. /\ b \in Batches /\ r.so \in SalesOrders /\ q \in Nat /\ q >= 1 /\ q \in 0..MaxQty
      /\ i \in Claims(resv, b, r.so) /\ q <= ClaimOf(resv, b, r.so) /\ q <= batch[b].reserved
      /\ batch[b].reserved \in Nat /\ batch[b].stock # "Absent"
  <2>1. LET x == resv[i].b  y == resv[i].qty IN
         /\ x \in Batches /\ resv[i].so \in SalesOrders /\ y \in Nat /\ y >= 1 /\ y \in 0..MaxQty
         /\ i \in Claims(resv, x, resv[i].so)
         /\ y <= ClaimOf(resv, x, resv[i].so) /\ y <= batch[x].reserved
         /\ batch[x].reserved \in Nat /\ batch[x].stock # "Absent"
    BY <1>0, <1>1, ActiveCounts
  <2> QED BY <1>1, <2>1
<1>3. /\ r.wBatch = Put(NoWrite, b, row) /\ r.wLog = Put(NoWrite, b, log)
      /\ r.wResv = Put(NoWrite, i, gone) /\ r.wNew = << >> /\ r.wItems = << >>
  BY <1>0 DEF Cancelling
<1>4. gone \in ResvRow /\ gone.b = b /\ gone.so = r.so /\ gone.status = "Cancelled"
  BY <1>1 DEF ResvRow
<1> HIDE DEF gone
<1>5. /\ rs \in Seq(ResvRow) /\ DOMAIN rs = DOMAIN resv
      /\ \A k \in DOMAIN resv : rs[k] = IF k = i THEN gone ELSE resv[k]
  <2> DEFINE f == [k \in 1..Len(resv) |-> IF k = i THEN gone ELSE resv[k]]
  <2>1. Len(resv) \in Nat /\ DOMAIN resv = 1..Len(resv) /\ \A k \in DOMAIN resv : resv[k] \in ResvRow
    BY <1>1
  <2>2. Over(resv, r.wResv) = f
    BY <1>3, <2>1 DEF Over, Put, NoWrite
  <2>3. f \in [1..Len(resv) -> ResvRow]
    BY <1>4, <2>1
  <2>4. \A k \in DOMAIN resv : f[k] = IF k = i THEN gone ELSE resv[k]
    BY <2>1
  <2> HIDE DEF f
  <2>5. f \in Seq(ResvRow) /\ DOMAIN f = DOMAIN resv
    BY <2>1, <2>3, SeqDef
  <2>6. rs = f
    BY <1>3, <2>2, <2>5, ConcatNothing DEF ResvView
  <2> QED BY <2>4, <2>5, <2>6
<1>6. batch[b] \in BatchRow /\ ledger[b] \in LedgerRow /\ BookOK(b, batch[b], resv, ledger[b])
  BY <1>0, <1>2 DEF TypeOK, BooksOK
<1>7. /\ row.reserved = batch[b].reserved - q /\ row.dispatched = batch[b].dispatched
      /\ row.loc = batch[b].loc /\ row.stock # "Absent"
      /\ row.stock = "Hold" <=> batch[b].stock = "Hold"
  <2>1. batch[b].reserved - q \in Int
    BY <1>2
  <2> QED BY <1>0, <1>2, <2>1, ReservedRow
<1>8. /\ log.reserved = ledger[b].reserved /\ log.unreserved = ledger[b].unreserved + q
      /\ log.dispatched = ledger[b].dispatched /\ log.held = ledger[b].held
      /\ log.released = ledger[b].released /\ log.at = ledger[b].at
  BY <1>6 DEF LedgerRow
<1> HIDE DEF row, log
<1>9. /\ \A x \in Batches : BatchView(c)[x] = IF x = b THEN row ELSE batch[x]
      /\ \A x \in Batches : LedgerView(c)[x] = IF x = b THEN log ELSE ledger[x]
  BY <1>0, <1>2, <1>3, ViewsOfOne
<1> HIDE DEF rs
<1>10. /\ \A x : ReservedOn(rs, x) = IF x = b THEN ReservedOn(resv, x) - q ELSE ReservedOn(resv, x)
       /\ \A x, t : ClaimOf(rs, x, t) =
            IF x = b /\ t = r.so THEN ClaimOf(resv, x, t) - q ELSE ClaimOf(resv, x, t)
  <2>1. Moves(resv, rs, {i}, b, r.so)
    <3>1. \A k \in DOMAIN resv : rs[k].b = resv[k].b /\ rs[k].so = resv[k].so
      BY <1>1, <1>4, <1>5
    <3> QED BY <1>1, <1>2, <1>5, <3>1 DEF Moves
  <2>2. Total(resv, {i}) = q
    BY <1>1, <1>2, TotalOne
  <2>3. Total(rs, ActiveOf(rs, {i})) = 0
    <3>1. ActiveOf(rs, {i}) = {}
      BY <1>1, <1>4, <1>5 DEF ActiveOf
    <3> QED BY <3>1, TotalNothing
  <2> DEFINE n == Total(resv, {i}) - Total(rs, ActiveOf(rs, {i}))
  <2>4. n = q
    BY <1>2, <2>2, <2>3
  <2>5. /\ \A x : ReservedOn(rs, x) = IF x = b THEN ReservedOn(resv, x) - n ELSE ReservedOn(resv, x)
        /\ \A x, t : ClaimOf(rs, x, t) =
             IF x = b /\ t = r.so THEN ClaimOf(resv, x, t) - n ELSE ClaimOf(resv, x, t)
    BY <2>1, SumsMove
  <2> HIDE DEF n
  <2> QED BY <2>4, <2>5
<1>11. BooksOK(BatchView(c), rs, LedgerView(c))
  <2> SUFFICES ASSUME NEW x \in Batches PROVE BookOK(x, BatchView(c)[x], rs, LedgerView(c)[x])
    BY DEF BooksOK
  <2>1. CASE x = b
    <3>1. BookOK(b, row, rs, log)
      <4>1. /\ batch[b].reserved \in Nat /\ batch[b].dispatched \in Int /\ PassedQty[b] \in Nat
            /\ ledger[b].reserved \in Nat /\ ledger[b].unreserved \in Nat /\ ledger[b].dispatched \in Nat
        BY <1>2, <1>6, FgAssumption DEF BatchRow, LedgerRow
      <4> DEFINE R == batch[b].reserved
      <4>2. /\ row.reserved = R + 0 - q - 0 /\ row.dispatched = batch[b].dispatched + 0
            /\ log.reserved = ledger[b].reserved + 0 /\ log.unreserved = ledger[b].unreserved + q
            /\ log.dispatched = ledger[b].dispatched + 0
        BY <1>2, <1>7, <1>8, <4>1
      <4>3. ReservedOn(rs, b) = ReservedOn(resv, b) + 0 - q - 0
        BY <1>2, <1>6, <1>10, <4>1 DEF BookOK
      <4>4. 0 + 0 - q - 0 <= PassedQty[b] - R - batch[b].dispatched
        BY <1>2, <1>6, <4>1 DEF BookOK
      <4>5. Booking(b, batch[b], resv, ledger[b], row, rs, log, 0, q, 0, 0)
        BY <1>2, <1>7, <1>8, <4>2, <4>3, <4>4 DEF Booking
      <4> QED BY <1>2, <1>6, <4>1, <4>5, BookMoves
    <3> QED BY <1>9, <2>1, <3>1
  <2>2. CASE x # b
    <3>1. BookOK(x, batch[x], resv, ledger[x])
      BY <1>0 DEF BooksOK
    <3> QED BY <1>9, <1>10, <2>2, <3>1 DEF BookOK
  <2> QED BY <2>1, <2>2
<1>12. ResvOK(rs)
  BY <1>0, <1>4, <1>5 DEF ResvOK
<1>13. order[r.so].status # "Absent"
  BY <1>0, <1>1, <1>2 DEF OrdersOK
<1>14. TxOK(c)
  BY <1>1, <1>3, <1>4, <1>5, <1>11, <1>12, <1>13 DEF TxOK, rs
<1>15. CancelMoves(c)
  <2>1. ASSUME NEW x \in Batches
        PROVE  /\ BatchView(c)[x].reserved = IF x = b THEN batch[x].reserved - q ELSE batch[x].reserved
               /\ BatchView(c)[x].dispatched = batch[x].dispatched
               /\ BatchView(c)[x].stock = "Absent" <=> batch[x].stock = "Absent"
               /\ BatchView(c)[x].stock = "Hold" <=> batch[x].stock = "Hold"
    BY <1>2, <1>7, <1>9
  <2> QED BY <1>2, <1>10, <2>1 DEF CancelMoves, rs
<1> QED BY <1>14, <1>15

\* A dispatch that is done.
LEMMA TxDispatch ==
  ASSUME Alone, NEW c \in Clients, req[c].op = "dispatch"
  PROVE  TxOK(c)
<1> DEFINE r == req[c]
<1>0. /\ TypeOK /\ OwnDraws /\ RequestOK(r) /\ Dispatching(r, BatchView(c), ResvView(c), LedgerView(c))
  BY DEF Alone, InStep, TypeOK, RequestSees
<1>1. DOMAIN ResvView(c) = DOMAIN resv
  BY <1>0, ViewTypes
<1>2. ASSUME NEW i \in DOMAIN resv
      PROVE  \/ ResvView(c)[i] = resv[i]
             \/ resv[i].so = r.so /\ ResvView(c)[i].so = r.so /\ resv[i].status = "Active"
  <2>1. /\ ResvView(c)[i] = IF i \in DOMAIN r.wResv THEN r.wResv[i] ELSE resv[i]
        /\ ResvView(c)[i].so = resv[i].so
    BY <1>0, OwnView
  <2> QED BY <1>0, <2>1 DEF Dispatching
<1> QED BY <1>0, <1>1, <1>2 DEF TxOK, Dispatching

-----------------------------------------------------------------------------
(* One line of a dispatch *)

\* Taking n and then q out of h takes n + q out of it, as far as it goes.
LEMMA MinAdds ==
  ASSUME NEW n \in Nat, NEW q \in Nat, NEW h \in Nat
  PROVE  /\ MinOf(n + q, h) = MinOf(n, h) + MinOf(q, h - MinOf(n, h))
         /\ MinOf(n, h) \in Nat /\ MinOf(n, h) <= h /\ MinOf(n, h) <= n
BY DEF MinOf

\* What a line that has read its claims knows of them.
LEMMA LineReads ==
  ASSUME Alone, NEW c \in Clients, req[c].op = "dispatch", req[c].pc = "claims"
  PROVE  LET r == req[c]  rs == ResvView(c)  q == Head(r.lines).qty
             C == Claims(rs, r.b, r.so)  m == ClaimOf(rs, r.b, r.so)
         IN  /\ r.claims = ClaimsRead(rs, C) /\ DOMAIN r.claims = C
             /\ Total(r.claims, DOMAIN r.claims) = m /\ m \in Nat
             /\ r.b \in Batches /\ r.b = Head(r.lines).b /\ r.lines # << >>
             /\ q \in Qty /\ q \in Nat /\ q > 0
             /\ r.row = BatchView(c)[r.b] /\ r.row.stock \notin {"Absent", "Hold"}
             /\ q <= PassedQty[r.b] - r.row.reserved - r.row.dispatched + m
             /\ Reads(rs, C, MinOf(q, m)) /\ MinOf(q, m) \in Nat
<1> DEFINE r == req[c]
           rs == ResvView(c)
           q == Head(r.lines).qty
           C == Claims(rs, r.b, r.so)
           m == ClaimOf(rs, r.b, r.so)
<1>0. /\ TypeOK /\ RequestOK(r) /\ AtLine(r, BatchView(c), rs) /\ rs \in Seq(ResvRow)
  BY ViewTypes DEF Alone, InStep, TypeOK, RequestSees
<1>1. /\ r.claims = ClaimsRead(rs, C) /\ r.b = Head(r.lines).b /\ r.row = BatchView(c)[r.b]
      /\ r.row.stock \notin {"Absent", "Hold"}
      /\ q <= PassedQty[r.b] - r.row.reserved - r.row.dispatched + m
  BY <1>0 DEF AtLine, computeAvailableQty
<1>2. r.lines # << >> /\ r.b \in Batches
  BY <1>0 DEF RequestOK
<1>3. q \in Qty /\ q \in Nat /\ q > 0
  BY <1>0, <1>2, HeadLine
<1>4. DOMAIN r.claims = C /\ SameQty(r.claims, rs, C)
  BY <1>1 DEF ClaimsRead, SameQty
<1>5. Total(r.claims, DOMAIN r.claims) = m
  <2> HIDE DEF C
  <2> QED BY <1>4, TotalSame DEF ClaimOf, C
<1>6. m \in Nat
  BY <1>0, SumsTypes
<1>7. C \subseteq DOMAIN rs
  BY DEF Claims, ActiveOn, Active
<1>8. MinOf(q, m) \in Nat /\ MinOf(q, m) <= m
  <2> HIDE DEF q, m
  <2> QED BY <1>3, <1>6 DEF MinOf
<1>9. Reads(rs, C, MinOf(q, m))
  BY <1>0, <1>7, <1>8 DEF Reads, ClaimOf
<1> QED BY <1>1, <1>2, <1>3, <1>4, <1>5, <1>6, <1>8, <1>9

\* What a line writes, as its transaction sees it afterwards.
LEMMA LineWrites ==
  ASSUME Alone, NEW c \in Clients, processDispatchLineItem(c)
  PROVE  LET r == req[c]  rs == ResvView(c)  q == Head(r.lines).qty
             C == Claims(rs, r.b, r.so)  p == MinOf(q, ClaimOf(rs, r.b, r.so))
             item == [so |-> r.so, b |-> r.b, qty |-> q]
         IN  /\ req'[c].op = "dispatch" /\ req'[c].pc = "line" /\ req'[c].so = r.so
             /\ req'[c].status = r.status
             /\ req'[c].lines = Tail(r.lines) /\ req'[c].wItems = Append(r.wItems, item)
             /\ DOMAIN req'[c].wResv \subseteq DOMAIN r.wResv \cup C
             /\ ResvView(c)' = After(rs, C, p)
             /\ \A x \in Batches : BatchView(c)'[x] =
                  IF x = r.b THEN ShippedRow(c, r.b, p, q) ELSE BatchView(c)[x]
             /\ \A x \in Batches : LedgerView(c)'[x] =
                  IF x = r.b THEN Logged(c, r.b, q) ELSE LedgerView(c)[x]
             /\ UNCHANGED <<batch, resv, lineItems, order, ledger>>
<1> DEFINE r == req[c]
           rs == ResvView(c)
           q == Head(r.lines).qty
           C == Claims(rs, r.b, r.so)
           p == MinOf(q, ClaimOf(rs, r.b, r.so))
           item == [so |-> r.so, b |-> r.b, qty |-> q]
           drawn == Consumed(rs, r.claims, p)
           wr == Then(r.wResv, drawn)
           wb == Put(r.wBatch, r.b, ShippedRow(c, r.b, p, q))
           wl == Put(r.wLog, r.b, Logged(c, r.b, q))
           items == Append(r.wItems, item)
<1>0. /\ TypeOK /\ OwnDraws /\ RequestOK(r) /\ r.op = "dispatch" /\ r.pc = "claims"
      /\ DOMAIN r = DOMAIN Idle /\ DOMAIN req = Clients
  BY DEF Alone, TypeOK, processDispatchLineItem, At, RequestOK
<1>1. /\ r.claims = ClaimsRead(rs, C) /\ DOMAIN r.claims = C
      /\ Total(r.claims, DOMAIN r.claims) = ClaimOf(rs, r.b, r.so) /\ r.b \in Batches
  BY <1>0, LineReads
<1>2. /\ req' = [req EXCEPT ![c] = [r EXCEPT !.pc = "line", !.lines = Tail(r.lines),
                   !.wResv = wr, !.wBatch = wb, !.wItems = items, !.wLog = wl]]
      /\ UNCHANGED <<batch, resv, lineItems, order, ledger>>
  BY <1>1 DEF processDispatchLineItem
<1>3. /\ req'[c].op = "dispatch" /\ req'[c].pc = "line" /\ req'[c].so = r.so
      /\ req'[c].status = r.status /\ req'[c].lines = Tail(r.lines) /\ req'[c].wItems = items
      /\ req'[c].wResv = wr /\ req'[c].wBatch = wb /\ req'[c].wLog = wl /\ req'[c].wNew = r.wNew
  <2> HIDE DEF r, wr, wb, wl, items
  <2> QED BY <1>0, <1>2 DEF Idle, r
<1>4. r.wNew = << >>
  BY <1>0 DEF RequestOK
<1>5. DOMAIN drawn \subseteq C /\ DOMAIN wr = DOMAIN r.wResv \cup DOMAIN drawn
  BY <1>1 DEF Consumed, Then
<1>6. ResvView(c)' = After(rs, C, p)
  <2>1. resv \in Seq(ResvRow) /\ rs \in Seq(ResvRow) /\ DOMAIN rs = DOMAIN resv
    BY <1>0, ViewTypes DEF TypeOK
  <2>2. \A i \in DOMAIN resv : rs[i] = IF i \in DOMAIN r.wResv THEN r.wResv[i] ELSE resv[i]
    BY <1>0, OwnView
  <2> HIDE DEF drawn
  <2>3. Over(resv, wr) = Over(rs, drawn)
    <3> HIDE DEF rs
    <3>1. DOMAIN Over(resv, wr) = DOMAIN resv /\ DOMAIN Over(rs, drawn) = DOMAIN resv
      BY <2>1 DEF Over
    <3>2. ASSUME NEW i \in DOMAIN resv PROVE Over(resv, wr)[i] = Over(rs, drawn)[i]
      <4>1. Over(resv, wr)[i] = IF i \in DOMAIN wr THEN wr[i] ELSE resv[i]
        BY DEF Over
      <4>2. Over(rs, drawn)[i] = IF i \in DOMAIN drawn THEN drawn[i] ELSE rs[i]
        BY <2>1 DEF Over
      <4>3. i \in DOMAIN wr => wr[i] = IF i \in DOMAIN drawn THEN drawn[i] ELSE r.wResv[i]
        BY DEF Then
      <4> QED BY <1>5, <2>2, <4>1, <4>2, <4>3
    <3> QED BY <3>1, <3>2 DEF Over
  <2>4. Over(rs, drawn) = After(rs, C, p)
    BY <1>1 DEF After, drawn
  <2>5. Over(rs, drawn) \in Seq(ResvRow)
    BY <1>0, <1>1, <2>4, LineReads, AfterRows
  <2>6. ResvView(c)' = Over(resv, wr) \o << >>
    BY <1>2, <1>3, <1>4 DEF ResvView
  <2> HIDE DEF wr, rs, C, p
  <2> QED BY <2>3, <2>4, <2>5, <2>6, ConcatNothing
<1>7. ASSUME NEW x \in Batches
      PROVE  /\ BatchView(c)'[x] = IF x = r.b THEN ShippedRow(c, r.b, p, q) ELSE BatchView(c)[x]
             /\ LedgerView(c)'[x] = IF x = r.b THEN Logged(c, r.b, q) ELSE LedgerView(c)[x]
  <2> DEFINE sr == ShippedRow(c, r.b, p, q)
             sl == Logged(c, r.b, q)
  <2>1. DOMAIN batch = Batches /\ DOMAIN ledger = Batches
    BY <1>0 DEF TypeOK
  <2>2. BatchView(c)' = Over(batch, wb) /\ LedgerView(c)' = Over(ledger, wl)
    BY <1>2, <1>3 DEF BatchView, LedgerView
  <2> HIDE DEF sr, sl
  <2> QED BY <2>1, <2>2 DEF Over, Put, BatchView, LedgerView
<1> QED BY <1>2, <1>3, <1>5, <1>6, <1>7

\* A line keeps what holds of a dispatch in flight.
LEMMA DispatchLine ==
  ASSUME Alone, NEW c \in Clients, processDispatchLineItem(c)
  PROVE  InStep'
<1> DEFINE r == req[c]
           s == r.so
           b == r.b
           q == Head(r.lines).qty
           rs == ResvView(c)
           C == Claims(rs, b, s)
           m == ClaimOf(rs, b, s)
           p == MinOf(q, m)
           R == After(rs, C, p)
           row == ShippedRow(c, b, p, q)
           log == Logged(c, b, q)
           item == [so |-> s, b |-> b, qty |-> q]
<1>0. /\ TypeOK /\ OwnDraws /\ RequestOK(r) /\ r.op = "dispatch" /\ r.pc = "claims"
      /\ Dispatching(r, BatchView(c), rs, LedgerView(c)) /\ rs \in Seq(ResvRow)
  BY ViewTypes DEF Alone, InStep, TypeOK, RequestSees, processDispatchLineItem, At
<1>1. /\ b \in Batches /\ r.lines # << >> /\ q \in Qty /\ q \in Nat /\ q > 0 /\ m \in Nat
      /\ r.row = BatchView(c)[b] /\ r.row.stock \notin {"Absent", "Hold"}
      /\ q <= PassedQty[b] - r.row.reserved - r.row.dispatched + m
      /\ Reads(rs, C, p) /\ p \in Nat
  BY <1>0, LineReads
<1>2. /\ req'[c].op = "dispatch" /\ req'[c].pc = "line" /\ req'[c].so = s
      /\ req'[c].lines = Tail(r.lines) /\ req'[c].wItems = Append(r.wItems, item)
      /\ DOMAIN req'[c].wResv \subseteq DOMAIN r.wResv \cup C
      /\ ResvView(c)' = R
      /\ \A x \in Batches : BatchView(c)'[x] = IF x = b THEN row ELSE BatchView(c)[x]
      /\ \A x \in Batches : LedgerView(c)'[x] = IF x = b THEN log ELSE LedgerView(c)[x]
      /\ UNCHANGED <<batch, resv, lineItems, order, ledger>>
  BY LineWrites
<1>3. /\ \A x : ReservedOn(R, x) = IF x = b THEN ReservedOn(rs, x) - p ELSE ReservedOn(rs, x)
      /\ \A x, t : ClaimOf(R, x, t) = IF x = b /\ t = s THEN ClaimOf(rs, x, t) - p ELSE ClaimOf(rs, x, t)
      /\ ResvOK(rs) => ResvOK(R)
  BY <1>1, SumsDrawn
<1>4. item \in LineItem /\ item.so = s /\ item.b = b /\ item.qty = q /\ r.wItems \in Seq(LineItem)
  BY <1>0, <1>1 DEF LineItem, RequestOK
<1>5. /\ r.row \in BatchRow /\ LedgerView(c)[b] \in LedgerRow /\ PassedQty[b] \in Nat
      /\ r.row.reserved \in Int /\ r.row.dispatched \in Int
      /\ BookOK(b, r.row, rs, LedgerView(c)[b])
  <2>1. BookOK(b, r.row, rs, LedgerView(c)[b])
    BY <1>0, <1>1 DEF Dispatching, BooksOK
  <2> QED BY <1>0, <1>1, <2>1, ViewTypes, FgAssumption DEF BatchRow
<1>6. /\ row.reserved = r.row.reserved - p /\ row.dispatched = r.row.dispatched + q
      /\ row.stock \notin {"Absent", "Hold"} /\ row.loc = r.row.loc
  <2> DEFINE st == computeStockStatus(b, r.row.stock, r.row.reserved - p, r.row.dispatched + q)
             di == IF r.row.dispatched + q = PassedQty[b] THEN "Dispatched" ELSE "Partial"
  <2>1. st \notin {"Absent", "Hold"}
    BY <1>1 DEF computeStockStatus
  <2>2. row = [r.row EXCEPT !.reserved = r.row.reserved - p, !.dispatched = r.row.dispatched + q,
                            !.dispatch = di, !.stock = st]
    BY <1>1 DEF ShippedRow
  <2> HIDE DEF st, di, row, p, q, r
  <2> QED BY <1>5, <2>1, <2>2 DEF BatchRow
<1>7. /\ log.reserved = LedgerView(c)[b].reserved /\ log.unreserved = LedgerView(c)[b].unreserved
      /\ log.dispatched = LedgerView(c)[b].dispatched + q /\ log.held = LedgerView(c)[b].held
      /\ log.released = LedgerView(c)[b].released /\ log.at = LedgerView(c)[b].at
  BY <1>5 DEF Logged, LedgerRow
<1>8. p <= q /\ p <= m /\ (p = q \/ p = m)
  <2> HIDE DEF q, m
  <2> QED BY <1>1 DEF MinOf
<1> HIDE DEF row, log, R
<1>9. BookOK(b, row, R, log)
  <2> DEFINE lg == LedgerView(c)[b]
             rr == r.row.reserved
             rd == r.row.dispatched
             P == PassedQty[b]
  <2>1. /\ rr \in Int /\ rd \in Int /\ P \in Nat /\ lg \in LedgerRow
        /\ lg.reserved \in Nat /\ lg.unreserved \in Nat
    BY <1>5 DEF LedgerRow
  <2>2. rr + rd <= P /\ rr = ReservedOn(rs, b)
    BY <1>1, <1>5 DEF BookOK
  <2>3. q <= P - rr - rd + m
    BY <1>1
  <2>4. row.reserved = rr - p /\ row.dispatched = rd + q
    BY <1>6
  <2>5. ReservedOn(R, b) = ReservedOn(rs, b) - p
    BY <1>3
  <2>6. log.reserved = lg.reserved /\ log.unreserved = lg.unreserved /\ log.dispatched = lg.dispatched + q
    BY <1>7
  <2> HIDE DEF rr, rd, P, p, q, m, rs, lg
  <2>7. 0 + q - 0 - p <= P - rr - rd
    BY <1>1, <1>8, <2>1, <2>2, <2>3
  <2>8. /\ row.reserved = rr + 0 - 0 - p /\ row.dispatched = rd + q
        /\ ReservedOn(R, b) = ReservedOn(rs, b) + 0 - 0 - p
        /\ log.reserved = lg.reserved + 0 /\ log.unreserved = lg.unreserved + 0
    BY <1>1, <2>1, <2>2, <2>4, <2>5, <2>6
  <2>9. Booking(b, r.row, rs, lg, row, R, log, 0, 0, q, p)
    BY <1>1, <1>6, <1>7, <1>8, <2>6, <2>7, <2>8 DEF Booking, P, rr, rd, lg
  <2> QED BY <1>1, <1>5, <2>1, <2>9, BookMoves DEF lg
<1>10. BooksOK(BatchView(c)', R, LedgerView(c)')
  <2> SUFFICES ASSUME NEW x \in Batches PROVE BookOK(x, BatchView(c)'[x], R, LedgerView(c)'[x])
    BY DEF BooksOK
  <2>1. CASE x = b
    BY <1>2, <1>9, <2>1
  <2>2. CASE x # b
    <3>1. BookOK(x, BatchView(c)[x], rs, LedgerView(c)[x]) /\ ReservedOn(R, x) = ReservedOn(rs, x)
      BY <1>0, <1>3, <2>2 DEF Dispatching, BooksOK
    <3>2. BatchView(c)'[x] = BatchView(c)[x] /\ LedgerView(c)'[x] = LedgerView(c)[x]
      BY <1>2, <2>2
    <3> QED BY <3>1, <3>2 DEF BookOK
  <2> QED BY <2>1, <2>2
<1>11. ASSUME NEW x \in Batches
       PROVE  /\ ShippedBy(req'[c], x) = ShippedBy(r, x) + (IF x = b THEN q ELSE 0)
              /\ ShippedBy(r, x) \in Nat
  <2> DEFINE its == r.wItems
  <2>1. Total(Append(its, item), ItemsFrom(Append(its, item), x)) =
          Total(its, ItemsFrom(its, x)) + (IF item.b = x THEN item.qty ELSE 0)
    BY <1>4, ItemsAppend
  <2>2. ItemsFrom(its, x) \in SUBSET DOMAIN its /\ its \in Seq(LineItem)
    BY <1>4 DEF ItemsFrom
  <2>3. Total(its, ItemsFrom(its, x)) \in Nat
    BY <2>2, PositionsFinite, UnitsFinite
  <2> HIDE DEF item
  <2> QED BY <1>2, <1>4, <2>1, <2>3 DEF ShippedBy
<1>12. ASSUME NEW x \in Batches
       PROVE  Draws(r, x, BatchView(c)[x], rs) /\ ClaimOf(resv, x, s) \in Nat
  BY <1>0, SumsTypes DEF Dispatching, TypeOK
<1>13. Draws(req'[c], b, row, R)
  <2> DEFINE n == ShippedBy(r, b)
             h == ClaimOf(resv, b, s)
             B == batch[b].reserved
             D == batch[b].dispatched
  <2>1. /\ r.row.dispatched = D + n /\ r.row.reserved = B - MinOf(n, h) /\ m = h - MinOf(n, h)
        /\ batch[b].stock \notin {"Absent", "Hold"} /\ h \in Nat /\ n \in Nat
    BY <1>1, <1>11, <1>12 DEF Draws
  <2>2. B \in Int /\ D \in Int
    BY <1>0, <1>1 DEF TypeOK, BatchRow
  <2>3. ShippedBy(req'[c], b) = n + q
    BY <1>11, <1>1
  <2>4. row.reserved = r.row.reserved - p /\ row.dispatched = r.row.dispatched + q
    BY <1>6
  <2>5. ClaimOf(R, b, s) = m - p
    BY <1>3
  <2>6. p = MinOf(q, m)
    OBVIOUS
  <2> HIDE DEF n, h, B, D, p, q, m
  <2>7. MinOf(n + q, h) = MinOf(n, h) + p /\ MinOf(n, h) \in Nat
    BY <1>1, <2>1, <2>6, MinAdds
  <2>8. /\ row.dispatched = D + (n + q) /\ row.reserved = B - MinOf(n + q, h)
        /\ ClaimOf(R, b, s) = h - MinOf(n + q, h)
    <3>1. q \in Nat /\ p \in Nat
      BY <1>1
    <3>2. row.dispatched = D + (n + q)
      BY <2>1, <2>2, <2>4, <3>1
    <3> DEFINE k == MinOf(n, h)
    <3>3. k \in Nat /\ MinOf(n + q, h) = k + p
      BY <2>7
    <3>4. row.reserved = (B - k) - p /\ ClaimOf(R, b, s) = (h - k) - p
      BY <2>1, <2>4, <2>5
    <3> HIDE DEF k
    <3> QED BY <2>1, <2>2, <3>1, <3>2, <3>3, <3>4
  <2> QED BY <1>2, <1>6, <2>1, <2>3, <2>8 DEF Draws, h, B, D
<1>14. ASSUME NEW x \in Batches, x # b PROVE Draws(req'[c], x, BatchView(c)[x], R)
  <2>1. ShippedBy(req'[c], x) = ShippedBy(r, x) /\ ClaimOf(R, x, s) = ClaimOf(rs, x, s)
    BY <1>3, <1>11, <1>14
  <2> QED BY <1>2, <1>12, <2>1 DEF Draws
<1>15. /\ Len(req'[c].wItems) + Len(req'[c].lines) <= MaxLines
       /\ \A j \in DOMAIN req'[c].wItems : req'[c].wItems[j].so = s
  <2> DEFINE its == r.wItems
             ls == r.lines
  <2>1. /\ its \in Seq(LineItem) /\ ls \in Seq([b : Batches, qty : Qty]) /\ ls # << >>
        /\ Len(its) + Len(ls) <= MaxLines /\ \A j \in DOMAIN its : its[j].so = s
    BY <1>0, <1>1, <1>4 DEF RequestOK, Dispatching
  <2> HIDE DEF its, ls, item
  <2>2. Len(Append(its, item)) = Len(its) + 1 /\ Len(Tail(ls)) = Len(ls) - 1 /\ Len(its) \in Nat
        /\ Len(ls) \in Nat
    BY <2>1, HeadTailProperties, AppendProperties, LenProperties, <1>4
  <2>3. \A j \in DOMAIN Append(its, item) :
          \/ j \in DOMAIN its /\ Append(its, item)[j] = its[j]
          \/ Append(its, item)[j] = item
    BY <2>1, <1>4
  <2>4. Len(Append(its, item)) + Len(Tail(ls)) <= MaxLines
    BY <2>1, <2>2, FgAssumption
  <2>5. \A j \in DOMAIN Append(its, item) : Append(its, item)[j].so = s
    BY <1>4, <2>1, <2>3
  <2>6. req'[c].wItems = Append(its, item) /\ req'[c].lines = Tail(ls)
    BY <1>2 DEF its, ls
  <2> QED BY <2>4, <2>5, <2>6
<1>16. \A i \in DOMAIN req'[c].wResv : resv[i].status = "Active" /\ resv[i].so = s
  <2>1. \A i \in DOMAIN r.wResv : resv[i].status = "Active" /\ resv[i].so = s
    BY <1>0 DEF Dispatching
  <2>2. ASSUME NEW i \in C, i \notin DOMAIN r.wResv
        PROVE  resv[i].status = "Active" /\ resv[i].so = s
    <3>1. i \in DOMAIN rs /\ rs[i].status = "Active" /\ rs[i].so = s
      BY ClaimsOf
    <3>2. i \in DOMAIN resv
      BY <1>0, <3>1, ViewTypes
    <3>3. rs[i] = resv[i]
      BY <1>0, <2>2, <3>2, OwnView
    <3> QED BY <3>1, <3>3
  <2> HIDE DEF C
  <2> QED BY <1>2, <2>1, <2>2
<1>17. Dispatching(req[c], BatchView(c), ResvView(c), LedgerView(c))'
  <2>1. \A x \in Batches : Draws(req'[c], x, BatchView(c)'[x], R)
    BY <1>2, <1>13, <1>14
  <2>2. ResvOK(R)
    BY <1>0, <1>3 DEF Dispatching
  <2>3. s # NoSO => order[s].status # "Absent"
    BY <1>0 DEF Dispatching
  <2> QED BY <1>2, <1>10, <1>15, <1>16, <2>1, <2>2, <2>3
        DEF Dispatching, BooksOK, BookOK, Draws, ResvOK, ClaimOf, ReservedOn, ShippedBy
<1>18. RequestSees(c)'
  BY <1>2, <1>17 DEF RequestSees, AtLine
<1> QED BY <1>2, <1>18, AloneMoves

-----------------------------------------------------------------------------
(* The reads of a dispatch *)

\* What a dispatch has done so far does not change when it only reads.
LEMMA DispatchKept ==
  ASSUME Alone, NEW c \in Clients, UNCHANGED <<batch, resv, lineItems, order, ledger>>,
         req[c].op = "dispatch", req'[c].so = req[c].so, req'[c].lines = req[c].lines,
         req'[c].wBatch = req[c].wBatch, req'[c].wLog = req[c].wLog,
         req'[c].wResv = req[c].wResv, req'[c].wNew = req[c].wNew,
         req'[c].wItems = req[c].wItems
  PROVE  /\ Dispatching(req[c], BatchView(c), ResvView(c), LedgerView(c))'
         /\ BatchView(c)' = BatchView(c) /\ ResvView(c)' = ResvView(c)
         /\ LedgerView(c)' = LedgerView(c) /\ ItemView(c)' = ItemView(c)
<1>1. /\ BatchView(c)' = BatchView(c) /\ ResvView(c)' = ResvView(c)
      /\ LedgerView(c)' = LedgerView(c) /\ ItemView(c)' = ItemView(c)
  BY DEF BatchView, ResvView, LedgerView, ItemView
<1> DEFINE rows == BatchView(c)
           rs == ResvView(c)
           logs == LedgerView(c)
<1>2. Dispatching(req[c], rows, rs, logs)
  BY DEF Alone, InStep, RequestSees
<1>3. rows' = rows /\ rs' = rs /\ logs' = logs
  BY <1>1
<1> HIDE DEF rows, rs, logs
<1> QED BY <1>1, <1>2, <1>3 DEF Dispatching, Draws, ShippedBy, ClaimOf, BooksOK, BookOK, ReservedOn,
       ResvOK, rows, rs, logs

LEMMA DispatchReads ==
  ASSUME Alone, NEW c \in Clients, lineReadBatch(c) \/ lineReadClaims(c) \/ dispatchRecompute(c)
  PROVE  InStep'
<1> DEFINE r == req[c]
           rs == ResvView(c)
<1>0. /\ TypeOK /\ RequestOK(r) /\ DOMAIN r = DOMAIN Idle /\ DOMAIN req = Clients
      /\ r.op = "dispatch" /\ AtLine(r, BatchView(c), rs) /\ rs \in Seq(ResvRow)
      /\ ItemView(c) \in Seq(LineItem)
      /\ Dispatching(r, BatchView(c), rs, LedgerView(c))
      /\ UNCHANGED <<batch, resv, lineItems, order, ledger>>
  BY ViewTypes DEF Alone, InStep, TypeOK, RequestOK, RequestSees, lineReadBatch, lineReadClaims,
     dispatchRecompute, At
<1>1. /\ req'[c].op = "dispatch" /\ req'[c].so = r.so /\ req'[c].lines = r.lines
      /\ req'[c].wBatch = r.wBatch /\ req'[c].wLog = r.wLog /\ req'[c].wResv = r.wResv
      /\ req'[c].wNew = r.wNew /\ req'[c].wItems = r.wItems
  <2> HIDE DEF r
  <2>1. CASE lineReadBatch(c)
    BY <1>0, <2>1 DEF lineReadBatch, Idle, r
  <2>2. CASE lineReadClaims(c)
    BY <1>0, <2>2 DEF lineReadClaims, Idle, r
  <2>3. CASE dispatchRecompute(c)
    BY <1>0, <2>3 DEF dispatchRecompute, Idle, r
  <2> QED BY <2>1, <2>2, <2>3
<1>2. /\ Dispatching(req[c], BatchView(c), ResvView(c), LedgerView(c))'
      /\ BatchView(c)' = BatchView(c) /\ ResvView(c)' = ResvView(c)
      /\ LedgerView(c)' = LedgerView(c) /\ ItemView(c)' = ItemView(c)
  BY <1>0, <1>1, DispatchKept
<1>3. CASE lineReadBatch(c)
  <2> DEFINE b == Head(r.lines).b
             row == BatchView(c)[b]
  <2>1. row.stock \notin {"Absent", "Hold"}
    BY <1>3 DEF lineReadBatch
  <2>2. req'[c].pc = "row" /\ req'[c].b = b /\ req'[c].row = row
    <3>1. req' = [req EXCEPT ![c] = [r EXCEPT !.pc = "row", !.b = b, !.row = row]]
      BY <1>3 DEF lineReadBatch
    <3> HIDE DEF r, b, row
    <3> QED BY <1>0, <3>1 DEF Idle, r
  <2>3. (AtLine(req[c], BatchView(c), ResvView(c)))'
    BY <1>1, <1>2, <2>1, <2>2 DEF AtLine
  <2>4. RequestSees(c)'
    BY <1>1, <1>2, <2>2, <2>3 DEF RequestSees
  <2> QED BY <1>0, <2>4, AloneMoves
<1>4. CASE lineReadClaims(c)
  <2> DEFINE C == Claims(rs, r.b, r.so)
             mine == ClaimsRead(rs, C)
  <2>1. /\ r.pc = "row"
        /\ Head(r.lines).qty <= computeAvailableQty(r.b, r.row) + Total(mine, DOMAIN mine)
    BY <1>4 DEF lineReadClaims, At, ClaimsRead
  <2>2. req'[c].pc = "claims" /\ req'[c].b = r.b /\ req'[c].row = r.row /\ req'[c].claims = mine
    <3>1. req' = [req EXCEPT ![c] = [r EXCEPT !.pc = "claims", !.claims = mine]]
      BY <1>4 DEF lineReadClaims, ClaimsRead
    <3> HIDE DEF r, mine
    <3> QED BY <1>0, <3>1 DEF Idle, r
  <2>3. Total(mine, DOMAIN mine) = ClaimOf(rs, r.b, r.so)
    <3>1. DOMAIN mine = C /\ SameQty(mine, rs, C)
      BY DEF ClaimsRead, SameQty
    <3> HIDE DEF mine, C
    <3> QED BY <3>1, TotalSame DEF ClaimOf, C
  <2>4. (AtLine(req[c], BatchView(c), ResvView(c)))'
    BY <1>0, <1>1, <1>2, <2>1, <2>2, <2>3 DEF AtLine, computeAvailableQty, ClaimOf
  <2>5. RequestSees(c)'
    BY <1>1, <1>2, <2>2, <2>4 DEF RequestSees
  <2> QED BY <1>0, <2>5, AloneMoves
<1>5. CASE dispatchRecompute(c)
  <2> DEFINE st == IF r.so = NoSO THEN "Absent"
                   ELSE recomputeSalesOrderStatus(r.so, rs, ItemView(c))
  <2>1. req'[c].pc = "tx" /\ req'[c].status = st
    <3>1. req' = [req EXCEPT ![c] = [r EXCEPT !.pc = "tx", !.status = st]]
      BY <1>5 DEF dispatchRecompute
    <3> HIDE DEF r, st
    <3> QED BY <1>0, <3>1 DEF Idle, r
  <2>2. StatusKnown(req[c], ResvView(c), ItemView(c))'
    <3>1. r.so \in SalesOrders \cup {NoSO} /\ ResvOK(rs)
      BY <1>0 DEF RequestOK, Dispatching
    <3>2. CASE r.so = NoSO
      BY <1>1, <2>1, <3>2 DEF StatusKnown
    <3>3. CASE r.so # NoSO
      <4> DEFINE ls == ItemView(c)
      <4>1. r.so \in SalesOrders /\ st = recomputeSalesOrderStatus(r.so, rs, ls)
        BY <3>1, <3>3
      <4> HIDE DEF st, ls
      <4>2. IF st # "Absent" THEN st \in StageOf(rs, ls, r.so)
            ELSE order[r.so].status \in StageOf(rs, ls, r.so)
        BY <1>0, <3>1, <4>1, StatusOfStage DEF ls
      <4> QED BY <1>0, <1>1, <1>2, <2>1, <4>2 DEF StatusKnown, StageOf, ls
    <3> QED BY <3>2, <3>3
  <2>3. (AtLine(req[c], BatchView(c), ResvView(c)))'
    BY <2>1 DEF AtLine
  <2>4. RequestSees(c)'
    BY <1>1, <1>2, <2>1, <2>2, <2>3 DEF RequestSees
  <2> QED BY <1>0, <2>4, AloneMoves
<1> QED BY <1>3, <1>4, <1>5

-----------------------------------------------------------------------------
(* The start of a request *)

\* A request that has written nothing sees the committed rows.
LEMMA ViewsOfNone ==
  ASSUME TypeOK, NEW c \in Clients, Unwritten(req[c])
  PROVE  BatchView(c) = batch /\ ResvView(c) = resv /\ LedgerView(c) = ledger
         /\ ItemView(c) = lineItems
<1>1. /\ batch \in [Batches -> BatchRow] /\ ledger \in [Batches -> LedgerRow]
      /\ resv \in Seq(ResvRow) /\ lineItems \in Seq(LineItem)
      /\ resv \in [1..Len(resv) -> ResvRow]
  BY LenProperties DEF TypeOK
<1>2. /\ Over(batch, NoWrite) = batch /\ Over(ledger, NoWrite) = ledger
      /\ Over(resv, NoWrite) = resv
  BY <1>1, OverNothing
<1>3. resv \o << >> = resv /\ lineItems \o << >> = lineItems
  BY <1>1, ConcatNothing
<1> QED BY <1>2, <1>3 DEF Unwritten, BatchView, ResvView, LedgerView, ItemView

\* A dispatch that has done no line has shipped nothing.
LEMMA DispatchNothing ==
  ASSUME Alone, NEW r, Unwritten(r), NEW lines, lines \in Lines, r.lines = lines,
         r.so # NoSO => order[r.so].status # "Absent"
  PROVE  Dispatching(r, batch, resv, ledger)
<1>0. TypeOK /\ BooksOK(batch, resv, ledger) /\ ResvOK(resv)
  BY DEF Alone, InStep
<1>1. Len(r.wItems) + Len(r.lines) <= MaxLines
  <2>1. PICK n \in 1..MaxLines : lines \in [1..n -> [b : Batches, qty : Qty]]
    BY DEF Lines
  <2>2. Len(lines) = n
    BY <2>1
  <2> QED BY <2>1, <2>2, FgAssumption DEF Unwritten
<1>2. ASSUME NEW b \in Batches PROVE Draws(r, b, batch[b], resv)
  <2> DEFINE h == ClaimOf(resv, b, r.so)
  <2>1. ShippedBy(r, b) = 0
    BY ShippedNothing DEF ShippedBy, Unwritten
  <2>2. h \in Nat /\ batch[b] \in BatchRow
    BY <1>0, SumsTypes DEF TypeOK
  <2>3. MinOf(0, h) = 0
    BY <2>2 DEF MinOf
  <2> HIDE DEF h
  <2>4. batch[b].dispatched + 0 = batch[b].dispatched /\ batch[b].reserved - 0 = batch[b].reserved
        /\ h - 0 = h
    BY <2>2 DEF BatchRow
  <2> QED BY <2>1, <2>3, <2>4 DEF Draws, h
<1>3. \A i \in DOMAIN r.wResv : FALSE
  BY DEF Unwritten, NoWrite
<1>4. \A j \in DOMAIN r.wItems : FALSE
  BY DEF Unwritten
<1> QED BY <1>0, <1>1, <1>2, <1>3, <1>4 DEF Dispatching

LEMMA RequestStarts ==
  ASSUME Alone, NEW c \in Clients, NEW r, req' = [req EXCEPT ![c] = r], Idles(c),
         UNCHANGED <<batch, resv, lineItems, order, ledger>>, Unwritten(r),
         \/ /\ r.op = "dispatch" /\ r.pc = "line" /\ r.lines \in Lines
            /\ r.so # NoSO => order[r.so].status # "Absent"
         \/ /\ r.op \in {"transfer", "hold", "release", "reserve"} /\ r.pc = "loaded"
            /\ r.row = batch[r.b] /\ Exists(r.b)
            /\ r.op = "hold" => batch[r.b].stock # "Hold"
            /\ r.op = "release" => batch[r.b].stock = "Hold"
            /\ r.op = "reserve" => Reserving(r)
         \/ r.op = "cancel" /\ r.pc = "found" /\ Cancelling(r)
  PROVE  InStep'
<1>0. TypeOK /\ DOMAIN req = Clients
  BY DEF Alone, TypeOK
<1>1. req'[c] = r
  BY <1>0
<1>2. RequestSees(c)'
  <2>1. CASE r.op = "dispatch" /\ r.pc = "line"
    <3>1. Dispatching(r, batch, resv, ledger)
      BY <2>1, DispatchNothing
    <3>2. BatchView(c)' = batch /\ ResvView(c)' = resv /\ LedgerView(c)' = ledger
      <4>1. /\ batch \in [Batches -> BatchRow] /\ ledger \in [Batches -> LedgerRow]
            /\ resv \in Seq(ResvRow) /\ resv \in [1..Len(resv) -> ResvRow]
        BY <1>0, LenProperties DEF TypeOK
      <4>2. /\ Over(batch, NoWrite) = batch /\ Over(ledger, NoWrite) = ledger
            /\ Over(resv, NoWrite) = resv
        BY <4>1, OverNothing
      <4>3. resv \o << >> = resv
        BY <4>1, ConcatNothing
      <4> QED BY <1>1, <4>2, <4>3 DEF Unwritten, BatchView, ResvView, LedgerView
    <3>3. Dispatching(req[c], BatchView(c), ResvView(c), LedgerView(c))'
      BY <1>1, <3>1, <3>2 DEF Dispatching, Draws, ShippedBy, ClaimOf, BooksOK, BookOK,
         ReservedOn, ResvOK
    <3> QED BY <1>1, <2>1, <3>3 DEF RequestSees, AtLine
  <2>2. CASE r.op \in {"transfer", "hold", "release", "reserve"} /\ r.pc = "loaded"
    BY <1>1, <2>2 DEF RequestSees, Unwritten, Reserving, Exists
  <2>3. CASE r.op = "cancel" /\ r.pc = "found"
    BY <1>1, <2>3 DEF RequestSees, Unwritten, Cancelling
  <2> QED BY <2>1, <2>2, <2>3
<1> QED BY <1>2, AloneMoves

\* The start of a request that will write later.
LEMMA StartKeeps ==
  ASSUME Alone, NEW c \in Clients,
         \/ \E b \in Batches, l \in Locations : transferLoad(c, b, l)
         \/ \E b \in Batches : holdLoad(c, b) \/ releaseLoad(c, b)
         \/ \E b \in Batches, s \in SalesOrders, q \in Qty : reserveLoad(c, b, s, q)
         \/ \E i \in DOMAIN resv : cancelLoad(c, i)
         \/ \E s \in SalesOrders \cup {NoSO}, lines \in Lines : createDispatch(c, s, lines)
  PROVE  InStep'
<1>1. CASE \E b \in Batches, l \in Locations : transferLoad(c, b, l)
  <2>1. PICK b \in Batches, l \in Locations : transferLoad(c, b, l)
    BY <1>1
  <2> DEFINE r == [Idle EXCEPT !.op = "transfer", !.pc = "loaded", !.b = b,
                !.so = NoSO, !.qty = 0, !.loc = l, !.row = batch[b]]
  <2>2. /\ req' = [req EXCEPT ![c] = r] /\ Idles(c) /\ Exists(b)
        /\ UNCHANGED <<batch, resv, lineItems, order, ledger>>
    BY <2>1 DEF transferLoad, Load
  <2>3. /\ r.op = "transfer" /\ r.pc = "loaded" /\ r.b = b /\ r.row = batch[b] /\ Unwritten(r)
    BY DEF Idle, Unwritten
  <2> HIDE DEF r
  <2> QED BY <2>2, <2>3, RequestStarts
<1>2. CASE \E b \in Batches : holdLoad(c, b)
  <2>1. PICK b \in Batches : holdLoad(c, b)
    BY <1>2
  <2> DEFINE r == [Idle EXCEPT !.op = "hold", !.pc = "loaded", !.b = b,
                !.so = NoSO, !.qty = 0, !.loc = Unassigned, !.row = batch[b]]
  <2>2. /\ req' = [req EXCEPT ![c] = r] /\ Idles(c) /\ Exists(b) /\ batch[b].stock # "Hold"
        /\ UNCHANGED <<batch, resv, lineItems, order, ledger>>
    BY <2>1 DEF holdLoad, Load
  <2>3. /\ r.op = "hold" /\ r.pc = "loaded" /\ r.b = b /\ r.row = batch[b] /\ Unwritten(r)
    BY DEF Idle, Unwritten
  <2> HIDE DEF r
  <2> QED BY <2>2, <2>3, RequestStarts
<1>3. CASE \E b \in Batches : releaseLoad(c, b)
  <2>1. PICK b \in Batches : releaseLoad(c, b)
    BY <1>3
  <2> DEFINE r == [Idle EXCEPT !.op = "release", !.pc = "loaded", !.b = b,
                !.so = NoSO, !.qty = 0, !.loc = Unassigned, !.row = batch[b]]
  <2>2. /\ req' = [req EXCEPT ![c] = r] /\ Idles(c) /\ Exists(b) /\ batch[b].stock = "Hold"
        /\ UNCHANGED <<batch, resv, lineItems, order, ledger>>
    BY <2>1 DEF releaseLoad, Load
  <2>3. /\ r.op = "release" /\ r.pc = "loaded" /\ r.b = b /\ r.row = batch[b] /\ Unwritten(r)
    BY DEF Idle, Unwritten
  <2> HIDE DEF r
  <2> QED BY <2>2, <2>3, RequestStarts
<1>4. CASE \E b \in Batches, s \in SalesOrders, q \in Qty : reserveLoad(c, b, s, q)
  <2>1. PICK b \in Batches, s \in SalesOrders, q \in Qty : reserveLoad(c, b, s, q)
    BY <1>4
  <2> DEFINE r == [Idle EXCEPT !.op = "reserve", !.pc = "loaded", !.b = b,
                !.so = s, !.qty = q, !.loc = Unassigned, !.row = batch[b]]
  <2>2. /\ req' = [req EXCEPT ![c] = r] /\ Idles(c) /\ Exists(b) /\ batch[b].stock # "Hold"
        /\ order[s].status # "Absent" /\ q <= computeAvailableQty(b, batch[b])
        /\ UNCHANGED <<batch, resv, lineItems, order, ledger>>
    BY <2>1 DEF reserveLoad, Load
  <2>3. /\ r.op = "reserve" /\ r.pc = "loaded" /\ r.b = b /\ r.so = s /\ r.qty = q
        /\ r.row = batch[b] /\ Unwritten(r)
    BY DEF Idle, Unwritten
  <2> HIDE DEF r
  <2>4. Reserving(r)
    BY <2>2, <2>3 DEF Reserving, Exists
  <2> QED BY <2>2, <2>3, <2>4, RequestStarts
<1>5. CASE \E i \in DOMAIN resv : cancelLoad(c, i)
  <2>1. PICK i \in DOMAIN resv : cancelLoad(c, i)
    BY <1>5
  <2> DEFINE r == [Idle EXCEPT !.op = "cancel", !.pc = "found",
                !.b = resv[i].b, !.so = resv[i].so, !.qty = resv[i].qty, !.res = i]
  <2>2. /\ req' = [req EXCEPT ![c] = r] /\ Idles(c) /\ resv[i].status = "Active"
        /\ UNCHANGED <<batch, resv, lineItems, order, ledger>>
    BY <2>1 DEF cancelLoad
  <2>3. /\ r.op = "cancel" /\ r.pc = "found" /\ r.b = resv[i].b /\ r.so = resv[i].so
        /\ r.qty = resv[i].qty /\ r.res = i /\ Unwritten(r)
    BY DEF Idle, Unwritten
  <2> HIDE DEF r
  <2>4. Cancelling(r)
    BY <2>2, <2>3 DEF Cancelling
  <2> QED BY <2>2, <2>3, <2>4, RequestStarts
<1>6. CASE \E s \in SalesOrders \cup {NoSO}, lines \in Lines : createDispatch(c, s, lines)
  <2>1. PICK s \in SalesOrders \cup {NoSO}, lines \in Lines : createDispatch(c, s, lines)
    BY <1>6
  <2> DEFINE r == [Idle EXCEPT !.op = "dispatch", !.pc = "line", !.so = s, !.lines = lines]
  <2>2. /\ req' = [req EXCEPT ![c] = r] /\ Idles(c) /\ (s # NoSO => order[s].status # "Absent")
        /\ UNCHANGED <<batch, resv, lineItems, order, ledger>>
    BY <2>1 DEF createDispatch
  <2>3. /\ r.op = "dispatch" /\ r.pc = "line" /\ r.so = s /\ r.lines = lines /\ Unwritten(r)
    BY DEF Idle, Unwritten
  <2> HIDE DEF r
  <2> QED BY <2>2, <2>3, RequestStarts
<1> QED BY <1>1, <1>2, <1>3, <1>4, <1>5, <1>6

-----------------------------------------------------------------------------
(* Handlers that write in the statement they decide in *)

\* The books are kept when one batch's row and ledger change and no reservation does.
LEMMA BooksKept ==
  ASSUME BooksOK(batch, resv, ledger), resv' = resv, NEW b \in Batches,
         BookOK(b, batch'[b], resv, ledger'[b]),
         \A x \in Batches \ {b} : batch'[x] = batch[x] /\ ledger'[x] = ledger[x]
  PROVE  BooksOK(batch', resv', ledger')
<1> SUFFICES ASSUME NEW x \in Batches PROVE BookOK(x, batch'[x], resv', ledger'[x])
  BY DEF BooksOK
<1>1. BookOK(x, batch'[x], resv, ledger'[x])
  BY DEF BooksOK
<1> QED BY <1>1

LEMMA OrdersKept ==
  ASSUME OrdersOK, UNCHANGED <<order, resv, lineItems>>
  PROVE  OrdersOK'
BY DEF OrdersOK, StageOf

\* The row and the ledger of a batch, before and after a write.
LEMMA RowWrites ==
  ASSUME TypeOK, NEW b \in Batches
  PROVE  /\ DOMAIN batch = Batches /\ DOMAIN ledger = Batches
         /\ batch[b] \in BatchRow /\ ledger[b] \in LedgerRow
         /\ batch[b].reserved \in Int /\ batch[b].dispatched \in Int
         /\ ledger[b].held \in Nat /\ ledger[b].released \in Nat
BY DEF TypeOK, BatchRow, LedgerRow

LEMMA CreateKeeps ==
  ASSUME Alone, NEW c \in Clients, NEW s \in SalesOrders, NEW q \in OrderedQty,
         createSalesOrder(c, s, q) \/ updateSalesOrder(c, s, q)
  PROVE  InStep'
<1>0. /\ TypeOK /\ BooksOK(batch, resv, ledger) /\ ResvOK(resv) /\ OrdersOK /\ RequestSees(c)
      /\ UNCHANGED <<batch, resv, lineItems, ledger, req>> /\ Idles(c)
  BY DEF Alone, InStep, createSalesOrder, updateSalesOrder
<1>1. req'[c] = Idle
  BY <1>0 DEF RequestSees, Idles
<1>2. OrdersOK'
  <2>1. \A t \in SalesOrders : StageOf(resv', lineItems', t) = StageOf(resv, lineItems, t)
    BY <1>0 DEF StageOf
  <2>2. \A t \in SalesOrders : order[t] \in OrderRow
    BY <1>0 DEF TypeOK
  <2>3. CASE createSalesOrder(c, s, q)
    <3>1. /\ order[s].status = "Absent" /\ order'[s].status = "Open"
          /\ \A t \in SalesOrders \ {s} : order'[t] = order[t]
      BY <1>0, <2>3 DEF createSalesOrder, TypeOK
    <3>2. (\A i \in DOMAIN resv : resv[i].so # s) /\ ItemsOf(lineItems, s) = {}
      BY <1>0, <3>1 DEF OrdersOK
    <3>3. Total(lineItems, ItemsOf(lineItems, s)) = 0 /\ ActiveFor(resv, s) = {}
      BY <3>2, TotalNothing DEF ActiveFor, Active
    <3>4. StageOf(resv, lineItems, s) = {"Open"}
      BY <3>3 DEF StageOf
    <3> QED BY <1>0, <2>1, <3>1, <3>4 DEF OrdersOK
  <2>4. CASE updateSalesOrder(c, s, q)
    <3>1. \A t \in SalesOrders : order'[t].status = order[t].status
      BY <1>0, <2>2, <2>4 DEF updateSalesOrder, TypeOK, OrderRow
    <3> QED BY <1>0, <2>1, <3>1 DEF OrdersOK
  <2> QED BY <2>3, <2>4
<1> QED BY <1>0, <1>1, <1>2, AloneEnds

LEMMA DeleteKeeps ==
  ASSUME Alone, NEW c \in Clients, NEW s \in SalesOrders, deleteSalesOrder(c, s)
  PROVE  InStep'
<1>0. /\ TypeOK /\ BooksOK(batch, resv, ledger) /\ ResvOK(resv) /\ OrdersOK /\ RequestSees(c)
      /\ UNCHANGED <<batch, resv, ledger, req>> /\ Idles(c)
  BY DEF Alone, InStep, deleteSalesOrder
<1>1. req'[c] = Idle
  BY <1>0 DEF RequestSees, Idles
<1>2. /\ \A i \in DOMAIN resv : resv[i].so # s
      /\ order'[s].status = "Absent" /\ \A t \in SalesOrders \ {s} : order'[t] = order[t]
      /\ DOMAIN lineItems' = DOMAIN lineItems
      /\ \A i \in DOMAIN lineItems :
           /\ lineItems'[i].so = IF lineItems[i].so = s THEN NoSO ELSE lineItems[i].so
           /\ lineItems'[i].qty = lineItems[i].qty
  <2>1. \A i \in DOMAIN lineItems : lineItems[i] \in LineItem
    BY <1>0 DEF TypeOK
  <2>2. order[s] \in OrderRow /\ DOMAIN order = SalesOrders
    BY <1>0 DEF TypeOK
  <2>3. /\ \A i \in DOMAIN resv : resv[i].so # s
        /\ order' = [order EXCEPT ![s].status = "Absent"]
        /\ lineItems' = [i \in DOMAIN lineItems |->
             [lineItems[i] EXCEPT !.so = IF @ = s THEN NoSO ELSE @]]
    BY DEF deleteSalesOrder
  <2>4. order'[s].status = "Absent" /\ \A t \in SalesOrders \ {s} : order'[t] = order[t]
    BY <2>2, <2>3 DEF OrderRow
  <2>5. /\ DOMAIN lineItems' = DOMAIN lineItems
        /\ \A i \in DOMAIN lineItems :
           /\ lineItems'[i].so = IF lineItems[i].so = s THEN NoSO ELSE lineItems[i].so
           /\ lineItems'[i].qty = lineItems[i].qty
    BY <2>1, <2>3 DEF LineItem
  <2> QED BY <2>3, <2>4, <2>5
<1>3. s # NoSO
  BY FgAssumption
<1>4. OrdersOK'
  <2> SUFFICES ASSUME NEW t \in SalesOrders
               PROVE  IF order'[t].status = "Absent"
                      THEN (\A i \in DOMAIN resv' : resv'[i].so # t) /\ ItemsOf(lineItems', t) = {}
                      ELSE order'[t].status \in StageOf(resv', lineItems', t)
    BY DEF OrdersOK, StageOf
  <2>1. CASE t = s
    BY <1>0, <1>2, <1>3, <2>1 DEF ItemsOf
  <2>2. CASE t # s
    <3>1. ItemsOf(lineItems', t) = ItemsOf(lineItems, t)
      BY <1>2, <2>2, FgAssumption DEF ItemsOf
    <3>2. SameQty(lineItems', lineItems, ItemsOf(lineItems, t))
      BY <1>2 DEF SameQty, ItemsOf
    <3>3. Total(lineItems', ItemsOf(lineItems', t)) = Total(lineItems, ItemsOf(lineItems, t))
      BY <3>1, <3>2, TotalSame
    <3>4. StageOf(resv', lineItems', t) = StageOf(resv, lineItems, t)
      BY <1>0, <3>3 DEF StageOf
    <3> QED BY <1>0, <1>2, <2>2, <3>1, <3>4 DEF OrdersOK
  <2> QED BY <2>1, <2>2
<1> QED BY <1>0, <1>1, <1>4, AloneEnds

LEMMA GenerateKeeps ==
  ASSUME Alone, NEW c \in Clients, NEW b \in Batches, NEW l \in Places, generateFgBatch(c, b, l)
  PROVE  InStep'
<1>0. /\ TypeOK /\ BooksOK(batch, resv, ledger) /\ ResvOK(resv) /\ OrdersOK /\ RequestSees(c)
      /\ UNCHANGED <<resv, lineItems, order, req>> /\ Idles(c) /\ BookOK(b, batch[b], resv, ledger[b])
  BY DEF Alone, InStep, generateFgBatch, BooksOK
<1>1. req'[c] = Idle
  BY <1>0 DEF RequestSees, Idles
<1>2. batch[b].stock = "Absent"
  BY DEF generateFgBatch, Exists
<1>3. /\ batch'[b] = FreshRow(l) /\ ledger'[b] = [ledger[b] EXCEPT !.at = l]
      /\ \A x \in Batches \ {b} : batch'[x] = batch[x] /\ ledger'[x] = ledger[x]
  BY <1>0, RowWrites DEF generateFgBatch
<1>4. BookOK(b, batch'[b], resv, ledger'[b])
  <2>1. /\ ledger[b].held - ledger[b].released = 0 /\ ReservedOn(resv, b) = 0
        /\ ledger[b].dispatched = 0
        /\ 0 <= ledger[b].reserved - ledger[b].unreserved
        /\ 0 >= ledger[b].reserved - ledger[b].unreserved - ledger[b].dispatched
    BY <1>0, <1>2 DEF BookOK
  <2>2. /\ ledger'[b].at = l /\ ledger'[b].held = ledger[b].held /\ ledger'[b].released = ledger[b].released
        /\ ledger'[b].reserved = ledger[b].reserved /\ ledger'[b].unreserved = ledger[b].unreserved
        /\ ledger'[b].dispatched = ledger[b].dispatched
    BY <1>0, <1>3, RowWrites DEF LedgerRow
  <2>3. /\ batch'[b].reserved = 0 /\ batch'[b].dispatched = 0 /\ batch'[b].loc = l
        /\ batch'[b].stock = "Available"
    BY <1>3 DEF FreshRow
  <2>4. PassedQty[b] \in Nat
    BY FgAssumption
  <2> QED BY <2>1, <2>2, <2>3, <2>4 DEF BookOK
<1> QED BY <1>0, <1>1, <1>3, <1>4, BooksKept, OrdersKept, AloneEnds

\* transfer, hold and release write the batch they have read.
LEMMA MoveKeeps ==
  ASSUME Alone, NEW c \in Clients,
         transferFgBatch(c) \/ holdFgBatch(c) \/ releaseHoldFgBatch(c)
  PROVE  InStep'
<1> DEFINE r == req[c]
           b == r.b
<1>0. /\ TypeOK /\ BooksOK(batch, resv, ledger) /\ ResvOK(resv) /\ OrdersOK /\ RequestSees(c)
      /\ UNCHANGED <<resv, lineItems, order>> /\ r.pc = "loaded" /\ Done(c) /\ b \in Batches
  BY DEF Alone, InStep, TypeOK, RequestOK, transferFgBatch, holdFgBatch, releaseHoldFgBatch, At
<1>1. req'[c] = Idle
  BY <1>0 DEF Done, TypeOK
<1>2. batch[b].stock # "Absent" /\ BookOK(b, batch[b], resv, ledger[b])
  BY <1>0 DEF RequestSees, Exists, BooksOK
<1>3. /\ BookOK(b, batch'[b], resv, ledger'[b])
      /\ \A x \in Batches \ {b} : batch'[x] = batch[x] /\ ledger'[x] = ledger[x]
  <2> HIDE DEF r
  <2>1. CASE transferFgBatch(c)
    <3>1. /\ batch'[b] = [batch[b] EXCEPT !.loc = r.loc] /\ ledger'[b] = [ledger[b] EXCEPT !.at = r.loc]
          /\ \A x \in Batches \ {b} : batch'[x] = batch[x] /\ ledger'[x] = ledger[x]
      BY <1>0, <2>1, RowWrites DEF transferFgBatch, r
    <3>2. /\ batch'[b].reserved = batch[b].reserved /\ batch'[b].dispatched = batch[b].dispatched
          /\ batch'[b].stock = batch[b].stock /\ batch'[b].loc = r.loc
      BY <1>0, <3>1, RowWrites DEF BatchRow
    <3>3. /\ ledger'[b].reserved = ledger[b].reserved /\ ledger'[b].unreserved = ledger[b].unreserved
          /\ ledger'[b].dispatched = ledger[b].dispatched /\ ledger'[b].held = ledger[b].held
          /\ ledger'[b].released = ledger[b].released /\ ledger'[b].at = r.loc
      BY <1>0, <3>1, RowWrites DEF LedgerRow
    <3> QED BY <1>2, <3>1, <3>2, <3>3 DEF BookOK
  <2>2. CASE holdFgBatch(c)
    <3>1. /\ batch'[b] = [batch[b] EXCEPT !.stock = "Hold"]
          /\ ledger'[b] = [ledger[b] EXCEPT !.held = ledger[b].held + 1]
          /\ \A x \in Batches \ {b} : batch'[x] = batch[x] /\ ledger'[x] = ledger[x]
      BY <1>0, <2>2, RowWrites DEF holdFgBatch, r
    <3>2. /\ batch'[b].reserved = batch[b].reserved /\ batch'[b].dispatched = batch[b].dispatched
          /\ batch'[b].stock = "Hold" /\ batch'[b].loc = batch[b].loc
      BY <1>0, <3>1, RowWrites DEF BatchRow
    <3>3. /\ ledger'[b].reserved = ledger[b].reserved /\ ledger'[b].unreserved = ledger[b].unreserved
          /\ ledger'[b].dispatched = ledger[b].dispatched /\ ledger'[b].held = ledger[b].held + 1
          /\ ledger'[b].released = ledger[b].released /\ ledger'[b].at = ledger[b].at
      BY <1>0, <3>1, RowWrites DEF LedgerRow
    <3>4. batch[b].stock # "Hold"
      BY <1>0, <2>2 DEF RequestSees, holdFgBatch, At, r
    <3>5. ledger[b].held - ledger[b].released = 0
      BY <1>2, <3>4 DEF BookOK
    <3>6. ledger'[b].held - ledger'[b].released = 1
      BY <1>0, <3>3, <3>5, RowWrites
    <3> QED BY <1>2, <3>1, <3>2, <3>3, <3>6 DEF BookOK
  <2>3. CASE releaseHoldFgBatch(c)
    <3> DEFINE st == StatusAfterHold(r.row)
    <3>1. /\ batch'[b] = [batch[b] EXCEPT !.stock = st]
          /\ ledger'[b] = [ledger[b] EXCEPT !.released = ledger[b].released + 1]
          /\ \A x \in Batches \ {b} : batch'[x] = batch[x] /\ ledger'[x] = ledger[x]
      BY <1>0, <2>3, RowWrites DEF releaseHoldFgBatch, r
    <3>2. st \notin {"Absent", "Hold"}
      BY DEF StatusAfterHold
    <3> HIDE DEF st
    <3>3. /\ batch'[b].reserved = batch[b].reserved /\ batch'[b].dispatched = batch[b].dispatched
          /\ batch'[b].stock = st /\ batch'[b].loc = batch[b].loc
      BY <1>0, <3>1, RowWrites DEF BatchRow
    <3>4. /\ ledger'[b].reserved = ledger[b].reserved /\ ledger'[b].unreserved = ledger[b].unreserved
          /\ ledger'[b].dispatched = ledger[b].dispatched /\ ledger'[b].held = ledger[b].held
          /\ ledger'[b].released = ledger[b].released + 1 /\ ledger'[b].at = ledger[b].at
      BY <1>0, <3>1, RowWrites DEF LedgerRow
    <3>5. batch[b].stock = "Hold"
      BY <1>0, <2>3 DEF RequestSees, releaseHoldFgBatch, At, r
    <3>6. ledger[b].held - ledger[b].released = 1
      BY <1>2, <3>5 DEF BookOK
    <3>7. ledger'[b].held - ledger'[b].released = 0
      BY <1>0, <3>4, <3>6, RowWrites
    <3> QED BY <1>2, <3>1, <3>2, <3>3, <3>4, <3>7 DEF BookOK
  <2> QED BY <2>1, <2>2, <2>3
<1> QED BY <1>0, <1>1, <1>3, BooksKept, OrdersKept, AloneEnds

-----------------------------------------------------------------------------
(* The transactions of a reservation and of a cancellation *)

LEMMA CancelReads ==
  ASSUME Alone, NEW c \in Clients, cancelReadBatch(c)
  PROVE  InStep'
<1> DEFINE r == req[c]
           row == batch[r.b]
<1>0. /\ TypeOK /\ BooksOK(batch, resv, ledger) /\ ResvOK(resv) /\ DOMAIN r = DOMAIN Idle
      /\ RequestOK(r) /\ r.op = "cancel" /\ r.pc = "found" /\ Cancelling(r) /\ Unwritten(r)
      /\ DOMAIN req = Clients /\ UNCHANGED <<batch, resv, lineItems, order, ledger>>
  BY DEF Alone, InStep, TypeOK, RequestOK, RequestSees, cancelReadBatch, At
<1>1. Exists(r.b)
  <2>1. r.res \in DOMAIN resv /\ resv[r.res].status = "Active" /\ resv[r.res].b = r.b
    BY <1>0 DEF RequestOK, Cancelling
  <2> QED BY <1>0, <2>1, ActiveCounts DEF Exists
<1>2. /\ req'[c].op = "cancel" /\ req'[c].pc = "loaded" /\ req'[c].row = row /\ req'[c].b = r.b
      /\ req'[c].so = r.so /\ req'[c].qty = r.qty /\ req'[c].res = r.res
      /\ req'[c].wBatch = r.wBatch /\ req'[c].wLog = r.wLog /\ req'[c].wResv = r.wResv
      /\ req'[c].wNew = r.wNew /\ req'[c].wItems = r.wItems
  <2>1. req' = [req EXCEPT ![c] = [r EXCEPT !.pc = "loaded", !.row = row]]
    BY DEF cancelReadBatch
  <2> HIDE DEF r, row
  <2> QED BY <1>0, <2>1 DEF Idle, r
<1>3. RequestSees(c)'
  BY <1>0, <1>1, <1>2 DEF RequestSees, Unwritten, Cancelling, Exists
<1> QED BY <1>0, <1>3, AloneMoves

\* A transaction that starts on a batch it has read, alone, writes the row and
\* stock status of the batch as it is.
LEMMA WritesAsRead ==
  ASSUME TypeOK, NEW c \in Clients, Unwritten(req[c]), NEW b \in Batches,
         req[c].row = batch[b], NEW n
  PROVE  WriteReserved(c, b, n) = Put(NoWrite, b, WithReserved(b, n))
<1>1. BatchView(c) = batch /\ req[c].wBatch = NoWrite
  BY ViewsOfNone DEF Unwritten
<1> QED BY <1>1 DEF WriteReserved, WithReserved

LEMMA ReserveStarts ==
  ASSUME Alone, NEW c \in Clients, reserveFgBatch(c)
  PROVE  InStep'
<1> DEFINE r == req[c]
           b == r.b
           s == r.so
           q == r.qty
           e == [b |-> b, so |-> s, qty |-> q, status |-> "Active"]
           rs == resv \o <<e>>
           st == recomputeSalesOrderStatus(s, rs, lineItems)
           wb == WriteReserved(c, b, r.row.reserved + q)
           wl == Put(NoWrite, b, [ledger[b] EXCEPT !.reserved = @ + q])
<1>0. /\ TypeOK /\ ResvOK(resv) /\ DOMAIN r = DOMAIN Idle /\ DOMAIN req = Clients
      /\ RequestOK(r) /\ r.op = "reserve" /\ r.pc = "loaded" /\ Reserving(r) /\ Unwritten(r)
      /\ r.row = batch[b] /\ UNCHANGED <<batch, resv, lineItems, order, ledger>>
  BY DEF Alone, InStep, TypeOK, RequestOK, RequestSees, reserveFgBatch, At
<1>1. /\ b \in Batches /\ s \in SalesOrders /\ s # NoSO /\ q \in Qty /\ q >= 1 /\ q \in 0..MaxQty
      /\ resv \in Seq(ResvRow) /\ lineItems \in Seq(LineItem)
  BY <1>0, FgAssumption DEF RequestOK, Qty, TypeOK
<1>2. e \in ResvRow /\ e.status = "Active" /\ e.qty = q
  BY <1>1 DEF ResvRow
<1>3. /\ req'[c].op = "reserve" /\ req'[c].pc = "tx" /\ req'[c].b = b /\ req'[c].so = s
      /\ req'[c].qty = q /\ req'[c].wNew = <<e>> /\ req'[c].wBatch = wb /\ req'[c].wLog = wl
      /\ req'[c].wResv = NoWrite /\ req'[c].wItems = << >> /\ req'[c].status = st
  <2>1. req' = [req EXCEPT ![c] = [r EXCEPT !.pc = "tx", !.wNew = <<e>>, !.wBatch = wb,
                                            !.wLog = wl, !.status = st]]
    BY DEF reserveFgBatch
  <2>2. r.wResv = NoWrite /\ r.wItems = << >>
    BY <1>0 DEF Unwritten
  <2> HIDE DEF r, e, wb, wl, st
  <2> QED BY <1>0, <2>1, <2>2 DEF Idle, r, b, s, q
<1>4. wb = Put(NoWrite, b, WithReserved(b, batch[b].reserved + q))
  BY <1>0, <1>1, WritesAsRead
<1>5. (Reserving(req[c]))'
  BY <1>0, <1>3, <1>4 DEF Reserving, WithReserved, computeAvailableQty, computeStockStatus
<1>6. ResvOK(rs) /\ rs \in Seq(ResvRow)
  <2> HIDE DEF e
  <2> QED BY <1>0, <1>1, <1>2, SumsAdd DEF ResvOK
<1>7. ResvView(c)' = rs /\ ItemView(c)' = lineItems
  <2>1. resv \in [1..Len(resv) -> ResvRow]
    BY <1>1, LenProperties
  <2> QED BY <1>0, <1>1, <1>3, <2>1, OverNothing, ConcatNothing DEF ResvView, ItemView
<1>8. IF st # "Absent" THEN st \in StageOf(rs, lineItems, s)
      ELSE order[s].status \in StageOf(rs, lineItems, s)
  <2> HIDE DEF rs, st
  <2>1. st = recomputeSalesOrderStatus(s, rs, lineItems)
    BY DEF st
  <2> QED BY <1>0, <1>1, <1>6, <2>1, StatusOfStage
<1>9. StatusKnown(req[c], ResvView(c), ItemView(c))'
  <2> HIDE DEF rs, st
  <2> QED BY <1>0, <1>3, <1>7, <1>8 DEF StatusKnown, StageOf
<1>10. RequestSees(c)'
  BY <1>3, <1>5, <1>9 DEF RequestSees
<1> QED BY <1>0, <1>10, AloneMoves

LEMMA CancelStarts ==
  ASSUME Alone, NEW c \in Clients, cancelReservation(c)
  PROVE  InStep'
<1> DEFINE r == req[c]
           b == r.b
           s == r.so
           q == r.qty
           i == r.res
           gone == [resv[i] EXCEPT !.status = "Cancelled"]
           w == Put(NoWrite, i, gone)
           rs == Over(resv, w)
           st == recomputeSalesOrderStatus(s, rs, lineItems)
           wb == WriteReserved(c, b, MaxOf(0, r.row.reserved - q))
           wl == Put(NoWrite, b, [ledger[b] EXCEPT !.unreserved = @ + q])
<1>0. /\ TypeOK /\ BooksOK(batch, resv, ledger) /\ ResvOK(resv) /\ DOMAIN r = DOMAIN Idle
      /\ DOMAIN req = Clients
      /\ RequestOK(r) /\ r.op = "cancel" /\ r.pc = "loaded" /\ Cancelling(r) /\ Unwritten(r)
      /\ r.row = batch[b] /\ UNCHANGED <<batch, resv, lineItems, order, ledger>>
  BY DEF Alone, InStep, TypeOK, RequestOK, RequestSees, cancelReservation, At
<1>1. /\ i \in DOMAIN resv /\ resv[i].status = "Active" /\ resv[i].b = b /\ resv[i].so = s
      /\ resv[i].qty = q /\ resv \in Seq(ResvRow) /\ resv[i] \in ResvRow
      /\ lineItems \in Seq(LineItem)
  BY <1>0 DEF RequestOK, Cancelling, TypeOK
<1>2. /\ b \in Batches /\ s \in SalesOrders /\ s # NoSO /\ q \in Nat /\ batch[b].reserved \in Nat
      /\ q <= batch[b].reserved
  <2>1. LET x == resv[i].b  y == resv[i].qty IN
         /\ x \in Batches /\ resv[i].so \in SalesOrders /\ y \in Nat
         /\ y <= batch[x].reserved /\ batch[x].reserved \in Nat
    BY <1>0, <1>1, ActiveCounts
  <2> QED BY <1>1, <2>1, FgAssumption
<1>3. /\ req'[c].op = "cancel" /\ req'[c].pc = "tx" /\ req'[c].b = b /\ req'[c].so = s
      /\ req'[c].qty = q /\ req'[c].res = i /\ req'[c].wResv = w /\ req'[c].wBatch = wb
      /\ req'[c].wLog = wl /\ req'[c].wNew = << >> /\ req'[c].wItems = << >>
      /\ req'[c].status = st
  <2>1. req' = [req EXCEPT ![c] = [r EXCEPT !.pc = "tx", !.wResv = w, !.wBatch = wb,
                                            !.wLog = wl, !.status = st]]
    BY DEF cancelReservation
  <2>2. r.wNew = << >> /\ r.wItems = << >>
    BY <1>0 DEF Unwritten
  <2> HIDE DEF r, w, wb, wl, st
  <2> QED BY <1>0, <2>1, <2>2 DEF Idle, r, b, s, q, i
<1>4. wb = Put(NoWrite, b, WithReserved(b, batch[b].reserved - q))
  <2>1. MaxOf(0, batch[b].reserved - q) = batch[b].reserved - q
    BY <1>2 DEF MaxOf
  <2> QED BY <1>0, <1>2, <2>1, WritesAsRead
<1>5. (Cancelling(req[c]))'
  BY <1>0, <1>1, <1>3, <1>4 DEF Cancelling, WithReserved, computeStockStatus
<1>6. /\ rs \in Seq(ResvRow) /\ ResvOK(rs)
  <2>1. gone \in ResvRow /\ gone.status = "Cancelled"
    BY <1>1 DEF ResvRow
  <2> HIDE DEF gone
  <2>2. /\ Len(resv) \in Nat /\ DOMAIN resv = 1..Len(resv)
        /\ \A k \in DOMAIN resv : resv[k] \in ResvRow
    BY <1>1
  <2>3. /\ DOMAIN rs = 1..Len(resv) /\ rs = [k \in DOMAIN resv |-> rs[k]]
        /\ \A k \in DOMAIN resv : rs[k] = IF k = i THEN gone ELSE resv[k]
    BY <2>2 DEF Over, Put, NoWrite
  <2>4. \A k \in DOMAIN resv : rs[k] \in ResvRow
    BY <2>1, <2>2, <2>3
  <2>5. ResvOK(rs)
    BY <1>0, <2>1, <2>2, <2>3 DEF ResvOK
  <2> HIDE DEF rs
  <2>6. rs \in [1..Len(resv) -> ResvRow]
    BY <2>2, <2>3, <2>4
  <2> QED BY <2>2, <2>5, <2>6, SeqDef
<1>7. ResvView(c)' = rs /\ ItemView(c)' = lineItems
  <2>1. ResvView(c)' = Over(resv, w) \o << >> /\ ItemView(c)' = lineItems \o << >>
    BY <1>0, <1>3 DEF ResvView, ItemView
  <2> HIDE DEF w
  <2>2. rs \o << >> = rs /\ lineItems \o << >> = lineItems
    BY <1>1, <1>6, ConcatNothing
  <2> QED BY <2>1, <2>2
<1>8. IF st # "Absent" THEN st \in StageOf(rs, lineItems, s)
      ELSE order[s].status \in StageOf(rs, lineItems, s)
  <2> HIDE DEF rs, st
  <2>1. st = recomputeSalesOrderStatus(s, rs, lineItems)
    BY DEF st
  <2> QED BY <1>0, <1>1, <1>2, <1>6, <2>1, StatusOfStage
<1>9. StatusKnown(req[c], ResvView(c), ItemView(c))'
  <2> HIDE DEF rs, st
  <2> QED BY <1>0, <1>3, <1>7, <1>8 DEF StatusKnown, StageOf
<1>10. RequestSees(c)'
  BY <1>3, <1>5, <1>9 DEF RequestSees
<1> QED BY <1>0, <1>10, AloneMoves

\* Every transaction is fit to commit.
LEMMA CommitOK ==
  ASSUME Alone, NEW c \in Clients, Commit(c)
  PROVE  TxOK(c)
<1>1. req[c].pc = "tx" /\ req[c].op \in {"reserve", "cancel", "dispatch"}
  BY DEF Alone, InStep, RequestSees, Commit
<1> QED BY <1>1, TxReserve, TxCancel, TxDispatch

-----------------------------------------------------------------------------
(* Requests one at a time *)

LEMMA AloneNext ==
  ASSUME Alone, [Next]_vars
  PROVE  /\ Alone'
         /\ \A i \in DOMAIN resv : resv[i].status # "Active" => resv'[i] = resv[i]
<1>0. TypeOK /\ OwnDraws /\ LogsAgree /\ InStep /\ OneAtATime
  BY DEF Alone
<1>1. CASE UNCHANGED vars
  <2>1. TypeOK'
    BY <1>0, <1>1, NextType
  <2>2. OwnDraws' /\ LogsAgree'
    BY <1>0, <1>1 DEF vars, OwnDraws, OwnRequest, LogsAgree, LogRequest, ShippedBy, LedgerMatchesLineItems
  <2>3. InStep'
    <3>1. UNCHANGED <<batch, resv, lineItems, order, ledger, req>>
      BY <1>1 DEF vars
    <3>2. ASSUME NEW c \in Clients PROVE RequestSees(c)'
      <4>1. RequestSees(c)
        BY <1>0 DEF InStep
      <4>2. Reserving(req[c]) => Reserving(req[c])'
        BY <3>1 DEF Reserving, WithReserved, computeStockStatus, computeAvailableQty
      <4>3. Cancelling(req[c]) => Cancelling(req[c])'
        BY <3>1 DEF Cancelling, WithReserved, computeStockStatus
      <4>4. req[c].op = "dispatch" => /\ Dispatching(req[c], BatchView(c), ResvView(c), LedgerView(c))'
                                      /\ AtLine(req[c], BatchView(c), ResvView(c))'
        <5>1. CASE req[c].op = "dispatch"
          <6>1. Dispatching(req[c], BatchView(c), ResvView(c), LedgerView(c))'
            BY <3>1, <5>1, DispatchKept
          <6>2. BatchView(c)' = BatchView(c) /\ ResvView(c)' = ResvView(c)
            BY <3>1 DEF BatchView, ResvView
          <6> QED BY <3>1, <4>1, <5>1, <6>1, <6>2 DEF RequestSees, AtLine, ClaimOf, computeAvailableQty
        <5> QED BY <5>1
      <4>5. StatusKnown(req[c], ResvView(c), ItemView(c)) => StatusKnown(req[c], ResvView(c), ItemView(c))'
        BY <3>1 DEF StatusKnown, StageOf, ResvView, ItemView
      <4> QED BY <3>1, <4>1, <4>2, <4>3, <4>4, <4>5 DEF RequestSees, Unwritten, Exists
    <3>3. BooksOK(batch, resv, ledger)' /\ ResvOK(resv)' /\ OrdersOK'
      BY <1>0, <1>1 DEF vars, InStep, BooksOK, BookOK, ReservedOn, ResvOK, OrdersOK, StageOf
    <3> QED BY <3>2, <3>3 DEF InStep
  <2> QED BY <1>0, <1>1, <2>1, <2>2, <2>3 DEF Alone, OneAtATime, vars
<1>2. ASSUME NEW c \in Clients, Request(c)
      PROVE  Alone' /\ resv' = resv
  <2>1. TypeOK' /\ OwnDraws' /\ LogsAgree' /\ resv' = resv
    BY <1>0, <1>2, RequestType, OwnRequestStep, LogRequestStep
  <2>2. InStep'
    BY <1>2, CreateKeeps, DeleteKeeps, GenerateKeeps, StartKeeps DEF Request
  <2> QED BY <1>0, <2>1, <2>2 DEF Alone, OneAtATime
<1>3. ASSUME NEW c \in Clients, Advance(c), ~Commit(c)
      PROVE  Alone' /\ resv' = resv
  <2>1. TypeOK' /\ OwnDraws' /\ LogsAgree' /\ resv' = resv
    BY <1>0, <1>3, AdvanceType, OwnAdvance, LogAdvance
  <2>2. CASE Rollback(c)
    <3>1. req'[c] = Idle /\ UNCHANGED <<batch, resv, lineItems, order, ledger>>
      BY <1>0, <2>2 DEF Rollback, Done, TypeOK
    <3>2. RequestSees(c)'
      BY <3>1 DEF RequestSees, Idle
    <3>3. InStep'
      BY <3>1, <3>2, AloneMoves
    <3> QED BY <1>0, <2>1, <3>3 DEF Alone, OneAtATime
  <2>3. InStep'
    BY <1>3, <2>2, MoveKeeps, CancelReads, ReserveStarts, CancelStarts, DispatchReads, DispatchLine
       DEF Advance, Alone
  <2> QED BY <1>0, <2>1, <2>3 DEF Alone, OneAtATime
<1>4. ASSUME NEW c \in Clients, Commit(c)
      PROVE  /\ Alone'
             /\ \A i \in DOMAIN resv : resv[i].status # "Active" => resv'[i] = resv[i]
  <2>1. TypeOK' /\ OwnDraws' /\ LogsAgree'
    BY <1>0, <1>4, AdvanceType, OwnCommit, LogCommit DEF Advance
  <2>2. /\ InStep'
        /\ \A i \in DOMAIN resv : resv[i].status # "Active" => resv'[i] = resv[i]
    BY <1>4, CommitOK, CommitEnds
  <2> QED BY <1>0, <2>1, <2>2 DEF Alone, OneAtATime
<1>5. UNCHANGED vars => resv' = resv
  BY DEF vars
<1>6. CASE \E c \in Clients : Request(c) \/ (Advance(c) /\ ~Commit(c))
  BY <1>2, <1>3, <1>6
<1>7. CASE \E c \in Clients : Commit(c)
  BY <1>4, <1>7
<1> QED BY <1>1, <1>5, <1>6, <1>7 DEF Next

LEMMA AloneInit ==
  ASSUME Init, OneAtATime
  PROVE  Alone
<1>1. TypeOK /\ OwnDraws
  BY InitType, OwnInit
<1>2. LogsAgree
  <2>1. LedgerMatchesLineItems
    BY ShippedNothing DEF Init, LedgerMatchesLineItems, NoMoves
  <2>2. LogRequest(Idle)
    BY ShippedNothing DEF LogRequest, ShippedBy, Idle, NoWrite
  <2> QED BY <2>1, <2>2 DEF Init, LogsAgree, Idle, NoWrite
<1>3. \A b : ReservedOn(resv, b) = 0
  <2>1. \A b : ActiveOn(resv, b) = {}
    BY DEF Init, ActiveOn, Active
  <2> QED BY <2>1, TotalNothing DEF ReservedOn
<1>4. BooksOK(batch, resv, ledger)
  BY <1>3 DEF Init, BooksOK, BookOK, NoRow, NoMoves
<1>5. ResvOK(resv) /\ OrdersOK
  BY DEF Init, ResvOK, OrdersOK, ItemsOf
<1>6. \A c \in Clients : RequestSees(c)
  BY IdleSees DEF Init
<1> QED BY <1>1, <1>2, <1>4, <1>5, <1>6 DEF Alone, InStep

-----------------------------------------------------------------------------
(* What the tables say when requests run one at a time *)

\* When requests run one at a time, the reservedQty column of a batch is always
\* the sum of the Active reservations on it: reserveFgBatch, cancelReservation
\* and processDispatchLineItem keep the counter and the rows in step.
THEOREM ReservedAddsUp == OneAtATime /\ Spec => []ReservedIsActiveSum
<1>1. OneAtATime /\ Init => Alone
  BY AloneInit
<1>2. Alone /\ [Next]_vars => Alone'
  BY AloneNext
<1>3. Alone => ReservedIsActiveSum
  BY DEF Alone, InStep, BooksOK, BookOK, ReservedIsActiveSum, ReservedOn
<1> QED BY <1>1, <1>2, <1>3, PTL DEF Spec

\* When requests run one at a time, no more of a batch is shipped than QC passed:
\* what a reserve between the two reads of a line item breaks
\* (processDispatchLineItem).
THEOREM ShipsWithinPassed == OneAtATime /\ Spec => []ShippedWithinPassed
<1>1. OneAtATime /\ Init => Alone
  BY AloneInit
<1>2. Alone /\ [Next]_vars => Alone'
  BY AloneNext
<1>3. Alone => ShippedWithinPassed
  <2> SUFFICES ASSUME Alone, NEW b \in Batches
               PROVE  Total(lineItems, ItemsFrom(lineItems, b)) <= PassedQty[b]
    BY DEF ShippedWithinPassed
  <2>1. BookOK(b, batch[b], resv, ledger[b]) /\ batch[b] \in BatchRow /\ PassedQty[b] \in Nat
    BY FgAssumption DEF Alone, InStep, BooksOK, TypeOK
  <2>2. batch[b].reserved \in Nat /\ batch[b].dispatched \in Nat
    <3>1. resv \in Seq(ResvRow)
      BY DEF Alone, InStep, TypeOK
    <3>2. ReservedOn(resv, b) \in Nat
      BY <3>1, SumsTypes
    <3> QED BY <2>1, <3>2 DEF BookOK, BatchRow
  <2>3. ledger[b].dispatched = Total(lineItems, ItemsFrom(lineItems, b))
    BY DEF Alone, LogsAgree, LedgerMatchesLineItems
  <2>4. batch[b].dispatched <= PassedQty[b]
    BY <2>1, <2>2 DEF BookOK
  <2> QED BY <2>1, <2>3, <2>4 DEF BookOK
<1> QED BY <1>1, <1>2, <1>3, PTL DEF Spec

\* When requests run one at a time, the ledger can be replayed: the place, the
\* hold, the dispatched quantity and the bounds on what is reserved follow from
\* its movements.
THEOREM LedgerReplays == OneAtATime /\ Spec => []LedgerReplaysToRow
<1>1. OneAtATime /\ Init => Alone
  BY AloneInit
<1>2. Alone /\ [Next]_vars => Alone'
  BY AloneNext
<1>3. Alone => LedgerReplaysToRow
  BY DEF Alone, InStep, BooksOK, BookOK, LedgerReplaysToRow
<1> QED BY <1>1, <1>2, <1>3, PTL DEF Spec

\* When requests run one at a time, the status of every sales order is of the
\* stage its reservations and line items put it in: whatever changes either
\* recomputes it, and updateSalesOrder cannot leave the stage.
THEOREM StatusFollowsRows == OneAtATime /\ Spec => []StatusOfItsStage
<1>1. OneAtATime /\ Init => Alone
  BY AloneInit
<1>2. Alone /\ [Next]_vars => Alone'
  BY AloneNext
<1>3. Alone => StatusOfItsStage
  BY DEF Alone, InStep, OrdersOK, StatusOfItsStage, Stage, StageOf
<1> QED BY <1>1, <1>2, <1>3, PTL DEF Spec

\* When requests run one at a time, a reservation that is Cancelled or
\* Fulfilled never changes again.
THEOREM EndedStaysEnded == OneAtATime /\ Spec => ReservationsEndOnce
<1> DEFINE A == \A i \in DOMAIN resv : resv[i].status # "Active" => resv'[i] = resv[i]
<1>1. OneAtATime /\ Init => Alone
  BY AloneInit
<1>2. Alone /\ [Next]_vars => Alone' /\ [A]_vars
  BY AloneNext
<1> QED BY <1>1, <1>2, PTL DEF Spec, ReservationsEndOnce

-----------------------------------------------------------------------------
(* The rows implement the pool *)

FreeOf(b) == IF Exists(b) THEN computeAvailableQty(b, batch[b]) ELSE 0

\* What the pool shows of batch b does not change.
SameShown(b) ==
  /\ Exists(b)' <=> Exists(b)
  /\ batch'[b].stock = "Hold" <=> batch[b].stock = "Hold"
  /\ batch'[b].reserved = batch[b].reserved /\ batch'[b].dispatched = batch[b].dispatched

LEMMA PoolRests ==
  ASSUME \A b \in Batches : SameShown(b), resv' = resv
  PROVE  UNCHANGED Pool!poolVars
<1>1. {b \in Batches : Exists(b)}' = {b \in Batches : Exists(b)}
  BY DEF SameShown
<1>2. {b \in Batches : batch[b].stock = "Hold"}' = {b \in Batches : batch[b].stock = "Hold"}
  BY DEF SameShown
<1>3. [b \in Batches |-> IF Exists(b) THEN computeAvailableQty(b, batch[b]) ELSE 0]'
        = [b \in Batches |-> IF Exists(b) THEN computeAvailableQty(b, batch[b]) ELSE 0]
  BY DEF SameShown, computeAvailableQty
<1>4. [b \in Batches |-> batch[b].dispatched]' = [b \in Batches |-> batch[b].dispatched]
  BY DEF SameShown
<1> QED BY <1>1, <1>2, <1>3, <1>4 DEF Pool!poolVars

LEMMA PoolStarts ==
  ASSUME Init
  PROVE  Pool!PoolInit
<1>1. \A b, s : Total(resv, Claims(resv, b, s)) = 0
  <2>1. \A b, s : Claims(resv, b, s) = {}
    BY DEF Init, Claims, ActiveOn, ActiveFor, Active
  <2> QED BY <2>1, TotalNothing
<1>2. \A b \in Batches : ~Exists(b) /\ batch[b].stock # "Hold" /\ batch[b].dispatched = 0
  BY DEF Init, Exists, NoRow
<1> QED BY <1>1, <1>2 DEF Pool!PoolInit

\* The stock of a batch comes in.
LEMMA PoolReceives ==
  ASSUME Alone, NEW c \in Clients, NEW b \in Batches, NEW l \in Places, generateFgBatch(c, b, l)
  PROVE  Pool!Receive(b)
<1>0. /\ TypeOK /\ BookOK(b, batch[b], resv, ledger[b])
  BY DEF Alone, InStep, BooksOK
<1>1. /\ batch' = [batch EXCEPT ![b] = FreshRow(l)] /\ ~Exists(b) /\ resv' = resv
      /\ DOMAIN batch = Batches /\ batch[b].stock = "Absent"
  BY <1>0 DEF generateFgBatch, TypeOK, Exists
<1>2. /\ batch'[b] = FreshRow(l) /\ \A x \in Batches \ {b} : batch'[x] = batch[x]
  BY <1>1
<1>3. /\ Exists(b)' /\ batch'[b].dispatched = 0 /\ batch[b].dispatched = 0 /\ batch'[b].stock # "Hold"
      /\ batch[b].stock # "Hold" /\ computeAvailableQty(b, batch'[b]) = PassedQty[b]
  <2>1. PassedQty[b] - 0 - 0 = PassedQty[b]
    BY FgAssumption
  <2> QED BY <1>0, <1>1, <1>2, <2>1 DEF FreshRow, Exists, BookOK, computeAvailableQty
<1>4. \A x \in Batches \ {b} : SameShown(x)
  BY <1>2 DEF SameShown, Exists
<1>5. {x \in Batches : Exists(x)}' = {x \in Batches : Exists(x)} \cup {b}
  BY <1>3, <1>4 DEF SameShown
<1>6. {x \in Batches : batch[x].stock = "Hold"}' = {x \in Batches : batch[x].stock = "Hold"}
  BY <1>3, <1>4 DEF SameShown
<1>7. [x \in Batches |-> IF Exists(x) THEN computeAvailableQty(x, batch[x]) ELSE 0]'
      = [[x \in Batches |-> IF Exists(x) THEN computeAvailableQty(x, batch[x]) ELSE 0]
           EXCEPT ![b] = PassedQty[b]]
  BY <1>2, <1>3, <1>4 DEF SameShown
<1>8. [x \in Batches |-> batch[x].dispatched]' = [x \in Batches |-> batch[x].dispatched]
  BY <1>3, <1>4 DEF SameShown
<1> QED BY <1>1, <1>5, <1>6, <1>7, <1>8 DEF Pool!Receive

\* A hold and its release; a transfer is not seen.
LEMMA PoolHolds ==
  ASSUME Alone, NEW c \in Clients,
         transferFgBatch(c) \/ holdFgBatch(c) \/ releaseHoldFgBatch(c)
  PROVE  \/ UNCHANGED Pool!poolVars
         \/ \E b \in Batches : Pool!Hold(b) \/ Pool!Release(b)
<1> DEFINE r == req[c]
           b == r.b
           H == {x \in Batches : batch[x].stock = "Hold"}
           X == {x \in Batches : Exists(x)}
           F == [x \in Batches |-> IF Exists(x) THEN computeAvailableQty(x, batch[x]) ELSE 0]
           S == [x \in Batches |-> batch[x].dispatched]
<1>0. /\ TypeOK /\ RequestSees(c) /\ r.pc = "loaded" /\ b \in Batches /\ resv' = resv
      /\ DOMAIN batch = Batches /\ batch[b] \in BatchRow
  BY DEF Alone, InStep, TypeOK, RequestOK, transferFgBatch, holdFgBatch, releaseHoldFgBatch, At
<1>1. Exists(b)
  BY <1>0 DEF RequestSees
<1>2. ASSUME NEW st, st # "Absent", batch' = [batch EXCEPT ![b].stock = st]
      PROVE  /\ X' = X /\ F' = F /\ S' = S
             /\ batch'[b].stock = st /\ \A x \in Batches \ {b} : batch'[x] = batch[x]
  <2>1. /\ batch'[b] = [batch[b] EXCEPT !.stock = st]
        /\ \A x \in Batches \ {b} : batch'[x] = batch[x]
    BY <1>0, <1>2
  <2> HIDE DEF b
  <2>2. /\ batch'[b].stock = st /\ batch'[b].reserved = batch[b].reserved
        /\ batch'[b].dispatched = batch[b].dispatched
    BY <1>0, <2>1 DEF BatchRow
  <2>3. \A x \in Batches : Exists(x)' <=> Exists(x)
    BY <1>1, <1>2, <2>1, <2>2 DEF Exists
  <2>4. \A x \in Batches : computeAvailableQty(x, batch'[x]) = computeAvailableQty(x, batch[x])
    BY <2>1, <2>2 DEF computeAvailableQty
  <2>5. \A x \in Batches : batch'[x].dispatched = batch[x].dispatched
    BY <2>1, <2>2
  <2> QED BY <2>1, <2>2, <2>3, <2>4, <2>5
<1>3. CASE transferFgBatch(c)
  <2>1. /\ batch'[b] = [batch[b] EXCEPT !.loc = r.loc]
        /\ \A x \in Batches \ {b} : batch'[x] = batch[x]
    BY <1>0, <1>3 DEF transferFgBatch
  <2> HIDE DEF b, r
  <2>2. \A x \in Batches : SameShown(x)
    BY <1>0, <2>1 DEF SameShown, BatchRow, Exists
  <2> QED BY <1>0, <2>2, PoolRests
<1>4. CASE holdFgBatch(c)
  <2>1. batch' = [batch EXCEPT ![b].stock = "Hold"] /\ batch[b].stock # "Hold"
    BY <1>0, <1>4 DEF holdFgBatch, At, RequestSees
  <2>2. /\ X' = X /\ F' = F /\ S' = S /\ batch'[b].stock = "Hold"
        /\ \A x \in Batches \ {b} : batch'[x] = batch[x]
    BY <1>2, <2>1
  <2>3. H' = H \cup {b}
    BY <1>0, <2>2
  <2>4. b \in X \ H
    BY <1>0, <1>1, <2>1
  <2>5. PICK k \in Batches : k = b
    BY <1>0
  <2>6. Pool!Hold(k)
    BY <1>0, <2>2, <2>3, <2>4, <2>5 DEF Pool!Hold
  <2> QED BY <2>6
<1>5. CASE releaseHoldFgBatch(c)
  <2> DEFINE st == StatusAfterHold(r.row)
  <2>1. /\ batch' = [batch EXCEPT ![b].stock = st] /\ batch[b].stock = "Hold"
        /\ st \notin {"Absent", "Hold"}
    BY <1>0, <1>5 DEF releaseHoldFgBatch, At, RequestSees, StatusAfterHold
  <2> HIDE DEF st
  <2>2. /\ X' = X /\ F' = F /\ S' = S /\ batch'[b].stock = st
        /\ \A x \in Batches \ {b} : batch'[x] = batch[x]
    BY <1>2, <2>1
  <2>3. H' = H \ {b} /\ b \in H
    BY <1>0, <2>1, <2>2
  <2>4. PICK k \in Batches : k = b
    BY <1>0
  <2>5. Pool!Release(k)
    BY <1>0, <2>2, <2>3, <2>4 DEF Pool!Release
  <2> QED BY <2>5
<1> QED BY <1>3, <1>4, <1>5

\* A reservation is a claim.
LEMMA PoolClaims ==
  ASSUME Alone, NEW c \in Clients, Commit(c), req[c].op = "reserve"
  PROVE  \E b \in Batches, s \in SalesOrders, q \in 1..MaxQty : Pool!Claim(b, s, q)
<1> DEFINE r == req[c]
<1>a. /\ r.b \in Batches /\ r.so \in SalesOrders /\ r.qty \in 1..MaxQty /\ TypeOK
  <2>1. TypeOK /\ RequestOK(r)
    BY DEF Alone, TypeOK
  <2> QED BY <2>1 DEF RequestOK, Qty
<1>b. PICK b \in Batches, s \in SalesOrders, q \in 1..MaxQty : b = r.b /\ s = r.so /\ q = r.qty
  BY <1>a
<1>0. /\ batch[b] \in BatchRow /\ PassedQty[b] \in Nat /\ MaxQty \in Nat /\ q \in Nat
      /\ batch' = BatchView(c) /\ resv' = ResvView(c)
  BY <1>a, FgAssumption DEF TypeOK, Commit
<1>1. ReserveMoves(c)
  BY TxReserve DEF Commit
<1> DEFINE H == {x \in Batches : batch[x].stock = "Hold"}
           X == {x \in Batches : Exists(x)}
           F == [x \in Batches |-> IF Exists(x) THEN computeAvailableQty(x, batch[x]) ELSE 0]
           S == [x \in Batches |-> batch[x].dispatched]
           C == [x \in Batches |-> [t \in SalesOrders |-> Total(resv, Claims(resv, x, t))]]
<1>2. /\ batch[b].stock \notin {"Absent", "Hold"}
      /\ q <= PassedQty[b] - batch[b].reserved - batch[b].dispatched
      /\ \A x \in Batches :
           /\ batch'[x].reserved = IF x = b THEN batch[x].reserved + q ELSE batch[x].reserved
           /\ batch'[x].dispatched = batch[x].dispatched
           /\ batch'[x].stock = "Absent" <=> batch[x].stock = "Absent"
           /\ batch'[x].stock = "Hold" <=> batch[x].stock = "Hold"
      /\ \A x, t : ClaimOf(resv', x, t) =
           IF x = b /\ t = s THEN ClaimOf(resv, x, t) + q ELSE ClaimOf(resv, x, t)
  BY <1>0, <1>1, <1>b DEF ReserveMoves
<1>3. X' = X /\ H' = H /\ S' = S
  BY <1>2 DEF Exists
<1>4. b \in X \ H /\ q <= F[b]
  BY <1>0, <1>2 DEF Exists, computeAvailableQty
<1>5. F' = [F EXCEPT ![b] = @ - q]
  <2>1. batch[b].reserved \in Int /\ batch[b].dispatched \in Int
    BY <1>0 DEF BatchRow
  <2>2. /\ Exists(b) /\ computeAvailableQty(b, batch'[b]) = computeAvailableQty(b, batch[b]) - q
    BY <1>0, <1>2, <2>1 DEF Exists, computeAvailableQty
  <2>3. \A x \in Batches : Exists(x)' <=> Exists(x)
    BY <1>2 DEF Exists
  <2>4. \A x \in Batches \ {b} : computeAvailableQty(x, batch'[x]) = computeAvailableQty(x, batch[x])
    BY <1>2 DEF computeAvailableQty
  <2> QED BY <2>2, <2>3, <2>4
<1>6. C' = [C EXCEPT ![b][s] = @ + q]
  <2>1. \A x \in Batches, t \in SalesOrders :
          C'[x][t] = IF x = b /\ t = s THEN C[x][t] + q ELSE C[x][t]
    BY <1>2 DEF ClaimOf
  <2> DEFINE E == [C EXCEPT ![b][s] = @ + q]
  <2>2. \A x \in Batches, t \in SalesOrders :
          E[x][t] = IF x = b /\ t = s THEN C[x][t] + q ELSE C[x][t]
    OBVIOUS
  <2>3. \A x \in Batches : C'[x] = E[x]
    BY <2>1, <2>2
  <2> QED BY <2>3
<1>7. Pool!Claim(b, s, q)
  BY <1>3, <1>4, <1>5, <1>6 DEF Pool!Claim
<1> QED BY <1>7

\* A cancellation gives a claim back.
LEMMA PoolGivesBack ==
  ASSUME Alone, NEW c \in Clients, Commit(c), req[c].op = "cancel"
  PROVE  \E b \in Batches, s \in SalesOrders, q \in 1..MaxQty : Pool!GiveBack(b, s, q)
<1> DEFINE r == req[c]
<1>a. /\ r.b \in Batches /\ r.so \in SalesOrders /\ r.qty \in 0..MaxQty /\ TypeOK
  <2>1. TypeOK /\ RequestOK(r)
    BY DEF Alone, TypeOK
  <2> QED BY <2>1 DEF RequestOK, Qty
<1>b. PICK b \in Batches, s \in SalesOrders, q \in 0..MaxQty : b = r.b /\ s = r.so /\ q = r.qty
  BY <1>a
<1>0. /\ batch[b] \in BatchRow /\ PassedQty[b] \in Nat /\ MaxQty \in Nat /\ q \in Nat
      /\ batch' = BatchView(c) /\ resv' = ResvView(c)
  BY <1>a, FgAssumption DEF TypeOK, Commit
<1>1. CancelMoves(c)
  BY TxCancel DEF Commit
<1> DEFINE H == {x \in Batches : batch[x].stock = "Hold"}
           X == {x \in Batches : Exists(x)}
           F == [x \in Batches |-> IF Exists(x) THEN computeAvailableQty(x, batch[x]) ELSE 0]
           S == [x \in Batches |-> batch[x].dispatched]
           C == [x \in Batches |-> [t \in SalesOrders |-> Total(resv, Claims(resv, x, t))]]
<1>2. /\ batch[b].stock # "Absent" /\ q >= 1 /\ q <= ClaimOf(resv, b, s)
      /\ \A x \in Batches :
           /\ batch'[x].reserved = IF x = b THEN batch[x].reserved - q ELSE batch[x].reserved
           /\ batch'[x].dispatched = batch[x].dispatched
           /\ batch'[x].stock = "Absent" <=> batch[x].stock = "Absent"
           /\ batch'[x].stock = "Hold" <=> batch[x].stock = "Hold"
      /\ \A x, t : ClaimOf(resv', x, t) =
           IF x = b /\ t = s THEN ClaimOf(resv, x, t) - q ELSE ClaimOf(resv, x, t)
  BY <1>0, <1>1, <1>b DEF CancelMoves
<1>3. X' = X /\ H' = H /\ S' = S
  BY <1>2 DEF Exists
<1>4. q <= C[b][s] /\ q \in 1..MaxQty
  BY <1>0, <1>2 DEF ClaimOf
<1>5. F' = [F EXCEPT ![b] = @ + q]
  <2>1. batch[b].reserved \in Int /\ batch[b].dispatched \in Int
    BY <1>0 DEF BatchRow
  <2>2. /\ Exists(b) /\ computeAvailableQty(b, batch'[b]) = computeAvailableQty(b, batch[b]) + q
    BY <1>0, <1>2, <1>4, <2>1 DEF Exists, computeAvailableQty
  <2>3. \A x \in Batches : Exists(x)' <=> Exists(x)
    BY <1>2 DEF Exists
  <2>4. \A x \in Batches \ {b} : computeAvailableQty(x, batch'[x]) = computeAvailableQty(x, batch[x])
    BY <1>2 DEF computeAvailableQty
  <2> QED BY <2>2, <2>3, <2>4
<1>6. C' = [C EXCEPT ![b][s] = @ - q]
  <2>1. \A x \in Batches, t \in SalesOrders :
          C'[x][t] = IF x = b /\ t = s THEN C[x][t] - q ELSE C[x][t]
    BY <1>2 DEF ClaimOf
  <2> DEFINE E == [C EXCEPT ![b][s] = @ - q]
  <2>2. \A x \in Batches, t \in SalesOrders :
          E[x][t] = IF x = b /\ t = s THEN C[x][t] - q ELSE C[x][t]
    OBVIOUS
  <2>3. \A x \in Batches : C'[x] = E[x]
    BY <2>1, <2>2
  <2> QED BY <2>3
<1>7. Pool!GiveBack(b, s, q)
  BY <1>3, <1>4, <1>5, <1>6 DEF Pool!GiveBack
<1> QED BY <1>4, <1>7

\* At most MaxLines line items ship at most MaxLines * MaxQty of a batch.
LEMMA ShippedBound ==
  ASSUME NEW x \in Seq(LineItem), Len(x) <= MaxLines, NEW b
  PROVE  Total(x, ItemsFrom(x, b)) \in 0..(MaxLines * MaxQty)
<1> DEFINE T == (1..MaxLines) \X Qty
           U == Units(x, ItemsFrom(x, b))
<1>1. MaxLines \in Nat /\ MaxQty \in Nat /\ Len(x) \in Nat /\ DOMAIN x = 1..Len(x)
  BY FgAssumption
<1>2. ItemsFrom(x, b) \in SUBSET DOMAIN x /\ ItemsFrom(x, b) \subseteq 1..MaxLines
  BY <1>1 DEF ItemsFrom
<1>3. Total(x, ItemsFrom(x, b)) = Cardinality(U) /\ Total(x, ItemsFrom(x, b)) \in Nat
  BY <1>2, PositionsFinite, UnitsFinite
<1>4. U \in SUBSET T
  BY <1>2 DEF Units
<1>5. IsFiniteSet(1..MaxLines) /\ Cardinality(1..MaxLines) = MaxLines
      /\ IsFiniteSet(Qty) /\ Cardinality(Qty) = MaxQty
  <2>1. \A n \in Nat : IsFiniteSet(1..n) /\ Cardinality(1..n) = n
    <3> SUFFICES ASSUME NEW n \in Nat PROVE IsFiniteSet(1..n) /\ Cardinality(1..n) = n
      OBVIOUS
    <3>1. IsFiniteSet(1..n) /\ Cardinality(1..n) = IF 1 > n THEN 0 ELSE n - 1 + 1
      BY FS_Interval
    <3> QED BY <3>1
  <2> QED BY <1>1, <2>1 DEF Qty
<1>6. IsFiniteSet(T) /\ Cardinality(T) = MaxLines * MaxQty
  BY <1>5, FS_Product
<1> HIDE DEF T, U
<1>7. Cardinality(U) <= Cardinality(T)
  BY <1>4, <1>6, FS_Subset
<1>8. MaxLines * MaxQty \in Nat
  BY <1>1
<1> QED BY <1>3, <1>6, <1>7, <1>8

\* What a dispatch leaves of the claims: its own go down by what it draws, those
\* of other orders stay, and an unaffiliated dispatch has none.
LEMMA ShipClaims ==
  ASSUME Alone, NEW c \in Clients, req[c].op = "dispatch", NEW b \in Batches, NEW t \in SalesOrders
  PROVE  /\ ClaimOf(ResvView(c), b, t) =
              IF t = req[c].so THEN ClaimOf(resv, b, t) - MinOf(ShippedBy(req[c], b), ClaimOf(resv, b, t))
              ELSE ClaimOf(resv, b, t)
         /\ ClaimOf(resv, b, NoSO) = 0
<1> DEFINE r == req[c]
           rs == ResvView(c)
<1>0. /\ TypeOK /\ OwnDraws /\ Dispatching(r, BatchView(c), rs, LedgerView(c))
      /\ DOMAIN rs = DOMAIN resv /\ \A i \in DOMAIN resv : resv[i] \in ResvRow
  BY ViewTypes DEF Alone, InStep, RequestSees, TypeOK
<1>1. ClaimOf(resv, b, NoSO) = 0
  <2>1. Claims(resv, b, NoSO) = {}
    <3>1. \A i \in DOMAIN resv : resv[i].so # NoSO
      BY <1>0, FgAssumption DEF ResvRow
    <3> QED BY <3>1 DEF Claims, ActiveOn, ActiveFor, Active
  <2> QED BY <2>1, TotalNothing DEF ClaimOf
<1>2. CASE t = r.so
  BY <1>0, <1>1, <1>2 DEF Dispatching, Draws
<1>3. CASE t # r.so
  <2>1. ASSUME NEW i \in DOMAIN resv
        PROVE  /\ rs[i].so = resv[i].so /\ rs[i].b = resv[i].b
               /\ resv[i].so = t => rs[i] = resv[i]
    <3>1. /\ rs[i] = IF i \in DOMAIN r.wResv THEN r.wResv[i] ELSE resv[i]
          /\ rs[i].so = resv[i].so /\ rs[i].b = resv[i].b
      BY <1>0, OwnView
    <3>2. i \in DOMAIN r.wResv => resv[i].so = r.so
      BY <1>0 DEF Dispatching
    <3> QED BY <1>3, <3>1, <3>2
  <2> HIDE DEF rs
  <2>2. Claims(rs, b, t) = Claims(resv, b, t)
    <3>1. \A i : i \in Claims(rs, b, t) <=> i \in Claims(resv, b, t)
      BY <1>0, <2>1, ClaimsOf
    <3> QED BY <3>1
  <2>3. SameQty(rs, resv, Claims(resv, b, t))
    BY <2>1, ClaimsOf DEF SameQty
  <2>4. Total(rs, Claims(rs, b, t)) = Total(resv, Claims(resv, b, t))
    BY <2>2, <2>3, TotalSame
  <2> QED BY <1>1, <1>3, <2>4 DEF ClaimOf, rs
<1> QED BY <1>2, <1>3

\* A dispatch is a shipment.
LEMMA PoolShips ==
  ASSUME Alone, NEW c \in Clients, Commit(c), req[c].op = "dispatch"
  PROVE  \E s \in SalesOrders \cup {NoSO}, out \in [Batches -> 0..(MaxLines * MaxQty)] :
           Pool!Ship(s, out)
<1> DEFINE r == req[c]
<1>1. /\ TypeOK /\ RequestOK(r) /\ Dispatching(r, BatchView(c), ResvView(c), LedgerView(c))
      /\ batch' = BatchView(c) /\ resv' = ResvView(c)
  BY DEF Alone, InStep, TypeOK, RequestSees, Commit
<1>2. ASSUME NEW b \in Batches PROVE ShippedBy(r, b) \in 0..(MaxLines * MaxQty)
  <2>1. /\ r.wItems \in Seq(LineItem) /\ r.lines \in Seq([b : Batches, qty : Qty])
        /\ Len(r.wItems) + Len(r.lines) <= MaxLines
    BY <1>1 DEF RequestOK, Dispatching
  <2>2. Len(r.wItems) <= MaxLines
    <3> DEFINE x == r.wItems
               y == r.lines
    <3> HIDE DEF x, y
    <3>1. x \in Seq(LineItem) /\ y \in Seq([b : Batches, qty : Qty]) /\ Len(x) + Len(y) <= MaxLines
      BY <2>1 DEF x, y
    <3>2. Len(x) \in Nat /\ Len(y) \in Nat /\ MaxLines \in Nat
      BY <3>1, FgAssumption
    <3> DEFINE k == Len(x)
               n == Len(y)
    <3> HIDE DEF k, n
    <3>3. k \in Nat /\ n \in Nat /\ k + n <= MaxLines
      BY <3>1, <3>2 DEF k, n
    <3>4. k <= MaxLines
      BY <3>2, <3>3
    <3> QED BY <3>4 DEF k, x
  <2> QED BY <2>1, <2>2, ShippedBound DEF ShippedBy
<1>3. PICK s \in SalesOrders \cup {NoSO}, out \in [Batches -> 0..(MaxLines * MaxQty)] :
        s = r.so /\ \A b \in Batches : out[b] = ShippedBy(r, b)
  <2> DEFINE o == [b \in Batches |-> ShippedBy(r, b)]
  <2>1. o \in [Batches -> 0..(MaxLines * MaxQty)] /\ \A b \in Batches : o[b] = ShippedBy(r, b)
    BY <1>2
  <2>2. r.so \in SalesOrders \cup {NoSO}
    BY <1>1 DEF RequestOK
  <2> HIDE DEF o
  <2> QED BY <2>1, <2>2
<1> DEFINE H == {x \in Batches : batch[x].stock = "Hold"}
           X == {x \in Batches : Exists(x)}
           F == [x \in Batches |-> IF Exists(x) THEN computeAvailableQty(x, batch[x]) ELSE 0]
           S == [x \in Batches |-> batch[x].dispatched]
           C == [x \in Batches |-> [t \in SalesOrders |-> Total(resv, Claims(resv, x, t))]]
           from(x) == MinOf(out[x], ClaimOf(resv, x, s))
<1>4. ASSUME NEW b \in Batches
      PROVE  /\ out[b] \in Nat /\ ClaimOf(resv, b, s) \in Nat /\ from(b) \in Nat
             /\ from(b) <= out[b] /\ (out[b] = 0 => from(b) = 0)
             /\ batch[b].reserved \in Int /\ batch[b].dispatched \in Int /\ PassedQty[b] \in Nat
             /\ batch'[b].dispatched = batch[b].dispatched + out[b]
             /\ batch'[b].reserved = batch[b].reserved - from(b)
             /\ out[b] > 0 => batch[b].stock \notin {"Absent", "Hold"}
             /\ batch'[b].stock = "Absent" <=> batch[b].stock = "Absent"
             /\ batch'[b].stock = "Hold" <=> batch[b].stock = "Hold"
             /\ batch'[b].stock # "Absent" => batch'[b].reserved + batch'[b].dispatched <= PassedQty[b]
  <2>1. Draws(r, b, batch'[b], resv') /\ BookOK(b, batch'[b], resv', LedgerView(c)[b])
    BY <1>1 DEF Dispatching, BooksOK
  <2>2. out[b] \in Nat /\ out[b] = ShippedBy(r, b) /\ s = r.so
    BY <1>3, FgAssumption
  <2>3. ClaimOf(resv, b, s) \in Nat
    BY <1>1, SumsTypes DEF TypeOK
  <2>4. from(b) \in Nat /\ from(b) <= out[b] /\ (out[b] = 0 => from(b) = 0)
    <3> DEFINE h == ClaimOf(resv, b, s)
               n == out[b]
    <3> HIDE DEF h, n
    <3> QED BY <2>2, <2>3 DEF MinOf, h, n
  <2>5. batch[b].reserved \in Int /\ batch[b].dispatched \in Int /\ PassedQty[b] \in Nat
    BY <1>1, RowWrites, FgAssumption
  <2> QED BY <2>1, <2>2, <2>3, <2>4, <2>5 DEF Draws, BookOK
<1>5. \A x \in Batches : Pool!FromClaim(x, s, out[x]) = from(x)
  <2> SUFFICES ASSUME NEW x \in Batches PROVE Pool!FromClaim(x, s, out[x]) = from(x)
    OBVIOUS
  <2>1. CASE s = NoSO
    <3>1. ClaimOf(resv, x, s) = 0
      <4>1. CASE SalesOrders = {}
        <5>1. \A i \in DOMAIN resv : FALSE
          BY <1>1, <4>1 DEF TypeOK, ResvRow
        <5>2. Claims(resv, x, s) = {}
          BY <5>1 DEF Claims, ActiveOn, ActiveFor, Active
        <5> QED BY <5>2, TotalNothing DEF ClaimOf
      <4>2. CASE SalesOrders # {}
        BY <2>1, <4>2, ShipClaims
      <4> QED BY <4>1, <4>2
    <3>2. from(x) = 0
      BY <1>4, <3>1 DEF MinOf
    <3> QED BY <2>1, <3>2 DEF Pool!FromClaim
  <2>2. CASE s # NoSO
    <3>1. s \in SalesOrders
      BY <2>2
    <3>2. C[x][s] = ClaimOf(resv, x, s)
      BY <3>1 DEF ClaimOf
    <3> QED BY <2>2, <3>2 DEF Pool!FromClaim, MinOf
  <2> QED BY <2>1, <2>2
<1>6. X' = X /\ H' = H
  BY <1>4 DEF Exists
<1>7. S' = [x \in Batches |-> S[x] + out[x]]
  BY <1>4
<1>8. ASSUME NEW b \in Batches
      PROVE  /\ F'[b] = F[b] - (out[b] - from(b))
             /\ out[b] > 0 => b \in X \ H /\ out[b] <= F[b] + from(b)
  <2> DEFINE R == batch[b].reserved
             D == batch[b].dispatched
             P == PassedQty[b]
             n == out[b]
             m == from(b)
  <2>1. /\ n \in Nat /\ m \in Nat /\ R \in Int /\ D \in Int /\ P \in Nat
        /\ batch'[b].dispatched = D + n /\ batch'[b].reserved = R - m
        /\ n = 0 => m = 0
        /\ Exists(b)' <=> Exists(b)
        /\ Exists(b) => batch'[b].reserved + batch'[b].dispatched <= P
        /\ n > 0 => batch[b].stock \notin {"Absent", "Hold"}
    BY <1>4 DEF Exists
  <2>2. /\ F[b] = IF Exists(b) THEN P - R - D ELSE 0
        /\ F'[b] = IF Exists(b)' THEN P - batch'[b].reserved - batch'[b].dispatched ELSE 0
    BY DEF computeAvailableQty
  <2>3. ~Exists(b) => n = 0
    BY <2>1 DEF Exists
  <2> HIDE DEF R, D, P, n, m, F
  <2>4. F'[b] = F[b] - (n - m)
    BY <2>1, <2>2, <2>3
  <2>5. n > 0 => n <= F[b] + m
    BY <2>1, <2>2, <2>3
  <2>6. n > 0 => b \in X \ H
    BY <2>1 DEF Exists
  <2> QED BY <2>4, <2>5, <2>6 DEF n, m
<1>9. F' = [x \in Batches |-> F[x] - (out[x] - from(x))]
  BY <1>8
<1>10. C' = [x \in Batches |-> [t \in SalesOrders |-> IF t = s THEN C[x][t] - from(x) ELSE C[x][t]]]
  <2>1. ASSUME NEW x \in Batches, NEW t \in SalesOrders
        PROVE  ClaimOf(resv', x, t) = IF t = s THEN ClaimOf(resv, x, t) - from(x) ELSE ClaimOf(resv, x, t)
    BY <1>1, <1>3, ShipClaims
  <2> QED BY <2>1 DEF ClaimOf
<1>11. Pool!Ship(s, out)
  <2> HIDE DEF from
  <2> QED BY <1>5, <1>6, <1>7, <1>8, <1>9, <1>10 DEF Pool!Ship
<1> QED BY <1>11

LEMMA PoolNextStep ==
  ASSUME Alone, [Next]_vars
  PROVE  [Pool!PoolNext]_(Pool!poolVars)
<1>1. CASE UNCHANGED <<batch, resv>>
  <2>1. \A b \in Batches : SameShown(b)
    BY <1>1 DEF SameShown, Exists
  <2> QED BY <1>1, <2>1, PoolRests
<1>2. ASSUME NEW c \in Clients, Request(c), ~UNCHANGED <<batch, resv>>
      PROVE  \E b \in Batches : Pool!Receive(b)
  <2>1. PICK b \in Batches, l \in Places : generateFgBatch(c, b, l)
    BY <1>2 DEF Request, createSalesOrder, updateSalesOrder, deleteSalesOrder, transferLoad, holdLoad,
       releaseLoad, reserveLoad, Load, cancelLoad, createDispatch
  <2>2. Pool!Receive(b)
    BY <2>1, PoolReceives
  <2> QED BY <2>2
<1>3. ASSUME NEW c \in Clients, Advance(c), ~UNCHANGED <<batch, resv>>
      PROVE  [Pool!PoolNext]_(Pool!poolVars)
  <2>1. CASE Commit(c)
    <3>1. req[c].op \in {"reserve", "cancel", "dispatch"}
      BY <2>1 DEF Alone, InStep, RequestSees, Commit
    <3>2. CASE req[c].op = "reserve"
      BY <2>1, <3>2, PoolClaims DEF Pool!PoolNext
    <3>3. CASE req[c].op = "cancel"
      BY <2>1, <3>3, PoolGivesBack DEF Pool!PoolNext
    <3>4. CASE req[c].op = "dispatch"
      BY <2>1, <3>4, PoolShips DEF Pool!PoolNext
    <3> QED BY <3>1, <3>2, <3>3, <3>4
  <2>2. CASE transferFgBatch(c) \/ holdFgBatch(c) \/ releaseHoldFgBatch(c)
    BY <2>2, PoolHolds DEF Pool!PoolNext
  <2>3. Commit(c) \/ transferFgBatch(c) \/ holdFgBatch(c) \/ releaseHoldFgBatch(c)
    BY <1>3 DEF Advance, reserveFgBatch, cancelReadBatch, cancelReservation, lineReadBatch,
       lineReadClaims, processDispatchLineItem, dispatchRecompute, Rollback
  <2> QED BY <2>1, <2>2, <2>3
<1>4. UNCHANGED vars => UNCHANGED <<batch, resv>>
  BY DEF vars
<1> QED BY <1>1, <1>2, <1>3, <1>4 DEF Next, Pool!PoolNext

\* When requests run one at a time, the finished-goods handlers implement the
\* pool: a commit of theirs claims free stock, gives a claim back or ships out
\* of the order's own claim first, and nothing else they do moves stock.
THEOREM ServesPool == OneAtATime /\ Spec => ImplementsPool
<1>1. OneAtATime /\ Init => Alone /\ Pool!PoolInit
  BY AloneInit, PoolStarts
<1>2. Alone /\ [Next]_vars => Alone' /\ [Pool!PoolNext]_(Pool!poolVars)
  BY AloneNext, PoolNextStep
<1> QED BY <1>1, <1>2, PTL DEF Spec, ImplementsPool, Pool!PoolSpec

=============================================================================
