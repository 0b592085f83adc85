--------------------------- MODULE PoReceiptProofs ---------------------------
(* Theorems about PoReceipt, for any orders, lines, quantities and clients. *)
EXTENDS PoReceipt, TLAPS, FiniteSetTheorems

PoRow == [status : Status, heldFrom : Status, total : Nat]
LineRow == [ordered : Nat, received : Nat, accepted : Nat, rejected : Nat]
GrnRow == [line : PoLines, qty : Qty, excess : BOOLEAN,
           qc : {"Pending", "NotRequired", "Hold", "Pass", "Fail"}, accepted : Nat, rejected : Nat]
Receipt == [line : PoLines, qty : Qty, qc : BOOLEAN, excess : BOOLEAN]

\* The rows a transaction has written.
Written(X, R) == UNION {[d -> R] : d \in SUBSET X}

RequestRow ==
  [op : {"none", "status", "amend", "grn", "inspect", "adjust"},
   pc : {"idle", "loaded", "line", "stock", "tx"}, po : Orders, row : PoRow, to : Status,
   line : PoLines, qty : Nat, receipts : Seq(Receipt), grnLine : Nat, passed : Nat, held : Nat,
   rejected : Nat, item : Items, delta : Int, seen : Int, total : Nat,
   wLine : Written(PoLines, LineRow), wStock : Written(Items, Int), wMoves : Written(Items, Int),
   wGrn : Seq(GrnRow)]

RowsType ==
  /\ po \in [Orders -> PoRow] /\ line \in [PoLines -> LineRow] /\ grn \in Seq(GrnRow)
  /\ stock \in [Items -> Int] /\ moves \in [Items -> Int]

\* The operations a request can be in at each of its stages, and what it has written.
RequestOK(r) ==
  /\ r \in RequestRow
  /\ r.pc = "idle" <=> r.op = "none"
  /\ r.pc = "line" => r.op \in {"amend", "grn"}
  /\ r.pc = "tx" => r.op \in {"amend", "grn"}
  /\ r.op = "grn" /\ r.pc = "stock" => r.receipts # << >>
  /\ r.op # "grn" => r.wGrn = << >> /\ DOMAIN r.wStock = {} /\ DOMAIN r.wMoves = {}

TypeInv ==
  /\ RowsType
  /\ IsFiniteSet(InFlight) /\ InFlight \subseteq Clients
  /\ req \in [InFlight -> RequestRow]
  /\ \A c \in InFlight : RequestOK(req[c])
  /\ \A c \in InFlight : req[c].op = "inspect" => req[c].grnLine \in DOMAIN grn

\* What a line owes to the GRN line c is about to commit for it.
Owes(r, l) == \E k \in DOMAIN r.wGrn :
  /\ r.wGrn[k].line = l /\ r.wGrn[k].excess = IsExcess(l, r.wGrn[k].qty)
  /\ r.wLine[l].received = line[l].received + r.wGrn[k].qty

\* What a receipt that nobody disturbs knows: it is about lines of one order,
\* each once, and excess is still excess.
GrnKnows(r) ==
  /\ r.pc \in {"line", "stock", "tx"} /\ po[r.po].status \in RECEIVABLE_PO_STATUSES
  /\ \A k \in DOMAIN r.receipts : LET x == r.receipts[k] IN
       /\ PoOf[x.line] = r.po /\ x.excess = IsExcess(x.line, x.qty) /\ x.line \notin DOMAIN r.wLine
       /\ \A j \in DOMAIN r.receipts : r.receipts[j].line = x.line => j = k
  /\ \A l \in DOMAIN r.wLine :
       PoOf[l] = r.po /\ r.wLine[l].ordered = line[l].ordered /\ Owes(r, l)
  /\ r.receipts = << >> => DOMAIN r.wLine # {}
  /\ r.pc = "tx" =>
       /\ r.receipts = << >> /\ r.row = po[r.po]
       /\ r.to = recomputePoReceiptStatus(r.po, r.row.status, Over(line, r.wLine))

\* An amendment changes what is ordered and nothing else.
AmendKnows(r) ==
  /\ PoOf[r.line] = r.po /\ po[r.po].status \notin TERMINAL_STATUSES \cup {"Absent"}
  /\ \A l \in DOMAIN r.wLine : PoOf[l] = r.po /\ r.wLine[l].received = line[l].received

Knows(r) ==
  /\ r.op = "status" => r.row = po[r.po] /\ r.to \in getAllowedNextStatuses(r.row)
                        /\ r.row.status # "Absent"
  /\ r.op = "amend" => AmendKnows(r)
  /\ r.op = "grn" => GrnKnows(r)

\* With one request at a time: its request, the status of its receipts, and an
\* order on hold remembers a status a client may have held it in.
Early == {"Absent", "Draft", "PendingApproval", "Approved", "SentToSupplier", "SupplierConfirmed"}

StatusTrue(row, p) ==
  /\ row.status = "OnHold" => row.heldFrom \in Flow \ {"FullyReceived"}
  /\ Position(row) \in Early => \A l \in LinesOf(p) : line[l].received = 0
  /\ Position(row) = "PartiallyReceived" => \E l \in LinesOf(p) : line[l].received > 0
  /\ Position(row) = "FullyReceived" => EverythingReceived(p)

AloneInv == Alone =>
  /\ \A c \in InFlight : Knows(req[c])
  /\ \A p \in Orders : StatusTrue(po[p], p)

\* The same for the stock: what a lone request read is still true, and what it
\* has written keeps stock and ledger together.
StockKnows(r) ==
  /\ \A it \in Items : Over(stock, r.wStock)[it] = Over(moves, r.wMoves)[it]
  /\ r.op = "adjust" => r.seen = stock[r.item]
  /\ r.op = "grn" /\ r.pc = "stock" =>
       r.seen = Over(stock, r.wStock)[ItemOf[Head(r.receipts).line]]
  /\ r.op = "inspect" /\ r.pc = "stock" => r.seen = stock[ItemOf[grn[r.grnLine].line]]

StockInv == Alone =>
  /\ \A c \in InFlight : StockKnows(req[c])
  /\ \A it \in Items : stock[it] = moves[it]

Inv == TypeInv /\ AloneInv /\ StockInv

-----------------------------------------------------------------------------
(* Rows *)

\* Writing a partial function over the rows keeps their type.
LEMMA OverType ==
  ASSUME NEW X, NEW R, NEW f \in [X -> R], NEW w \in Written(X, R)
  PROVE  /\ Over(f, w) \in [X -> R]
         /\ \A x \in X : Over(f, w)[x] = IF x \in DOMAIN w THEN w[x] ELSE f[x]
         /\ DOMAIN w \subseteq X /\ \A x \in DOMAIN w : w[x] \in R
<1>1. PICK d \in SUBSET X : w \in [d -> R]
  BY DEF Written
<1> QED BY <1>1 DEF Over

LEMMA PutLine ==
  ASSUME NEW w \in Written(PoLines, LineRow), NEW k \in PoLines, NEW v \in LineRow
  PROVE  /\ Put(w, k, v) \in Written(PoLines, LineRow) /\ DOMAIN Put(w, k, v) = DOMAIN w \cup {k}
         /\ Put(w, k, v)[k] = v /\ \A x \in DOMAIN w : x # k => Put(w, k, v)[x] = w[x]
<1>1. PICK d \in SUBSET PoLines : w \in [d -> LineRow]
  BY DEF Written
<1>2. Put(w, k, v) \in [d \cup {k} -> LineRow] /\ d \cup {k} \in SUBSET PoLines
  BY <1>1 DEF Put
<1>3. Put(w, k, v) \in Written(PoLines, LineRow)
  BY <1>2 DEF Written
<1> QED BY <1>1, <1>3 DEF Put

LEMMA PutStock ==
  ASSUME NEW w \in Written(Items, Int), NEW k \in Items, NEW v \in Int
  PROVE  /\ Put(w, k, v) \in Written(Items, Int) /\ DOMAIN Put(w, k, v) = DOMAIN w \cup {k}
         /\ Put(w, k, v)[k] = v /\ \A x \in DOMAIN w : x # k => Put(w, k, v)[x] = w[x]
<1>1. PICK d \in SUBSET Items : w \in [d -> Int]
  BY DEF Written
<1>2. Put(w, k, v) \in [d \cup {k} -> Int] /\ d \cup {k} \in SUBSET Items
  BY <1>1 DEF Put
<1>3. Put(w, k, v) \in Written(Items, Int)
  BY <1>2 DEF Written
<1> QED BY <1>1, <1>3 DEF Put

LEMMA NoWriteType ==
  ASSUME NEW X, NEW R
  PROVE  NoWrite \in Written(X, R) /\ DOMAIN NoWrite = {}
<1>1. NoWrite \in [{} -> R] /\ {} \in SUBSET X
  BY DEF NoWrite
<1> QED BY <1>1 DEF Written, NoWrite

LEMMA TotalType ==
  ASSUME NEW f, NEW ids, IsFiniteSet(ids)
  PROVE  Total(f, ids) \in Nat
<1>1. IsFiniteSet(1..MaxOrdered)
  BY FS_Interval, PoAssumption
<1>2. IsFiniteSet(ids \X (1..MaxOrdered))
  BY <1>1, FS_Product
<1>3. IsFiniteSet({u \in ids \X (1..MaxOrdered) : u[2] <= f[u[1]]})
  BY <1>2, FS_Subset
<1> QED BY <1>3, FS_CardinalityType DEF Total

LEMMA OrderTotalType ==
  ASSUME NEW p, NEW ls
  PROVE  OrderTotal(p, ls) \in Nat
<1>1. IsFiniteSet(LinesOf(p))
  BY FS_Subset, PoAssumption DEF LinesOf
<1> QED BY <1>1, TotalType DEF OrderTotal

LEMMA FlowIs ==
  Flow = {"Draft", "PendingApproval", "Approved", "SentToSupplier", "SupplierConfirmed",
          "PartiallyReceived", "FullyReceived"}
<1>1. DOMAIN STATUS_FLOW = {1, 2, 3, 4, 5, 6, 7}
  BY DEF STATUS_FLOW
<1> QED BY <1>1 DEF Flow, STATUS_FLOW

\* The bounds of an instance with a request in flight.
LEMMA LimitType ==
  ASSUME TypeInv, NEW c \in InFlight
  PROVE  /\ Limit.orders \subseteq Orders /\ Limit.ordered \subseteq Nat
         /\ Limit.grnLines \in Nat /\ Limit.perGrn \in Nat /\ Limit.stock \in Nat
<1>1. Cardinality(InFlight) \in Nat /\ Cardinality(InFlight) # 0
  BY FS_CardinalityType, FS_EmptySet DEF TypeInv
<1>2. Cardinality(InFlight) <= Cardinality(Clients)
  BY FS_Subset, PoAssumption DEF TypeInv
<1>3. Cardinality(Clients) \in Nat
  BY FS_CardinalityType, PoAssumption
<1>4. Cardinality(InFlight) \in 1..Len(Limits)
  BY <1>1, <1>2, <1>3, PoAssumption
<1> DEFINE L == [orders : SUBSET Orders, ordered : SUBSET (1..MaxOrdered), grnLines : Nat,
                 perGrn : Nat, stock : Nat]
<1>5. Limits \in Seq(L) /\ MaxOrdered \in Nat
  BY PoAssumption
<1>6. Limit \in L
  <2> HIDE DEF L
  <2> QED BY <1>4, <1>5 DEF Limit
<1> QED BY <1>5, <1>6

-----------------------------------------------------------------------------
(* Type correctness *)

LEMMA IdleType == RequestOK(Idle) /\ Idle.op = "none"
<1>1. /\ (CHOOSE p \in Orders : TRUE) \in Orders /\ (CHOOSE l \in PoLines : TRUE) \in PoLines
      /\ (CHOOSE it \in Items : TRUE) \in Items
  BY PoAssumption
<1>2. /\ NoWrite \in Written(PoLines, LineRow) /\ NoWrite \in Written(Items, Int)
      /\ DOMAIN NoWrite = {}
  BY NoWriteType
<1>3. NoPo \in PoRow
  BY DEF NoPo, PoRow, Status
<1>4. Idle \in RequestRow
  <2> HIDE DEF NoPo, PoRow, NoWrite, Written
  <2> QED BY <1>1, <1>2, <1>3 DEF Idle, RequestRow, Status
<1> QED BY <1>2, <1>4 DEF RequestOK, Idle

LEMMA InitType == Init => TypeInv
<1> SUFFICES ASSUME Init PROVE TypeInv
  OBVIOUS
<1>1. RowsType
  BY DEF Init, RowsType, NoPo, PoRow, Status, LineRow
<1>2. PICK cs \in (SUBSET Clients) \ {{}} : req = [c \in cs |-> Idle]
  BY DEF Init
<1>3. IsFiniteSet(cs)
  BY PoAssumption, FS_Subset
<1>4. InFlight = cs /\ \A c \in cs : req[c] = Idle
  BY <1>2 DEF InFlight
<1>5. /\ req \in [InFlight -> RequestRow]
      /\ \A c \in InFlight : RequestOK(req[c]) /\ req[c].op # "inspect"
  BY <1>2, <1>4, IdleType DEF RequestOK
<1> QED BY <1>1, <1>3, <1>4, <1>5 DEF TypeInv

LEMMA StepType ==
  ASSUME TypeInv, NEW c \in InFlight, NEW r, RequestOK(r), req' = [req EXCEPT ![c] = r], RowsType',
         DOMAIN grn \subseteq DOMAIN grn', r.op = "inspect" => r.grnLine \in DOMAIN grn
  PROVE  TypeInv'
<1>1. InFlight' = InFlight
  BY DEF TypeInv, InFlight
<1>2. r \in RequestRow
  BY DEF RequestOK
<1>3. req' \in [InFlight -> RequestRow]
  BY <1>2 DEF TypeInv
<1>4. \A d \in InFlight : req'[d] = IF d = c THEN r ELSE req[d]
  BY DEF TypeInv
<1>5. \A d \in InFlight : /\ RequestOK(req'[d])
                          /\ req'[d].op = "inspect" => req'[d].grnLine \in DOMAIN grn'
  BY <1>4 DEF TypeInv
<1> QED BY <1>1, <1>3, <1>5 DEF TypeInv, RequestOK

LEMMA RowsKept ==
  ASSUME TypeInv, UNCHANGED <<po, line, grn, stock, moves>>
  PROVE  RowsType'
BY DEF TypeInv, RowsType

LEMMA DoneType ==
  ASSUME TypeInv, NEW c \in InFlight, Done(c), RowsType', DOMAIN grn \subseteq DOMAIN grn'
  PROVE  TypeInv'
BY StepType, IdleType DEF Done

\* A new request that has written nothing.
LEMMA StartType ==
  ASSUME TypeInv, NEW c \in InFlight, NEW r, Start(c, r), r \in RequestRow,
         r.pc # "idle", r.op # "none", r.pc = "line" => r.op \in {"amend", "grn"},
         r.pc \notin {"tx", "stock"},
         r.wGrn = << >>, r.wStock = NoWrite, r.wMoves = NoWrite,
         r.op = "inspect" => r.grnLine \in DOMAIN grn,
         UNCHANGED <<po, line, grn, stock, moves>>
  PROVE  TypeInv'
<1>1. DOMAIN NoWrite = {}
  BY DEF NoWrite
<1>2. RequestOK(r)
  BY <1>1 DEF RequestOK
<1>3. RowsType' /\ req' = [req EXCEPT ![c] = r]
  BY RowsKept DEF Start
<1> QED BY <1>2, <1>3, StepType

\* What the fields of a request that is not running hold.
LEMMA IdleFields ==
  /\ Idle \in RequestRow /\ Idle.wLine = NoWrite /\ Idle.wStock = NoWrite
  /\ Idle.wMoves = NoWrite /\ Idle.wGrn = << >>
BY IdleType DEF RequestOK, Idle

LEMMA ReceiptsType ==
  ASSUME TypeInv, NEW c \in InFlight, NEW p \in Orders, NEW receipts \in Receipts(p)
  PROVE  receipts \in Seq(Receipt) /\ receipts # << >>
<1>1. PICK n \in 1..Limit.perGrn :
        receipts \in [1..n -> [line : LinesOf(p), qty : Qty, qc : BOOLEAN, excess : BOOLEAN]]
  BY DEF Receipts
<1>2. n \in Nat /\ n >= 1
  BY LimitType
<1>3. receipts \in [1..n -> Receipt]
  <2>1. [line : LinesOf(p), qty : Qty, qc : BOOLEAN, excess : BOOLEAN] \subseteq Receipt
    BY DEF Receipt, LinesOf
  <2> QED BY <1>1, <2>1
<1> QED BY <1>2, <1>3

LEMMA RequestType ==
  ASSUME TypeInv, NEW c \in InFlight, Request(c)
  PROVE  TypeInv'
<1>1. ASSUME NEW p \in Orders, NEW qty \in [LinesOf(p) -> Limit.ordered],
             createPurchaseOrder(c, p, qty)
      PROVE  TypeInv'
  <2>1. \A l \in LinesOf(p) : qty[l] \in Nat
    BY LimitType
  <2>2. line' \in [PoLines -> LineRow]
    BY <1>1, <2>1 DEF createPurchaseOrder, TypeInv, RowsType, LineRow
  <2> DEFINE total == OrderTotal(p, line')
  <2>3. total \in Nat
    BY OrderTotalType
  <2> HIDE DEF total
  <2>4. po' = [po EXCEPT ![p].status = "Draft", ![p].total = total]
    BY <1>1 DEF createPurchaseOrder, total
  <2>5. po' \in [Orders -> PoRow]
    BY <2>3, <2>4, FlowIs DEF TypeInv, RowsType, PoRow, Status
  <2>6. UNCHANGED <<grn, stock, moves, req>>
    BY <1>1 DEF createPurchaseOrder
  <2> QED BY <2>2, <2>5, <2>6 DEF TypeInv, RowsType, InFlight
<1>2. ASSUME NEW p \in Orders, NEW to \in Status, statusLoad(c, p, to)
      PROVE  TypeInv'
  <2> DEFINE r == [Idle EXCEPT !.op = "status", !.pc = "loaded", !.po = p, !.row = po[p], !.to = to]
  <2>1. po[p] \in PoRow
    BY DEF TypeInv, RowsType
  <2>2. /\ r \in RequestRow /\ r.pc = "loaded" /\ r.op = "status"
        /\ r.wGrn = << >> /\ r.wStock = NoWrite /\ r.wMoves = NoWrite
    BY <2>1, IdleFields DEF RequestRow
  <2>3. Start(c, r) /\ UNCHANGED <<po, line, grn, stock, moves>>
    BY <1>2 DEF statusLoad
  <2> HIDE DEF r
  <2> QED BY <2>2, <2>3, StartType
<1>3. ASSUME NEW l \in PoLines, NEW q \in Limit.ordered, amendLoad(c, l, q)
      PROVE  TypeInv'
  <2> DEFINE r == [Idle EXCEPT !.op = "amend", !.pc = "loaded", !.po = PoOf[l],
                               !.row = po[PoOf[l]], !.line = l, !.qty = q]
  <2>1. PoOf[l] \in Orders /\ po[PoOf[l]] \in PoRow /\ q \in Nat
    BY PoAssumption, LimitType DEF TypeInv, RowsType
  <2>2. /\ r \in RequestRow /\ r.pc = "loaded" /\ r.op = "amend"
        /\ r.wGrn = << >> /\ r.wStock = NoWrite /\ r.wMoves = NoWrite
    BY <2>1, IdleFields DEF RequestRow
  <2>3. Start(c, r) /\ UNCHANGED <<po, line, grn, stock, moves>>
    BY <1>3 DEF amendLoad
  <2> HIDE DEF r
  <2> QED BY <2>2, <2>3, StartType
<1>4. ASSUME NEW p \in Orders, NEW receipts \in Receipts(p), grnLoad(c, p, receipts)
      PROVE  TypeInv'
  <2> DEFINE r == [Idle EXCEPT !.op = "grn", !.pc = "line", !.po = p, !.receipts = receipts]
  <2>1. receipts \in Seq(Receipt)
    BY ReceiptsType
  <2>2. /\ r \in RequestRow /\ r.pc = "line" /\ r.op = "grn"
        /\ r.wGrn = << >> /\ r.wStock = NoWrite /\ r.wMoves = NoWrite
    BY <2>1, IdleFields DEF RequestRow
  <2>3. Start(c, r) /\ UNCHANGED <<po, line, grn, stock, moves>>
    BY <1>4 DEF grnLoad
  <2> HIDE DEF r
  <2> QED BY <2>2, <2>3, StartType
<1>5. ASSUME NEW i \in DOMAIN grn, NEW passed \in 0..MaxQty, NEW held \in 0..MaxQty,
             NEW rejected \in 0..MaxQty, inspectLoad(c, i, passed, held, rejected)
      PROVE  TypeInv'
  <2> DEFINE r == [Idle EXCEPT !.op = "inspect", !.pc = "loaded", !.grnLine = i,
                               !.passed = passed, !.held = held, !.rejected = rejected]
  <2>1. i \in Nat /\ passed \in Nat /\ held \in Nat /\ rejected \in Nat
    BY PoAssumption DEF TypeInv, RowsType
  <2>2. /\ r \in RequestRow /\ r.pc = "loaded" /\ r.op = "inspect" /\ r.grnLine \in DOMAIN grn
        /\ r.wGrn = << >> /\ r.wStock = NoWrite /\ r.wMoves = NoWrite
    BY <2>1, IdleFields DEF RequestRow
  <2>3. Start(c, r) /\ UNCHANGED <<po, line, grn, stock, moves>>
    BY <1>5 DEF inspectLoad
  <2> HIDE DEF r
  <2> QED BY <2>2, <2>3, StartType
<1>6. ASSUME NEW it \in RawMaterials, NEW delta \in {-1, 1}, adjustLoad(c, it, delta)
      PROVE  TypeInv'
  <2> DEFINE r == [Idle EXCEPT !.op = "adjust", !.pc = "loaded", !.item = it, !.delta = delta,
                               !.seen = stock[it]]
  <2>1. it \in Items /\ delta \in Int /\ stock[it] \in Int
    BY PoAssumption DEF TypeInv, RowsType
  <2>2. /\ r \in RequestRow /\ r.pc = "loaded" /\ r.op = "adjust"
        /\ r.wGrn = << >> /\ r.wStock = NoWrite /\ r.wMoves = NoWrite
    BY <2>1, IdleFields DEF RequestRow
  <2>3. Start(c, r) /\ UNCHANGED <<po, line, grn, stock, moves>>
    BY <1>6 DEF adjustLoad
  <2> HIDE DEF r
  <2> QED BY <2>2, <2>3, StartType
<1> QED BY <1>1, <1>2, <1>3, <1>4, <1>5, <1>6 DEF Request

\* What the fields of a request hold, and what its transaction reads.
LEMMA Fields ==
  ASSUME TypeInv, NEW c \in InFlight
  PROVE  /\ req[c] \in RequestRow /\ RequestOK(req[c])
         /\ req[c].po \in Orders /\ req[c].row \in PoRow /\ req[c].to \in Status
         /\ req[c].line \in PoLines /\ req[c].qty \in Nat /\ req[c].receipts \in Seq(Receipt)
         /\ req[c].passed \in Nat /\ req[c].rejected \in Nat /\ req[c].item \in Items
         /\ req[c].delta \in Int /\ req[c].seen \in Int /\ req[c].total \in Nat
         /\ req[c].wGrn \in Seq(GrnRow) /\ req[c].wLine \in Written(PoLines, LineRow)
         /\ req[c].wStock \in Written(Items, Int) /\ req[c].wMoves \in Written(Items, Int)
<1>1. req[c] \in RequestRow /\ RequestOK(req[c])
  BY DEF TypeInv
<1> HIDE DEF RequestOK
<1> QED BY <1>1 DEF RequestRow

LEMMA Views ==
  ASSUME TypeInv, NEW c \in InFlight
  PROVE  /\ LineView(c) \in [PoLines -> LineRow] /\ StockView(c) \in [Items -> Int]
         /\ MovesView(c) \in [Items -> Int]
         /\ \A l \in PoLines :
              LineView(c)[l] = IF l \in DOMAIN req[c].wLine THEN req[c].wLine[l] ELSE line[l]
         /\ \A it \in Items :
              /\ StockView(c)[it] = IF it \in DOMAIN req[c].wStock THEN req[c].wStock[it] ELSE stock[it]
              /\ MovesView(c)[it] = IF it \in DOMAIN req[c].wMoves THEN req[c].wMoves[it] ELSE moves[it]
<1>1. line \in [PoLines -> LineRow] /\ stock \in [Items -> Int] /\ moves \in [Items -> Int]
  BY DEF TypeInv, RowsType
<1>2. /\ req[c].wLine \in Written(PoLines, LineRow)
      /\ req[c].wStock \in Written(Items, Int) /\ req[c].wMoves \in Written(Items, Int)
  BY Fields
<1>3. /\ LineView(c) \in [PoLines -> LineRow]
      /\ \A l \in PoLines :
           LineView(c)[l] = IF l \in DOMAIN req[c].wLine THEN req[c].wLine[l] ELSE line[l]
  BY <1>1, <1>2, OverType DEF LineView
<1>4. /\ StockView(c) \in [Items -> Int]
      /\ \A it \in Items :
           StockView(c)[it] = IF it \in DOMAIN req[c].wStock THEN req[c].wStock[it] ELSE stock[it]
  BY <1>1, <1>2, OverType DEF StockView
<1>5. /\ MovesView(c) \in [Items -> Int]
      /\ \A it \in Items :
           MovesView(c)[it] = IF it \in DOMAIN req[c].wMoves THEN req[c].wMoves[it] ELSE moves[it]
  BY <1>1, <1>2, OverType DEF MovesView
<1> QED BY <1>3, <1>4, <1>5

\* The steps of a transaction that do not commit: what they make of the request.
LEMMA AmendLine ==
  ASSUME TypeInv, NEW c \in InFlight, amendLine(c)
  PROVE  /\ req' = [req EXCEPT ![c] = req'[c]] /\ RequestOK(req'[c])
         /\ req[c].op = "amend" /\ req'[c].op = "amend" /\ req'[c].pc = "line"
         /\ req'[c].line = req[c].line /\ req'[c].po = req[c].po
         /\ req'[c].wStock = req[c].wStock /\ req'[c].wMoves = req[c].wMoves
         /\ DOMAIN req'[c].wLine = {req[c].line}
         /\ req'[c].wLine[req[c].line].received = line[req[c].line].received
         /\ req'[c].wLine[req[c].line].accepted = line[req[c].line].accepted
         /\ req'[c].wLine[req[c].line].rejected = line[req[c].line].rejected
<1> DEFINE l == req[c].line
           row == [line[l] EXCEPT !.ordered = req[c].qty]
           w == Put(NoWrite, l, row)
           y == [req[c] EXCEPT !.pc = "line", !.wLine = w]
<1>1. line[l] \in LineRow /\ l \in PoLines
  BY Fields DEF TypeInv, RowsType
<1>2. /\ row \in LineRow /\ row.received = line[l].received
      /\ row.accepted = line[l].accepted /\ row.rejected = line[l].rejected
  BY <1>1, Fields DEF LineRow
<1>3. req' = [req EXCEPT ![c].pc = "line", ![c].wLine = w] /\ req[c].op = "amend" /\ req[c].pc = "loaded"
  BY DEF amendLine, At
<1> HIDE DEF row
<1>4. w \in Written(PoLines, LineRow) /\ DOMAIN w = {l} /\ w[l] = row
  <2>1. NoWrite \in Written(PoLines, LineRow) /\ DOMAIN NoWrite = {}
    BY NoWriteType
  <2>5. row \in LineRow /\ l \in PoLines
    BY <1>1, <1>2
  <2> HIDE DEF l
  <2>2. w \in Written(PoLines, LineRow)
    BY <2>1, <2>5, PutLine
  <2>3. DOMAIN w = {l}
    <3>1. DOMAIN w = DOMAIN NoWrite \cup {l}
      BY <2>1, <2>5, PutLine
    <3> QED BY <2>1, <3>1
  <2>4. w[l] = row
    BY <2>1, <2>5, PutLine
  <2> QED BY <2>2, <2>3, <2>4
<1> HIDE DEF w
<1>5. /\ y \in RequestRow /\ y.op = req[c].op /\ y.pc = "line" /\ y.line = l /\ y.po = req[c].po
      /\ y.wStock = req[c].wStock /\ y.wMoves = req[c].wMoves /\ y.wLine = w /\ y.wGrn = req[c].wGrn
  BY <1>4, Fields DEF RequestRow
<1>6. req' = [req EXCEPT ![c] = y]
  BY <1>3, Fields DEF TypeInv, RequestRow
<1> HIDE DEF y
<1>7. req'[c] = y
  BY <1>6 DEF TypeInv
<1>8. RequestOK(y)
  BY <1>3, <1>5, Fields DEF RequestOK
<1> QED BY <1>2, <1>3, <1>4, <1>5, <1>6, <1>7, <1>8

LEMMA AmendTotal ==
  ASSUME TypeInv, NEW c \in InFlight, amendPurchaseOrder(c)
  PROVE  /\ req' = [req EXCEPT ![c] = req'[c]] /\ RequestOK(req'[c])
         /\ req[c].op = "amend" /\ req'[c].op = "amend" /\ req'[c].pc = "tx"
         /\ req'[c].line = req[c].line /\ req'[c].po = req[c].po
         /\ req'[c].wStock = req[c].wStock /\ req'[c].wMoves = req[c].wMoves
         /\ req'[c].wLine = req[c].wLine
<1> DEFINE t == AmendedTotal(c)
           y == [req[c] EXCEPT !.pc = "tx", !.total = t]
<1>1. t \in Nat
  BY OrderTotalType DEF AmendedTotal
<1>2. req' = [req EXCEPT ![c].pc = "tx", ![c].total = t] /\ req[c].op = "amend" /\ req[c].pc = "line"
  BY DEF amendPurchaseOrder, At
<1> HIDE DEF t
<1>3. /\ y \in RequestRow /\ y.op = req[c].op /\ y.pc = "tx" /\ y.line = req[c].line /\ y.po = req[c].po
      /\ y.wStock = req[c].wStock /\ y.wMoves = req[c].wMoves /\ y.wLine = req[c].wLine
      /\ y.wGrn = req[c].wGrn
  BY <1>1, Fields DEF RequestRow
<1>4. req' = [req EXCEPT ![c] = y]
  BY <1>2, Fields DEF TypeInv, RequestRow
<1> HIDE DEF y
<1>5. req'[c] = y
  BY <1>4 DEF TypeInv
<1>6. RequestOK(y)
  BY <1>2, <1>3, Fields DEF RequestOK
<1> QED BY <1>2, <1>3, <1>4, <1>5, <1>6

LEMMA GrnRead ==
  ASSUME TypeInv, NEW c \in InFlight, grnReadStock(c)
  PROVE  /\ req' = [req EXCEPT ![c] = req'[c]] /\ RequestOK(req'[c])
         /\ req[c].op = "grn" /\ req[c].pc = "line" /\ req'[c].op = "grn" /\ req'[c].pc = "stock"
         /\ req'[c].po = req[c].po /\ req'[c].receipts = req[c].receipts
         /\ req'[c].receipts # << >>
         /\ req'[c].wStock = req[c].wStock /\ req'[c].wMoves = req[c].wMoves
         /\ req'[c].wLine = req[c].wLine /\ req'[c].wGrn = req[c].wGrn
         /\ req'[c].seen = StockView(c)[ItemOf[Head(req[c].receipts).line]]
<1> DEFINE v == StockView(c)[ItemOf[Head(req[c].receipts).line]]
           y == [req[c] EXCEPT !.pc = "stock", !.seen = v]
<1>1. /\ req' = [req EXCEPT ![c].pc = "stock", ![c].seen = v]
      /\ req[c].op = "grn" /\ req[c].pc = "line" /\ req[c].receipts # << >>
  BY DEF grnReadStock, At
<1>2. v \in Int
  <2>1. Head(req[c].receipts) \in Receipt
    BY <1>1, Fields
  <2>2. ItemOf[Head(req[c].receipts).line] \in Items
    BY <2>1, PoAssumption DEF Receipt
  <2> QED BY <2>2, Views
<1> HIDE DEF v
<1>3. /\ y \in RequestRow /\ y.op = req[c].op /\ y.pc = "stock" /\ y.po = req[c].po
      /\ y.receipts = req[c].receipts /\ y.wStock = req[c].wStock /\ y.wMoves = req[c].wMoves
      /\ y.wLine = req[c].wLine /\ y.wGrn = req[c].wGrn /\ y.seen = v
  BY <1>2, Fields DEF RequestRow
<1>4. req' = [req EXCEPT ![c] = y]
  BY <1>1, Fields DEF TypeInv, RequestRow
<1> HIDE DEF y
<1>5. req'[c] = y
  BY <1>4 DEF TypeInv
<1>6. RequestOK(y)
  BY <1>1, <1>3, Fields DEF RequestOK
<1> QED BY <1>1, <1>3, <1>4, <1>5, <1>6 DEF v

LEMMA GrnRecompute ==
  ASSUME TypeInv, NEW c \in InFlight, grnRecompute(c)
  PROVE  /\ req' = [req EXCEPT ![c] = req'[c]] /\ RequestOK(req'[c])
         /\ req[c].op = "grn" /\ req[c].pc = "line" /\ req'[c].op = "grn" /\ req'[c].pc = "tx"
         /\ req'[c].po = req[c].po /\ req[c].receipts = << >> /\ req'[c].receipts = << >>
         /\ req'[c].wStock = req[c].wStock /\ req'[c].wMoves = req[c].wMoves
         /\ req'[c].wLine = req[c].wLine /\ req'[c].wGrn = req[c].wGrn
         /\ req'[c].row = po[req[c].po]
         /\ req'[c].to = recomputePoReceiptStatus(req[c].po, po[req[c].po].status, LineView(c))
<1> DEFINE row == po[req[c].po]
           to == recomputePoReceiptStatus(req[c].po, po[req[c].po].status, LineView(c))
           y == [req[c] EXCEPT !.pc = "tx", !.row = row, !.to = to]
<1>1. /\ req' = [req EXCEPT ![c].pc = "tx", ![c].row = row, ![c].to = to]
      /\ req[c].op = "grn" /\ req[c].pc = "line" /\ req[c].receipts = << >>
  BY DEF grnRecompute, At
<1>2. row \in PoRow /\ row.status \in Status
  BY Fields DEF TypeInv, RowsType, PoRow
<1>3. to \in Status
  BY <1>2, FlowIs DEF recomputePoReceiptStatus, Status
<1> HIDE DEF row, to
<1>4. /\ y \in RequestRow /\ y.op = req[c].op /\ y.pc = "tx" /\ y.po = req[c].po
      /\ y.receipts = req[c].receipts /\ y.wStock = req[c].wStock /\ y.wMoves = req[c].wMoves
      /\ y.wLine = req[c].wLine /\ y.wGrn = req[c].wGrn /\ y.row = row /\ y.to = to
  BY <1>2, <1>3, Fields DEF RequestRow
<1>5. req' = [req EXCEPT ![c] = y]
  BY <1>1, Fields DEF TypeInv, RequestRow
<1> HIDE DEF y
<1>6. req'[c] = y
  BY <1>5 DEF TypeInv
<1>7. RequestOK(y)
  BY <1>1, <1>4, Fields DEF RequestOK
<1> QED BY <1>1, <1>4, <1>5, <1>6, <1>7 DEF row, to

LEMMA InspectInsert ==
  ASSUME TypeInv, NEW c \in InFlight, inspectInsert(c)
  PROVE  /\ req' = [req EXCEPT ![c] = req'[c]]
         /\ req[c].op = "inspect" /\ req'[c].op = "inspect" /\ req'[c].pc = "stock"
         /\ req'[c].grnLine = req[c].grnLine /\ req'[c].passed = req[c].passed
         /\ req'[c].rejected = req[c].rejected /\ req'[c].wLine = req[c].wLine
         /\ req'[c].wStock = req[c].wStock /\ req'[c].wMoves = req[c].wMoves
         /\ req'[c].seen = stock[ItemOf[grn[req[c].grnLine].line]]
         /\ RequestOK(req'[c]) /\ req[c].grnLine \in DOMAIN grn
<1> DEFINE v == stock[ItemOf[grn[req[c].grnLine].line]]
           y == [req[c] EXCEPT !.pc = "stock", !.seen = v]
<1>1. /\ req' = [req EXCEPT ![c].pc = "stock", ![c].seen = v]
      /\ req[c].op = "inspect" /\ req[c].pc = "loaded"
  BY DEF inspectInsert, At
<1>2. v \in Int /\ req[c].grnLine \in DOMAIN grn
  <2>1. req[c].grnLine \in DOMAIN grn
    BY <1>1 DEF TypeInv
  <2>2. grn[req[c].grnLine] \in GrnRow
    BY <2>1 DEF TypeInv, RowsType
  <2>3. ItemOf[grn[req[c].grnLine].line] \in Items
    BY <2>2, PoAssumption DEF GrnRow
  <2> QED BY <2>1, <2>3 DEF TypeInv, RowsType
<1> HIDE DEF v
<1>3. /\ y \in RequestRow /\ y.op = req[c].op /\ y.pc = "stock" /\ y.grnLine = req[c].grnLine
      /\ y.passed = req[c].passed /\ y.rejected = req[c].rejected /\ y.wLine = req[c].wLine
      /\ y.wStock = req[c].wStock /\ y.wMoves = req[c].wMoves /\ y.wGrn = req[c].wGrn /\ y.seen = v
  BY <1>2, Fields DEF RequestRow
<1>4. req' = [req EXCEPT ![c] = y]
  BY <1>1, Fields DEF TypeInv, RequestRow
<1> HIDE DEF y
<1>5. req'[c] = y
  BY <1>4 DEF TypeInv
<1>6. RequestOK(y)
  BY <1>1, <1>3, Fields DEF RequestOK
<1> QED BY <1>1, <1>2, <1>3, <1>4, <1>5, <1>6 DEF v

\* The GRN line created for receipt x, and what of it is accepted at once.
Now(x) == IF x.qc THEN 0 ELSE x.qty
GrnLine(x) == [line |-> x.line, qty |-> x.qty, excess |-> x.excess,
               qc |-> IF x.qc THEN "Pending" ELSE "NotRequired", accepted |-> Now(x), rejected |-> 0]

LEMMA ReceiptFields ==
  ASSUME NEW x \in Receipt
  PROVE  /\ x.line \in PoLines /\ ItemOf[x.line] \in Items /\ PoOf[x.line] \in Orders
         /\ x.qty \in Nat /\ x.qty >= 1 /\ Now(x) \in Nat /\ GrnLine(x) \in GrnRow
         /\ GrnLine(x).line = x.line /\ GrnLine(x).qty = x.qty /\ GrnLine(x).excess = x.excess
<1>1. x.line \in PoLines /\ x.qty \in Qty /\ x.qc \in BOOLEAN /\ x.excess \in BOOLEAN
  BY DEF Receipt
<1>2. x.qty \in Nat /\ x.qty >= 1
  BY <1>1, PoAssumption DEF Qty
<1>3. Now(x) \in Nat
  BY <1>1, <1>2 DEF Now
<1>4. GrnLine(x) \in GrnRow
  BY <1>1, <1>2, <1>3 DEF GrnLine, GrnRow
<1> QED BY <1>1, <1>2, <1>3, <1>4, PoAssumption DEF GrnLine

LEMMA ReceivedType ==
  ASSUME NEW row \in LineRow, NEW qty \in Nat, NEW now \in Nat
  PROVE  /\ Received(row, qty, now) \in LineRow
         /\ Received(row, qty, now).ordered = row.ordered
         /\ Received(row, qty, now).received = row.received + qty
<1> DEFINE r == row.received + qty
           a == row.accepted + now
<1>1. r \in Nat /\ a \in Nat
  BY DEF LineRow
<1>2. Received(row, qty, now) = [row EXCEPT !.received = r, !.accepted = a]
  BY DEF Received
<1>3. r = row.received + qty
  OBVIOUS
<1> HIDE DEF r, a
<1> QED BY <1>1, <1>2, <1>3 DEF LineRow

LEMMA CreditType ==
  ASSUME TypeInv, NEW c \in InFlight, NEW it \in Items, NEW n \in Nat
  PROVE  Credited(c, it, n) \in Int
BY Fields, Views DEF Credited

LEMMA CreateGrn ==
  ASSUME TypeInv, NEW c \in InFlight, createGrnLine(c)
  PROVE  LET x == Head(req[c].receipts)  it == ItemOf[x.line] IN
         /\ req' = [req EXCEPT ![c] = req'[c]] /\ RequestOK(req'[c])
         /\ req[c].op = "grn" /\ req[c].pc = "stock" /\ req'[c].op = "grn" /\ req'[c].pc = "line"
         /\ req'[c].po = req[c].po /\ req[c].receipts # << >> /\ x \in Receipt
         /\ req'[c].receipts = Tail(req[c].receipts)
         /\ req'[c].wGrn = Append(req[c].wGrn, GrnLine(x))
         /\ req'[c].wLine = Put(req[c].wLine, x.line, Received(LineView(c)[x.line], x.qty, Now(x)))
         /\ req'[c].wStock = IF Now(x) = 0 THEN req[c].wStock
                             ELSE Put(req[c].wStock, it, Credited(c, it, Now(x)))
         /\ req'[c].wMoves = IF Now(x) = 0 THEN req[c].wMoves
                             ELSE Put(req[c].wMoves, it, MovesView(c)[it] + Now(x))
<1> DEFINE x == Head(req[c].receipts)
           it == ItemOf[x.line]
           row == Received(LineView(c)[x.line], x.qty, Now(x))
           rs == Tail(req[c].receipts)
           gs == Append(req[c].wGrn, GrnLine(x))
           ls == Put(req[c].wLine, x.line, row)
           ss == IF Now(x) = 0 THEN req[c].wStock ELSE Put(req[c].wStock, it, Credited(c, it, Now(x)))
           ms == IF Now(x) = 0 THEN req[c].wMoves ELSE Put(req[c].wMoves, it, MovesView(c)[it] + Now(x))
           y == [req[c] EXCEPT !.pc = "line", !.receipts = rs, !.wGrn = gs, !.wLine = ls,
                               !.wStock = ss, !.wMoves = ms]
<1>1. req[c].op = "grn" /\ req[c].pc = "stock" /\ req[c].receipts # << >>
  <2>1. req[c].op = "grn" /\ req[c].pc = "stock"
    BY DEF createGrnLine, At
  <2> QED BY <2>1, Fields DEF RequestOK
<1>2. x \in Receipt /\ rs \in Seq(Receipt)
  BY <1>1, Fields
<1>3. req' = [req EXCEPT ![c].pc = "line", ![c].receipts = rs, ![c].wGrn = gs, ![c].wLine = ls,
                         ![c].wStock = ss, ![c].wMoves = ms]
  BY Fields DEF createGrnLine, GrnLine, Now, TypeInv, RequestRow
<1> HIDE DEF x
<1>4. gs \in Seq(GrnRow)
  <2>1. GrnLine(x) \in GrnRow /\ req[c].wGrn \in Seq(GrnRow)
    BY <1>2, ReceiptFields, Fields
  <2> QED BY <2>1
<1>5. row \in LineRow
  <2>1. LineView(c)[x.line] \in LineRow /\ x.qty \in Nat /\ Now(x) \in Nat
    BY <1>2, ReceiptFields, Views
  <2> QED BY <2>1, ReceivedType
<1> HIDE DEF row
<1>6. ls \in Written(PoLines, LineRow)
  <2>1. x.line \in PoLines
    BY <1>2, ReceiptFields
  <2> QED BY <1>5, <2>1, PutLine, Fields
<1>7. ss \in Written(Items, Int)
  <2>1. it \in Items /\ Now(x) \in Nat
    BY <1>2, ReceiptFields
  <2>2. Credited(c, it, Now(x)) \in Int
    BY <2>1, CreditType
  <2> HIDE DEF it
  <2> QED BY <2>1, <2>2, PutStock, Fields
<1>8. ms \in Written(Items, Int)
  <2>1. it \in Items /\ Now(x) \in Nat
    BY <1>2, ReceiptFields
  <2>2. MovesView(c)[it] + Now(x) \in Int
    BY <2>1, Views
  <2> HIDE DEF it
  <2> QED BY <2>1, <2>2, PutStock, Fields
<1> HIDE DEF rs, gs, ls, ss, ms
<1>9. /\ y \in RequestRow /\ y.op = req[c].op /\ y.pc = "line" /\ y.po = req[c].po
      /\ y.receipts = rs /\ y.wGrn = gs /\ y.wLine = ls /\ y.wStock = ss /\ y.wMoves = ms
  BY <1>2, <1>4, <1>6, <1>7, <1>8, Fields DEF RequestRow
<1>10. req' = [req EXCEPT ![c] = y]
  BY <1>3, Fields DEF TypeInv, RequestRow
<1> HIDE DEF y
<1>11. req'[c] = y
  BY <1>10 DEF TypeInv
<1>12. RequestOK(y)
  BY <1>1, <1>9, Fields DEF RequestOK
<1> QED BY <1>1, <1>2, <1>9, <1>10, <1>11, <1>12 DEF rs, gs, ls, ss, ms, row, x

\* The rows a commit leaves.
LEMMA Committed ==
  ASSUME TypeInv, NEW c \in InFlight, Commit(c)
  PROVE  /\ RowsType' /\ Done(c) /\ DOMAIN grn \subseteq DOMAIN grn'
         /\ line' = LineView(c) /\ stock' = StockView(c) /\ moves' = MovesView(c)
         /\ grn' = grn \o req[c].wGrn
         /\ req[c].pc = "tx" /\ req[c].op \in {"amend", "grn"}
         /\ \A p \in Orders : po'[p] \in PoRow /\ po'[p].heldFrom = po[p].heldFrom
         /\ \A p \in Orders : po'[p].status =
              IF p = req[c].po /\ req[c].op = "grn" /\ req[c].to # req[c].row.status THEN req[c].to
              ELSE po[p].status
<1> DEFINE q == req[c].po
           st == IF req[c].op = "grn" /\ req[c].to # req[c].row.status THEN req[c].to
                 ELSE po[q].status
           tt == IF req[c].op = "amend" /\ req[c].total # req[c].row.total THEN req[c].total
                 ELSE po[q].total
<1>1. /\ line' = LineView(c) /\ stock' = StockView(c) /\ moves' = MovesView(c)
      /\ grn' = grn \o req[c].wGrn /\ Done(c) /\ req[c].pc = "tx"
  BY DEF Commit
<1>2. req[c].op \in {"amend", "grn"}
  BY <1>1, Fields DEF RequestOK
<1>3. po' = [po EXCEPT ![q].status = st, ![q].total = tt]
  BY DEF Commit
<1>4. q \in Orders /\ st \in Status /\ tt \in Nat
  BY Fields DEF TypeInv, RowsType, PoRow
<1> HIDE DEF q, st, tt
<1>5. po' \in [Orders -> PoRow]
  BY <1>3, <1>4 DEF TypeInv, RowsType, PoRow
<1>6. /\ \A p \in Orders : po'[p].heldFrom = po[p].heldFrom
      /\ \A p \in Orders : po'[p].status = IF p = q THEN st ELSE po[p].status
  BY <1>3, <1>4 DEF TypeInv, RowsType, PoRow
<1>7. grn' \in Seq(GrnRow) /\ DOMAIN grn \subseteq DOMAIN grn'
  <2>1. grn \in Seq(GrnRow) /\ req[c].wGrn \in Seq(GrnRow)
    BY Fields DEF TypeInv, RowsType
  <2> QED BY <1>1, <2>1
<1>8. RowsType'
  BY <1>1, <1>5, <1>7, Views DEF RowsType
<1> QED BY <1>1, <1>2, <1>5, <1>6, <1>7, <1>8 DEF q, st

\* The rows an inspection leaves: no order line is ordered or received anew.
LEMMA Inspected ==
  ASSUME TypeInv, NEW c \in InFlight, inspectGrnLineItem(c)
  PROVE  LET it == ItemOf[grn[req[c].grnLine].line]  n == req[c].passed IN
         /\ RowsType' /\ Done(c) /\ DOMAIN grn' = DOMAIN grn /\ po' = po
         /\ req[c].op = "inspect" /\ req[c].pc = "stock" /\ it \in Items
         /\ \A l \in PoLines : line'[l].ordered = line[l].ordered /\ line'[l].received = line[l].received
         /\ stock' = IF n = 0 THEN stock ELSE [stock EXCEPT ![it] = Credited(c, it, n)]
         /\ moves' = IF n = 0 THEN moves ELSE [moves EXCEPT ![it] = @ + n]
<1> DEFINE i == req[c].grnLine
           l == grn[i].line
           it == ItemOf[l]
           n == req[c].passed
<1>1. req[c].op = "inspect" /\ req[c].pc = "stock"
  BY DEF inspectGrnLineItem, At
<1>2. i \in DOMAIN grn /\ grn[i] \in GrnRow
  BY <1>1 DEF TypeInv, RowsType
<1>3. l \in PoLines /\ it \in Items /\ n \in Nat /\ req[c].rejected \in Nat
  BY <1>2, Fields, PoAssumption DEF GrnRow
<1>4. /\ grn' = [grn EXCEPT ![i].qc = deriveGrnQcStatus(n, req[c].held),
                            ![i].accepted = n, ![i].rejected = req[c].rejected]
      /\ line' = [line EXCEPT ![l].accepted = @ + n, ![l].rejected = @ + req[c].rejected]
      /\ stock' = IF n = 0 THEN stock ELSE [stock EXCEPT ![it] = Credited(c, it, n)]
      /\ moves' = IF n = 0 THEN moves ELSE [moves EXCEPT ![it] = @ + n]
      /\ Done(c) /\ po' = po
  BY DEF inspectGrnLineItem
<1>5. Credited(c, it, n) \in Int
  BY <1>3, CreditType
<1> HIDE DEF it, n
<1>6. stock' \in [Items -> Int] /\ moves' \in [Items -> Int]
  BY <1>3, <1>4, <1>5 DEF TypeInv, RowsType
<1> HIDE DEF l
<1>7. /\ line' \in [PoLines -> LineRow]
      /\ \A k \in PoLines : line'[k].ordered = line[k].ordered /\ line'[k].received = line[k].received
  <2> DEFINE a == line[l].accepted + n
             b == line[l].rejected + req[c].rejected
  <2>1. line[l] \in LineRow
    BY <1>3 DEF TypeInv, RowsType
  <2>2. a \in Nat /\ b \in Nat
    BY <1>3, <2>1 DEF LineRow
  <2>3. line' = [line EXCEPT ![l].accepted = a, ![l].rejected = b]
    BY <1>4
  <2> HIDE DEF a, b
  <2> QED BY <1>3, <2>2, <2>3 DEF TypeInv, RowsType, LineRow
<1>8. grn' \in Seq(GrnRow) /\ DOMAIN grn' = DOMAIN grn
  <2> DEFINE qc == deriveGrnQcStatus(n, req[c].held)
             g == [grn[i] EXCEPT !.qc = qc, !.accepted = n, !.rejected = req[c].rejected]
  <2>1. qc \in {"Pending", "NotRequired", "Hold", "Pass", "Fail"}
    BY DEF deriveGrnQcStatus
  <2> HIDE DEF qc, i
  <2>2. g \in GrnRow
    BY <1>2, <1>3, <2>1 DEF GrnRow
  <2>3. grn' = [grn EXCEPT ![i] = g]
    BY <1>2, <1>4 DEF TypeInv, RowsType, GrnRow, qc
  <2> HIDE DEF g
  <2>4. grn \in Seq(GrnRow)
    BY DEF TypeInv, RowsType
  <2> QED BY <1>2, <2>2, <2>3, <2>4
<1>9. RowsType'
  BY <1>4, <1>6, <1>7, <1>8 DEF TypeInv, RowsType
<1> QED BY <1>1, <1>3, <1>4, <1>7, <1>8, <1>9 DEF it, n, l

LEMMA AdvanceType ==
  ASSUME TypeInv, NEW c \in InFlight, Advance(c)
  PROVE  TypeInv'
<1>1. CASE updatePurchaseOrderStatus(c)
  <2> DEFINE p == req[c].po
             held == IF req[c].to = "OnHold" THEN req[c].row.status ELSE "Absent"
  <2>1. p \in Orders /\ req[c].to \in Status /\ held \in Status
    BY Fields DEF PoRow, Status
  <2>2. po' = [po EXCEPT ![p].status = req[c].to, ![p].heldFrom = held]
    BY <1>1 DEF updatePurchaseOrderStatus
  <2>3. Done(c) /\ UNCHANGED <<line, grn, stock, moves>>
    BY <1>1 DEF updatePurchaseOrderStatus
  <2> HIDE DEF p, held
  <2>4. po' \in [Orders -> PoRow]
    BY <2>1, <2>2 DEF TypeInv, RowsType, PoRow
  <2>5. RowsType'
    BY <2>3, <2>4 DEF TypeInv, RowsType
  <2> QED BY <2>3, <2>5, DoneType
<1>2. CASE amendLine(c)
  BY <1>2, AmendLine, RowsKept, StepType DEF amendLine
<1>3. CASE amendPurchaseOrder(c)
  BY <1>3, AmendTotal, RowsKept, StepType DEF amendPurchaseOrder
<1>4. CASE grnReadStock(c)
  BY <1>4, GrnRead, RowsKept, StepType DEF grnReadStock
<1>5. CASE createGrnLine(c)
  BY <1>5, CreateGrn, RowsKept, StepType DEF createGrnLine
<1>6. CASE grnRecompute(c)
  BY <1>6, GrnRecompute, RowsKept, StepType DEF grnRecompute
<1>7. CASE Commit(c)
  BY <1>7, Committed, DoneType
<1>8. CASE inspectInsert(c)
  BY <1>8, InspectInsert, RowsKept, StepType DEF inspectInsert
<1>9. CASE inspectGrnLineItem(c)
  BY <1>9, Inspected, DoneType
<1>10. CASE adjustStock(c)
  <2> DEFINE it == req[c].item
             v == req[c].seen + req[c].delta
  <2>1. it \in Items /\ v \in Int /\ req[c].delta \in Int
    BY Fields
  <2>2. /\ stock' = [stock EXCEPT ![it] = v] /\ moves' = [moves EXCEPT ![it] = @ + req[c].delta]
        /\ Done(c) /\ UNCHANGED <<po, line, grn>>
    BY <1>10 DEF adjustStock
  <2> HIDE DEF it, v
  <2>3. RowsType'
    BY <2>1, <2>2 DEF TypeInv, RowsType
  <2> QED BY <2>2, <2>3, DoneType
<1>11. CASE Rollback(c)
  BY <1>11, RowsKept, DoneType DEF Rollback
<1> QED BY <1>1, <1>2, <1>3, <1>4, <1>5, <1>6, <1>7, <1>8, <1>9, <1>10, <1>11 DEF Advance

LEMMA TypeStep ==
  ASSUME TypeInv, [Next]_vars
  PROVE  TypeInv'
<1>1. CASE UNCHANGED vars
  BY <1>1 DEF vars, TypeInv, RowsType, InFlight
<1> QED BY <1>1, RequestType, AdvanceType DEF Next

-----------------------------------------------------------------------------
(* A request that nobody disturbs *)

LEMMA Lone ==
  ASSUME TypeInv, Alone, NEW c \in InFlight
  PROVE  InFlight = {c}
<1>1. PICK d : InFlight = {d}
  BY FS_Singleton DEF TypeInv, Alone
<1> QED BY <1>1

LEMMA SameClients ==
  ASSUME TypeInv, NEW c \in InFlight, Request(c) \/ Advance(c)
  PROVE  InFlight' = InFlight /\ DOMAIN req = InFlight /\ DOMAIN req' = InFlight
<1>1. CASE Request(c)
  BY <1>1 DEF Request, createPurchaseOrder, statusLoad, amendLoad, grnLoad, inspectLoad,
     adjustLoad, Start, TypeInv, InFlight
<1>2. CASE Advance(c)
  BY <1>2 DEF Advance, updatePurchaseOrderStatus, amendLine, amendPurchaseOrder, grnReadStock,
     createGrnLine, grnRecompute, Commit, inspectInsert, inspectGrnLineItem, adjustStock,
     Rollback, Done, TypeInv, InFlight
<1> QED BY <1>1, <1>2

\* A request that ends knows nothing.
LEMMA DoneKnows ==
  ASSUME TypeInv, NEW c \in InFlight, Done(c)
  PROVE  req'[c] = Idle /\ Knows(req[c])'
<1>1. req'[c] = Idle
  BY DEF Done, TypeInv
<1>2. req'[c].op = "none"
  BY <1>1, IdleType
<1> QED BY <1>1, <1>2 DEF Knows

LEMMA RequestKnows ==
  ASSUME TypeInv, NEW c \in InFlight, Request(c)
  PROVE  Knows(req[c])'
<1>1. \A r : Start(c, r) => req'[c] = r
  BY DEF Start, TypeInv
<1>2. DOMAIN NoWrite = {}
  BY DEF NoWrite
<1>3. ASSUME NEW p \in Orders, NEW qty \in [LinesOf(p) -> Limit.ordered],
             createPurchaseOrder(c, p, qty)
      PROVE  Knows(req[c])'
  <2>1. req' = req /\ Idles(c)
    BY <1>3 DEF createPurchaseOrder
  <2>2. req'[c].op = "none"
    BY <2>1, Fields DEF Idles, RequestOK
  <2> QED BY <2>2 DEF Knows
<1>4. ASSUME NEW p \in Orders, NEW to \in Status, statusLoad(c, p, to)
      PROVE  Knows(req[c])'
  <2>1. /\ req'[c] = [Idle EXCEPT !.op = "status", !.pc = "loaded", !.po = p, !.row = po[p], !.to = to]
        /\ po' = po /\ po[p].status # "Absent" /\ to \in getAllowedNextStatuses(po[p])
    BY <1>1, <1>4 DEF statusLoad
  <2>2. req'[c].op = "status" /\ req'[c].row = po[p] /\ req'[c].po = p /\ req'[c].to = to
    BY <2>1, IdleFields DEF RequestRow
  <2> QED BY <2>1, <2>2 DEF Knows
<1>5. ASSUME NEW l \in PoLines, NEW q \in Limit.ordered, amendLoad(c, l, q)
      PROVE  Knows(req[c])'
  <2>1. /\ req'[c] = [Idle EXCEPT !.op = "amend", !.pc = "loaded", !.po = PoOf[l],
                            !.row = po[PoOf[l]], !.line = l, !.qty = q]
        /\ po' = po /\ po[PoOf[l]].status \notin TERMINAL_STATUSES \cup {"Absent"}
    BY <1>1, <1>5 DEF amendLoad
  <2>2. req'[c].op = "amend" /\ req'[c].po = PoOf[l] /\ req'[c].line = l /\ req'[c].wLine = NoWrite
    BY <2>1, IdleFields DEF RequestRow
  <2> QED BY <1>2, <2>1, <2>2 DEF Knows, AmendKnows
<1>6. ASSUME NEW p \in Orders, NEW receipts \in Receipts(p), grnLoad(c, p, receipts)
      PROVE  Knows(req[c])'
  <2>1. /\ req'[c] = [Idle EXCEPT !.op = "grn", !.pc = "line", !.po = p, !.receipts = receipts]
        /\ po' = po /\ line' = line /\ po[p].status \in RECEIVABLE_PO_STATUSES
    BY <1>1, <1>6 DEF grnLoad
  <2>2. /\ req'[c].op = "grn" /\ req'[c].pc = "line" /\ req'[c].po = p /\ req'[c].wLine = NoWrite
        /\ req'[c].receipts = receipts
    BY <2>1, IdleFields DEF RequestRow
  <2>3. receipts \in Seq(Receipt) /\ receipts # << >>
    BY ReceiptsType
  <2>4. \A k \in DOMAIN receipts :
          /\ PoOf[receipts[k].line] = p
          /\ receipts[k].excess = IsExcess(receipts[k].line, receipts[k].qty)
          /\ \A j \in 1..k-1 : receipts[j].line # receipts[k].line
    BY <1>6 DEF grnLoad
  <2>5. \A k, j \in DOMAIN receipts : receipts[j].line = receipts[k].line => j = k
    <3> SUFFICES ASSUME NEW k \in DOMAIN receipts, NEW j \in DOMAIN receipts, j # k
                 PROVE  receipts[j].line # receipts[k].line
      OBVIOUS
    <3>1. k \in Nat /\ j \in Nat /\ k >= 1 /\ j >= 1
      BY <2>3
    <3>2. CASE j < k
      BY <2>4, <3>1, <3>2
    <3>3. CASE k < j
      BY <2>4, <3>1, <3>3
    <3> QED BY <3>1, <3>2, <3>3
  <2>6. \A x \in DOMAIN receipts :
          IsExcess(receipts[x].line, receipts[x].qty)' = IsExcess(receipts[x].line, receipts[x].qty)
    BY <2>1 DEF IsExcess
  <2>7. GrnKnows(req[c])'
    BY <1>2, <2>1, <2>2, <2>3, <2>4, <2>5, <2>6 DEF GrnKnows
  <2> QED BY <2>2, <2>7 DEF Knows
<1>7. ASSUME NEW i \in DOMAIN grn, NEW passed \in 0..MaxQty, NEW held \in 0..MaxQty,
             NEW rejected \in 0..MaxQty, inspectLoad(c, i, passed, held, rejected)
      PROVE  Knows(req[c])'
  <2>1. req'[c].op = "inspect"
    BY <1>1, <1>7, IdleFields DEF inspectLoad, RequestRow
  <2> QED BY <2>1 DEF Knows
<1>8. ASSUME NEW it \in RawMaterials, NEW delta \in {-1, 1}, adjustLoad(c, it, delta)
      PROVE  Knows(req[c])'
  <2>1. req'[c].op = "adjust"
    BY <1>1, <1>8, IdleFields DEF adjustLoad, RequestRow
  <2> QED BY <2>1 DEF Knows
<1> QED BY <1>3, <1>4, <1>5, <1>6, <1>7, <1>8 DEF Request

\* The receipt of one more line keeps what the request knows.
LEMMA CreateKnows ==
  ASSUME TypeInv, NEW c \in InFlight, createGrnLine(c), GrnKnows(req[c]),
         UNCHANGED <<po, line>>
  PROVE  GrnKnows(req[c])'
<1> DEFINE r == req[c]
           x == Head(r.receipts)
           row == Received(line[x.line], x.qty, Now(x))
<1>1. /\ r.receipts \in Seq(Receipt) /\ r.receipts # << >> /\ x \in Receipt
      /\ x = r.receipts[1] /\ 1 \in DOMAIN r.receipts
      /\ r.wGrn \in Seq(GrnRow) /\ r.wLine \in Written(PoLines, LineRow)
  BY Fields, CreateGrn
<1>2. /\ req'[c].pc = "line" /\ req'[c].po = r.po /\ req'[c].receipts = Tail(r.receipts)
      /\ req'[c].wGrn = Append(r.wGrn, GrnLine(x))
  BY CreateGrn
<1>3. /\ PoOf[x.line] = r.po /\ x.line \notin DOMAIN r.wLine
      /\ x.excess = IsExcess(x.line, x.qty)
  BY <1>1 DEF GrnKnows
<1>4. x.line \in PoLines /\ line[x.line] \in LineRow /\ x.qty \in Nat /\ Now(x) \in Nat
  BY <1>1, ReceiptFields DEF TypeInv, RowsType
<1>5. LineView(c)[x.line] = line[x.line]
  BY <1>3, <1>4, Views
<1>6. req'[c].wLine = Put(r.wLine, x.line, row)
  BY <1>5, CreateGrn
<1>7. /\ row \in LineRow /\ row.ordered = line[x.line].ordered
      /\ row.received = line[x.line].received + x.qty
  BY <1>4, ReceivedType
<1>8. GrnKnows(r)
  OBVIOUS
<1> HIDE DEF row, x, r
<1>9. r.wLine \in Written(PoLines, LineRow) /\ x.line \in PoLines /\ row \in LineRow
  BY <1>1, <1>4, <1>7
<1>10. DOMAIN Put(r.wLine, x.line, row) = DOMAIN r.wLine \cup {x.line}
  BY DEF Put
<1>11. Put(r.wLine, x.line, row)[x.line] = row
  BY <1>9, PutLine
<1>12. \A l \in DOMAIN r.wLine : l # x.line => Put(r.wLine, x.line, row)[l] = r.wLine[l]
  BY <1>9, PutLine
<1>13. DOMAIN req'[c].wLine = DOMAIN r.wLine \cup {x.line}
  BY <1>6, <1>10
<1>14. req'[c].wLine[x.line] = row
  BY <1>6, <1>11
<1>15. \A l \in DOMAIN r.wLine : l # x.line => req'[c].wLine[l] = r.wLine[l]
  BY <1>6, <1>12
<1>16. /\ Len(r.wGrn) + 1 \in DOMAIN req'[c].wGrn
       /\ req'[c].wGrn[Len(r.wGrn) + 1] = GrnLine(x)
       /\ \A k \in DOMAIN r.wGrn : k \in DOMAIN req'[c].wGrn /\ req'[c].wGrn[k] = r.wGrn[k]
  <2>1. GrnLine(x) \in GrnRow
    BY <1>1, ReceiptFields
  <2> QED BY <1>1, <1>2, <2>1
<1>17. \A k \in DOMAIN req'[c].receipts :
         k + 1 \in DOMAIN r.receipts /\ req'[c].receipts[k] = r.receipts[k + 1]
         /\ k \in Nat /\ k >= 1
  BY <1>1, <1>2
<1>18. \A k \in DOMAIN req'[c].receipts : LET y == req'[c].receipts[k] IN
         /\ PoOf[y.line] = r.po /\ y.excess = IsExcess(y.line, y.qty)
         /\ y.line \notin DOMAIN req'[c].wLine
         /\ \A j \in DOMAIN req'[c].receipts : req'[c].receipts[j].line = y.line => j = k
  <2> TAKE k \in DOMAIN req'[c].receipts
  <2> DEFINE y == req'[c].receipts[k]
  <2>1. y = r.receipts[k + 1] /\ k + 1 \in DOMAIN r.receipts /\ k + 1 # 1
    BY <1>17
  <2>2. /\ PoOf[y.line] = r.po /\ y.excess = IsExcess(y.line, y.qty) /\ y.line \notin DOMAIN r.wLine
        /\ \A j \in DOMAIN r.receipts : r.receipts[j].line = y.line => j = k + 1
    BY <1>8, <2>1 DEF GrnKnows
  <2>3. y.line # x.line
    BY <1>1, <2>1, <2>2
  <2>4. \A j \in DOMAIN req'[c].receipts : req'[c].receipts[j].line = y.line => j = k
    BY <1>17, <2>2
  <2>5. y.line \notin DOMAIN req'[c].wLine
    BY <1>13, <2>2, <2>3
  <2> QED BY <2>2, <2>4, <2>5
<1>19. ASSUME NEW l \in DOMAIN req'[c].wLine
       PROVE  /\ PoOf[l] = r.po /\ req'[c].wLine[l].ordered = line[l].ordered
              /\ \E k \in DOMAIN req'[c].wGrn :
                   /\ req'[c].wGrn[k].line = l
                   /\ req'[c].wGrn[k].excess = IsExcess(l, req'[c].wGrn[k].qty)
                   /\ req'[c].wLine[l].received = line[l].received + req'[c].wGrn[k].qty
  <2>1. CASE l = x.line
    <3>1. /\ GrnLine(x).line = x.line /\ GrnLine(x).qty = x.qty /\ GrnLine(x).excess = x.excess
      BY <1>1, ReceiptFields
    <3>2. /\ req'[c].wGrn[Len(r.wGrn) + 1].line = l
          /\ req'[c].wGrn[Len(r.wGrn) + 1].excess = IsExcess(l, req'[c].wGrn[Len(r.wGrn) + 1].qty)
          /\ req'[c].wLine[l].received = line[l].received + req'[c].wGrn[Len(r.wGrn) + 1].qty
      BY <1>3, <1>7, <1>14, <1>16, <2>1, <3>1
    <3> QED BY <1>3, <1>7, <1>14, <1>16, <2>1, <3>2
  <2>2. CASE l # x.line
    <3>1. l \in DOMAIN r.wLine /\ req'[c].wLine[l] = r.wLine[l]
      BY <1>13, <1>15, <2>2
    <3>2. PoOf[l] = r.po /\ r.wLine[l].ordered = line[l].ordered /\ Owes(r, l)
      BY <1>8, <3>1 DEF GrnKnows
    <3> QED BY <1>16, <3>1, <3>2 DEF Owes
  <2> QED BY <2>1, <2>2
<1>20. \A l \in DOMAIN req'[c].wLine :
         PoOf[l] = req'[c].po /\ req'[c].wLine[l].ordered = line'[l].ordered /\ Owes(req[c], l)'
  BY <1>2, <1>19 DEF Owes, IsExcess
<1>21. po[r.po].status \in RECEIVABLE_PO_STATUSES
  BY <1>8 DEF GrnKnows
<1>22. \A k \in DOMAIN req'[c].receipts : LET y == req'[c].receipts[k] IN
         /\ PoOf[y.line] = req'[c].po /\ y.excess = (y.qty > line'[y.line].ordered - line'[y.line].received)
         /\ y.line \notin DOMAIN req'[c].wLine
         /\ \A j \in DOMAIN req'[c].receipts : req'[c].receipts[j].line = y.line => j = k
  BY <1>2, <1>18 DEF IsExcess
<1> QED BY <1>2, <1>13, <1>20, <1>21, <1>22 DEF GrnKnows, IsExcess

LEMMA AdvanceKnows ==
  ASSUME TypeInv, NEW c \in InFlight, Advance(c), Knows(req[c])
  PROVE  Knows(req[c])'
<1>1. CASE Done(c)
  BY <1>1, DoneKnows
<1>2. CASE amendLine(c)
  <2>1. UNCHANGED <<po, line>> /\ AmendKnows(req[c])
    BY <1>2, AmendLine DEF amendLine, Knows
  <2>2. AmendKnows(req[c])'
    BY <1>2, <2>1, AmendLine DEF AmendKnows
  <2> QED BY <1>2, <2>2, AmendLine DEF Knows
<1>3. CASE amendPurchaseOrder(c)
  <2>1. UNCHANGED <<po, line>> /\ AmendKnows(req[c])
    BY <1>3, AmendTotal DEF amendPurchaseOrder, Knows
  <2>2. AmendKnows(req[c])'
    BY <1>3, <2>1, AmendTotal DEF AmendKnows
  <2> QED BY <1>3, <2>2, AmendTotal DEF Knows
<1>4. CASE grnReadStock(c)
  <2>1. UNCHANGED <<po, line>> /\ GrnKnows(req[c])
    BY <1>4, GrnRead DEF grnReadStock, Knows
  <2>2. /\ \A l, q : IsExcess(l, q)' = IsExcess(l, q)
        /\ \A l : Owes(req[c], l)' = Owes(req[c], l)
    BY <1>4, <2>1, GrnRead DEF IsExcess, Owes
  <2>3. GrnKnows(req[c])'
    BY <1>4, <2>1, <2>2, GrnRead DEF GrnKnows
  <2> QED BY <1>4, <2>3, GrnRead DEF Knows
<1>5. CASE createGrnLine(c)
  <2>1. UNCHANGED <<po, line>> /\ GrnKnows(req[c])
    BY <1>5, CreateGrn DEF createGrnLine, Knows
  <2>2. req'[c].op = "grn"
    BY <1>5, CreateGrn
  <2> QED BY <1>5, <2>1, <2>2, CreateKnows DEF Knows
<1>6. CASE grnRecompute(c)
  <2>1. UNCHANGED <<po, line>> /\ GrnKnows(req[c])
    BY <1>6, GrnRecompute DEF grnRecompute, Knows
  <2>2. /\ \A l, q : IsExcess(l, q)' = IsExcess(l, q)
        /\ \A l : Owes(req[c], l)' = Owes(req[c], l)
    BY <1>6, <2>1, GrnRecompute DEF IsExcess, Owes
  <2>3. /\ req'[c].row = po'[req'[c].po] /\ req'[c].receipts = << >>
        /\ req'[c].to = recomputePoReceiptStatus(req[c].po, req[c].row.status, Over(line, req[c].wLine))'
    BY <1>6, <2>1, GrnRecompute DEF LineView
  <2>4. GrnKnows(req[c])'
    BY <1>6, <2>1, <2>2, <2>3, GrnRecompute DEF GrnKnows
  <2> QED BY <1>6, <2>4, GrnRecompute DEF Knows
<1>7. CASE inspectInsert(c)
  BY <1>7, InspectInsert DEF Knows
<1> QED BY <1>1, <1>2, <1>3, <1>4, <1>5, <1>6, <1>7 DEF Advance, updatePurchaseOrderStatus, Commit,
      inspectGrnLineItem, adjustStock, Rollback

-----------------------------------------------------------------------------
(* What a step does to the orders *)

LEMMA IndexIs ==
  /\ IndexOf("Draft") = 1 /\ IndexOf("PendingApproval") = 2 /\ IndexOf("Approved") = 3
  /\ IndexOf("SentToSupplier") = 4 /\ IndexOf("SupplierConfirmed") = 5
  /\ IndexOf("PartiallyReceived") = 6 /\ IndexOf("FullyReceived") = 7
<1>1. DOMAIN STATUS_FLOW = {1, 2, 3, 4, 5, 6, 7}
  BY DEF STATUS_FLOW
<1>2. /\ STATUS_FLOW[1] = "Draft" /\ STATUS_FLOW[2] = "PendingApproval" /\ STATUS_FLOW[3] = "Approved"
      /\ STATUS_FLOW[4] = "SentToSupplier" /\ STATUS_FLOW[5] = "SupplierConfirmed"
      /\ STATUS_FLOW[6] = "PartiallyReceived" /\ STATUS_FLOW[7] = "FullyReceived"
  BY DEF STATUS_FLOW
<1> HIDE DEF STATUS_FLOW
<1>3. ASSUME NEW k \in DOMAIN STATUS_FLOW
      PROVE  IndexOf(STATUS_FLOW[k]) = k
  <2>1. \A j \in DOMAIN STATUS_FLOW : STATUS_FLOW[j] = STATUS_FLOW[k] => j = k
    BY <1>1, <1>2
  <2>2. \E j \in DOMAIN STATUS_FLOW : STATUS_FLOW[j] = STATUS_FLOW[k]
    OBVIOUS
  <2> QED BY <2>1, <2>2 DEF IndexOf
<1> QED BY <1>1, <1>2, <1>3

\* A client moves an order forward, and not past SupplierConfirmed.
LEMMA ClientMove ==
  ASSUME NEW s, NEW to \in ClientNext(s)
  PROVE  /\ s \in Early \ {"Absent"} /\ to \in Early \ {"Absent"}
         /\ IndexOf(to) >= IndexOf(s)
<1>1. s \in Flow \ {"FullyReceived"} /\ to = STATUS_FLOW[IndexOf(s) + 1] /\ to \notin SYSTEM_DRIVEN_STATUSES
  BY DEF ClientNext, LinearNext
<1>2. s \in {"Draft", "PendingApproval", "Approved", "SentToSupplier", "SupplierConfirmed",
             "PartiallyReceived"}
  BY <1>1, FlowIs
<1>3. /\ STATUS_FLOW[2] = "PendingApproval" /\ STATUS_FLOW[3] = "Approved"
      /\ STATUS_FLOW[4] = "SentToSupplier" /\ STATUS_FLOW[5] = "SupplierConfirmed"
      /\ STATUS_FLOW[6] = "PartiallyReceived" /\ STATUS_FLOW[7] = "FullyReceived"
  BY DEF STATUS_FLOW
<1>4. CASE s = "Draft"
  BY <1>1, <1>3, <1>4, IndexIs DEF Early
<1>5. CASE s = "PendingApproval"
  BY <1>1, <1>3, <1>5, IndexIs DEF Early
<1>6. CASE s = "Approved"
  BY <1>1, <1>3, <1>6, IndexIs DEF Early
<1>7. CASE s = "SentToSupplier"
  BY <1>1, <1>3, <1>7, IndexIs DEF Early
<1>8. CASE s \in {"SupplierConfirmed", "PartiallyReceived"}
  BY <1>1, <1>3, <1>8, IndexIs DEF SYSTEM_DRIVEN_STATUSES
<1> QED BY <1>2, <1>4, <1>5, <1>6, <1>7, <1>8

\* Nothing is ordered, received or moved on.
Quiet ==
  /\ po' = po
  /\ \A l \in PoLines : line'[l].ordered = line[l].ordered /\ line'[l].received = line[l].received

\* A new order; a change of status by a client; the end of an amendment or of a receipt.
LEMMA StepKind ==
  ASSUME TypeInv, NEW c \in InFlight, Request(c) \/ Advance(c)
  PROVE  \/ Quiet
         \/ \E p \in Orders : \E qty \in [LinesOf(p) -> Limit.ordered] : createPurchaseOrder(c, p, qty)
         \/ updatePurchaseOrderStatus(c) \/ Commit(c)
<1>1. CASE inspectGrnLineItem(c)
  BY <1>1, Inspected DEF Quiet
<1>2. UNCHANGED <<po, line>> => Quiet
  BY DEF Quiet
<1> QED BY <1>1, <1>2 DEF Request, Advance, statusLoad, amendLoad, grnLoad, inspectLoad, adjustLoad,
      amendLine, amendPurchaseOrder, grnReadStock, createGrnLine, grnRecompute, inspectInsert,
      adjustStock, Rollback

LEMMA QuietStep ==
  ASSUME Quiet, NEW p \in Orders, StatusTrue(po[p], p)
  PROVE  StatusTrue(po[p], p)' /\ Position(po'[p]) = Position(po[p])
BY DEF Quiet, StatusTrue, EverythingReceived, Position, LinesOf

LEMMA CreateStep ==
  ASSUME TypeInv, NEW c \in InFlight, NEW q \in Orders, NEW qty \in [LinesOf(q) -> Limit.ordered],
         createPurchaseOrder(c, q, qty), NEW p \in Orders, StatusTrue(po[p], p)
  PROVE  /\ StatusTrue(po[p], p)'
         /\ \A l \in PoLines : line'[l].received = line[l].received
         /\ p = q => po[p].status = "Absent" /\ po'[p].status = "Draft"
         /\ p # q => po'[p] = po[p]
<1>1. /\ po[q].status = "Absent"
      /\ po' = [po EXCEPT ![q].status = "Draft", ![q].total = OrderTotal(q, line')]
      /\ line' = [l \in PoLines |-> IF l \in LinesOf(q) THEN [line[l] EXCEPT !.ordered = qty[l]]
                                    ELSE line[l]]
  BY DEF createPurchaseOrder
<1>2. po'[q].status = "Draft" /\ (p # q => po'[p] = po[p])
  BY <1>1 DEF TypeInv, RowsType, PoRow
<1>3. /\ \A l \in PoLines : line'[l].received = line[l].received
      /\ \A l \in PoLines : l \notin LinesOf(q) => line'[l] = line[l]
  BY <1>1 DEF TypeInv, RowsType, LineRow
<1>4. CASE p = q
  <2>1. po[p].status = "Absent" /\ po'[p].status = "Draft" /\ LinesOf(p) \subseteq PoLines
    BY <1>1, <1>2, <1>4 DEF LinesOf
  <2>2. Position(po[p]) = "Absent" /\ Position(po'[p]) = "Draft"
    BY <2>1 DEF Position
  <2>3. \A l \in LinesOf(p) : line'[l].received = 0
    BY <1>3, <2>1, <2>2 DEF StatusTrue, Early
  <2>4. LinesOf(p)' = LinesOf(p)
    BY DEF LinesOf
  <2>5. StatusTrue(po[p], p)'
    BY <2>1, <2>2, <2>3, <2>4 DEF StatusTrue
  <2> QED BY <1>3, <1>4, <2>1, <2>5
<1>5. CASE p # q
  <2>1. \A l \in LinesOf(p) : line'[l] = line[l]
    BY <1>3, <1>5 DEF LinesOf
  <2>2. LinesOf(p)' = LinesOf(p) /\ po'[p] = po[p] /\ Position(po[p])' = Position(po[p])
    BY <1>2, <1>5 DEF LinesOf, Position
  <2>3. StatusTrue(po[p], p)'
    BY <2>1, <2>2 DEF StatusTrue, EverythingReceived
  <2> QED BY <1>3, <1>5, <2>2, <2>3
<1> QED BY <1>1, <1>2, <1>3, <1>4, <1>5

\* A client's change: out of the flow, into a hold or out of one where the order
\* was, or forward before anything is received.
LEMMA StatusStep ==
  ASSUME TypeInv, NEW c \in InFlight, updatePurchaseOrderStatus(c), Knows(req[c]),
         NEW p \in Orders, StatusTrue(po[p], p)
  PROVE  /\ StatusTrue(po[p], p)' /\ line' = line
         /\ \/ Position(po'[p]) = Position(po[p])
            \/ Position(po'[p]) \in {"Cancelled", "Rejected"}
            \/ Position(po[p]) \in Flow /\ IndexOf(Position(po'[p])) >= IndexOf(Position(po[p]))
<1> DEFINE q == req[c].po
           row == po[q]
           held == IF req[c].to = "OnHold" THEN req[c].row.status ELSE "Absent"
<1>1. /\ req[c].op = "status" /\ line' = line
      /\ po' = [po EXCEPT ![q].status = req[c].to, ![q].heldFrom = held]
  BY DEF updatePurchaseOrderStatus, At
<1>2. q \in Orders /\ row \in PoRow /\ row.status \in Status /\ row.heldFrom \in Status
  BY Fields DEF TypeInv, RowsType, PoRow
<1>3. /\ req[c].row = row /\ req[c].to \in getAllowedNextStatuses(row) /\ row.status # "Absent"
  BY <1>1 DEF Knows
<1>4. /\ po'[q].status = req[c].to /\ po'[q].heldFrom = held
      /\ p # q => po'[p] = po[p]
  BY <1>1, <1>2 DEF TypeInv, RowsType, PoRow
<1>5. CASE p # q
  BY <1>1, <1>4, <1>5 DEF StatusTrue, Position, EverythingReceived, LinesOf
<1>6. CASE p = q
  <2>1. row.status \notin TERMINAL_STATUSES
    BY <1>3 DEF getAllowedNextStatuses, Terminal
  <2>2. CASE req[c].to \in {"Cancelled", "Rejected"}
    <3>1. po'[p].status \in {"Cancelled", "Rejected"}
      BY <1>4, <1>6, <2>2
    <3>2. Position(po'[p]) \in {"Cancelled", "Rejected"} /\ po'[p].status # "OnHold"
      BY <3>1 DEF Position
    <3>3. StatusTrue(po[p], p)'
      BY <3>2 DEF StatusTrue, Early
    <3> QED BY <1>1, <3>2, <3>3
  <2>3. CASE req[c].to = "OnHold" /\ row.status # "OnHold"
    <3>1. held = row.status /\ row.status \in Flow \ {"FullyReceived"}
      BY <1>2, <1>3, <2>1, <2>3 DEF Status, TERMINAL_STATUSES
    <3>2. po'[p].status = "OnHold" /\ po'[p].heldFrom = row.status
      BY <1>4, <1>6, <2>3, <3>1
    <3>3. Position(po'[p]) = Position(po[p])
      BY <1>6, <2>3, <3>2 DEF Position
    <3> QED BY <1>1, <1>6, <3>1, <3>2, <3>3 DEF StatusTrue, EverythingReceived, LinesOf
  <2>4. CASE row.status = "OnHold" /\ req[c].to = row.heldFrom
    <3>1. row.heldFrom \in Flow \ {"FullyReceived"}
      BY <1>6, <2>4 DEF StatusTrue
    <3>2. po'[p].status = row.heldFrom /\ row.heldFrom # "OnHold"
      BY <1>4, <1>6, <2>4, <3>1, FlowIs
    <3>3. Position(po'[p]) = Position(po[p])
      BY <1>6, <2>4, <3>2 DEF Position
    <3> QED BY <1>1, <1>6, <3>1, <3>2, <3>3 DEF StatusTrue, EverythingReceived, LinesOf
  <2>5. CASE row.status # "OnHold" /\ req[c].to \in ClientNext(row.status)
    <3>1. /\ row.status \in Early \ {"Absent"} /\ req[c].to \in Early \ {"Absent"}
          /\ IndexOf(req[c].to) >= IndexOf(row.status)
      BY <2>5, ClientMove
    <3>2. Position(po'[p]) = req[c].to /\ Position(po[p]) = row.status /\ po'[p].status # "OnHold"
      BY <1>4, <1>6, <2>5, <3>1 DEF Position, Early
    <3>3. \A l \in LinesOf(p) : line[l].received = 0
      BY <1>6, <3>1, <3>2 DEF StatusTrue
    <3>4. Position(po[p]) \in Flow
      BY <3>1, <3>2, FlowIs DEF Early
    <3> QED BY <1>1, <3>1, <3>2, <3>3, <3>4 DEF StatusTrue, Early, LinesOf
  <2>6. \/ req[c].to \in {"Cancelled", "Rejected"}
        \/ req[c].to = "OnHold" /\ row.status # "OnHold"
        \/ row.status = "OnHold" /\ req[c].to = row.heldFrom
        \/ row.status # "OnHold" /\ req[c].to \in ClientNext(row.status)
    BY <1>3 DEF getAllowedNextStatuses, Terminal, getPreHoldStatus
  <2> QED BY <2>2, <2>3, <2>4, <2>5, <2>6
<1> QED BY <1>1, <1>5, <1>6

\* The end of an amendment: nothing is received, and an order that is complete
\* is not amended.
LEMMA AmendStep ==
  ASSUME TypeInv, NEW c \in InFlight, Commit(c), req[c].op = "amend", Knows(req[c]),
         NEW p \in Orders, StatusTrue(po[p], p)
  PROVE  /\ StatusTrue(po[p], p)' /\ Position(po'[p]) = Position(po[p])
         /\ \A l \in PoLines : line'[l].received = line[l].received
<1> DEFINE q == req[c].po
<1>1. /\ po'[p].status = po[p].status /\ po'[p].heldFrom = po[p].heldFrom
      /\ line' = LineView(c) /\ q \in Orders
  BY Committed, Fields
<1>2. /\ po[q].status \notin TERMINAL_STATUSES \cup {"Absent"}
      /\ \A l \in DOMAIN req[c].wLine :
           PoOf[l] = q /\ req[c].wLine[l].received = line[l].received
  BY DEF Knows, AmendKnows
<1>3. \A l \in PoLines : line'[l].received = line[l].received
  BY <1>1, <1>2, Views
<1>4. \A l \in LinesOf(p) : p # q => line'[l] = line[l]
  BY <1>1, <1>2, Views DEF LinesOf
<1>5. Position(po'[p]) = Position(po[p]) /\ LinesOf(p)' = LinesOf(p) /\ LinesOf(p) \subseteq PoLines
  BY <1>1 DEF Position, LinesOf
<1>6. Position(po[p]) = "FullyReceived" => EverythingReceived(p)'
  <2> SUFFICES ASSUME Position(po[p]) = "FullyReceived" PROVE EverythingReceived(p)'
    OBVIOUS
  <2>1. po[p].status = "FullyReceived"
    BY DEF StatusTrue, Position
  <2>2. p # q
    BY <1>2, <2>1 DEF TERMINAL_STATUSES
  <2> QED BY <1>4, <1>5, <2>2 DEF StatusTrue, EverythingReceived
<1> QED BY <1>1, <1>3, <1>5, <1>6 DEF StatusTrue

\* The end of a receipt: what it has received was missing or is approved as
\* excess, and the status is that of its own lines.
LEMMA ReceiptStep ==
  ASSUME TypeInv, NEW c \in InFlight, Commit(c), req[c].op = "grn", Knows(req[c]),
         NEW p \in Orders, StatusTrue(po[p], p)
  PROVE  /\ StatusTrue(po[p], p)'
         /\ \/ Position(po'[p]) = Position(po[p])
            \/ /\ Position(po[p]) \in RECEIVABLE_PO_STATUSES
               /\ Position(po'[p]) \in {"PartiallyReceived", "FullyReceived"}
         /\ (\E l \in LinesOf(p) : line'[l].received > line[l].received) /\ EverythingReceived(p)'
              => po'[p].status = "FullyReceived"
         /\ \A l \in PoLines : line'[l].received > line[l].received =>
              \E k \in DOMAIN req[c].wGrn :
                /\ req[c].wGrn[k].line = l
                /\ line'[l].received > line'[l].ordered => req[c].wGrn[k].excess
<1> DEFINE r == req[c]
           q == r.po
<1>1. r.pc = "tx" /\ GrnKnows(r)
  BY Committed DEF Knows
<1>2. /\ line' = LineView(c) /\ q \in Orders /\ r.wGrn \in Seq(GrnRow)
      /\ po'[p].heldFrom = po[p].heldFrom
      /\ po'[p].status = IF p = q /\ r.to # r.row.status THEN r.to ELSE po[p].status
  BY Committed, Fields
<1>3. /\ line' \in [PoLines -> LineRow] /\ line \in [PoLines -> LineRow]
      /\ \A l \in PoLines : line'[l] = IF l \in DOMAIN r.wLine THEN r.wLine[l] ELSE line[l]
  BY <1>2, Views DEF TypeInv, RowsType
<1>4. /\ r.row = po[q] /\ po[q].status \in RECEIVABLE_PO_STATUSES
      /\ r.to = recomputePoReceiptStatus(q, po[q].status, line')
      /\ DOMAIN r.wLine # {}
  BY <1>1, <1>2 DEF GrnKnows, LineView
<1>5. DOMAIN r.wLine \subseteq PoLines
  BY Fields DEF Written
<1>6. ASSUME NEW l \in DOMAIN r.wLine
      PROVE  /\ PoOf[l] = q /\ line'[l].ordered = line[l].ordered
             /\ \E k \in DOMAIN r.wGrn :
                  /\ r.wGrn[k].line = l /\ r.wGrn[k].qty \in Nat /\ r.wGrn[k].qty >= 1
                  /\ r.wGrn[k].excess = IsExcess(l, r.wGrn[k].qty)
                  /\ line'[l].received = line[l].received + r.wGrn[k].qty
  <2>1. PoOf[l] = q /\ r.wLine[l].ordered = line[l].ordered /\ Owes(r, l)
    BY <1>1 DEF GrnKnows
  <2>2. line'[l] = r.wLine[l]
    BY <1>3, <1>5
  <2>3. PICK k \in DOMAIN r.wGrn :
          /\ r.wGrn[k].line = l /\ r.wGrn[k].excess = IsExcess(l, r.wGrn[k].qty)
          /\ r.wLine[l].received = line[l].received + r.wGrn[k].qty
    BY <2>1 DEF Owes
  <2>4. r.wGrn[k].qty \in Nat /\ r.wGrn[k].qty >= 1
    <3>1. r.wGrn[k] \in GrnRow
      BY <1>2
    <3> QED BY <3>1, PoAssumption DEF GrnRow, Qty
  <2> QED BY <2>1, <2>2, <2>3, <2>4
<1>7. \A l \in PoLines : /\ line[l].received \in Nat /\ line[l].ordered \in Nat
                         /\ line'[l].received \in Nat /\ line'[l].ordered \in Nat
  BY <1>3 DEF LineRow
<1>8. LinesOf(p)' = LinesOf(p) /\ LinesOf(p) \subseteq PoLines
  BY DEF LinesOf
<1>9. \A l \in PoLines : line'[l].received > line[l].received => l \in DOMAIN r.wLine
  BY <1>3, <1>7
<1>10. \A l \in PoLines : line'[l].received > line[l].received =>
         \E k \in DOMAIN r.wGrn :
           /\ r.wGrn[k].line = l
           /\ line'[l].received > line'[l].ordered => r.wGrn[k].excess
  <2> SUFFICES ASSUME NEW l \in PoLines, line'[l].received > line[l].received
               PROVE  \E k \in DOMAIN r.wGrn :
                        /\ r.wGrn[k].line = l
                        /\ line'[l].received > line'[l].ordered => r.wGrn[k].excess
    OBVIOUS
  <2>1. PICK k \in DOMAIN r.wGrn :
          /\ r.wGrn[k].line = l /\ r.wGrn[k].qty \in Nat
          /\ r.wGrn[k].excess = IsExcess(l, r.wGrn[k].qty)
          /\ line'[l].received = line[l].received + r.wGrn[k].qty
    BY <1>6, <1>9
  <2>2. line'[l].ordered = line[l].ordered
    BY <1>6, <1>9
  <2>3. line'[l].received > line'[l].ordered => r.wGrn[k].excess
    <3> SUFFICES ASSUME line'[l].received > line'[l].ordered PROVE r.wGrn[k].excess
      OBVIOUS
    <3>1. IsExcess(l, r.wGrn[k].qty)
      BY <1>7, <2>1, <2>2 DEF IsExcess
    <3> QED BY <2>1, <3>1, Zenon
  <2> QED BY <2>1, <2>3
<1>11. CASE p # q
  <2>1. \A l \in LinesOf(p) : line'[l] = line[l]
    BY <1>3, <1>6, <1>11 DEF LinesOf
  <2>2. Position(po'[p]) = Position(po[p]) /\ po'[p].status = po[p].status
    BY <1>2, <1>11 DEF Position
  <2>3. StatusTrue(po[p], p)'
    BY <1>2, <1>8, <2>1, <2>2 DEF StatusTrue, EverythingReceived
  <2>4. ~ \E l \in LinesOf(p) : line'[l].received > line[l].received
    BY <1>7, <1>8, <2>1
  <2> QED BY <1>10, <2>2, <2>3, <2>4
<1>12. CASE p = q
  <2>1. po'[p].status = recomputePoReceiptStatus(q, po[q].status, line')
    BY <1>2, <1>4, <1>12
  <2>2. \E l \in LinesOf(q) : line'[l].received > 0
    <3>1. PICK l \in DOMAIN r.wLine : TRUE
      BY <1>4
    <3>2. l \in LinesOf(q) /\ line'[l].received > 0
      BY <1>5, <1>6, <1>7 DEF LinesOf
    <3> QED BY <3>2
  <2>3. po'[p].status = IF AllFullyReceived(q, line') THEN "FullyReceived" ELSE "PartiallyReceived"
    BY <1>4, <2>1, <2>2 DEF recomputePoReceiptStatus
  <2>4. AllFullyReceived(q, line') <=> EverythingReceived(p)'
    BY <1>12 DEF AllFullyReceived, EverythingReceived, LinesOf
  <2>5. /\ Position(po'[p]) = po'[p].status /\ po'[p].status \in {"FullyReceived", "PartiallyReceived"}
        /\ Position(po[p]) \in RECEIVABLE_PO_STATUSES
    BY <1>4, <1>12, <2>3 DEF Position, RECEIVABLE_PO_STATUSES
  <2>6. StatusTrue(po[p], p)'
    BY <1>8, <1>12, <2>2, <2>3, <2>4, <2>5 DEF StatusTrue, Early
  <2> QED BY <1>10, <2>3, <2>4, <2>5, <2>6
<1> QED BY <1>11, <1>12

-----------------------------------------------------------------------------
(* Stock and ledger *)

LEMMA NothingWritten ==
  ASSUME NEW f \in [Items -> Int], NEW it \in Items
  PROVE  Over(f, NoWrite)[it] = f[it]
BY DEF Over, NoWrite

\* A request that begins, or that ends leaving stock and ledger equal, keeps them so.
LEMMA FreshStock ==
  ASSUME TypeInv, TypeInv', NEW c \in InFlight, InFlight' = InFlight,
         \A it \in Items : stock'[it] = moves'[it],
         req'[c].wStock = NoWrite, req'[c].wMoves = NoWrite, req'[c].pc # "stock",
         req'[c].op = "adjust" => req'[c].seen = stock'[req'[c].item]
  PROVE  StockKnows(req[c])'
<1>1. stock' \in [Items -> Int] /\ moves' \in [Items -> Int]
  BY DEF TypeInv, RowsType
<1>2. \A it \in Items : Over(stock', NoWrite)[it] = Over(moves', NoWrite)[it]
  BY <1>1, NothingWritten
<1> QED BY <1>2 DEF StockKnows

LEMMA DoneStock ==
  ASSUME TypeInv, TypeInv', NEW c \in InFlight, InFlight' = InFlight, Done(c),
         \A it \in Items : stock'[it] = moves'[it]
  PROVE  StockKnows(req[c])'
<1>1. req'[c] = Idle
  BY DEF Done, TypeInv
<1>2. /\ Idle.wStock = NoWrite /\ Idle.wMoves = NoWrite /\ Idle.pc = "idle" /\ Idle.op = "none"
  BY IdleFields, IdleType DEF RequestOK
<1> QED BY <1>1, <1>2, FreshStock

LEMMA RequestStock ==
  ASSUME TypeInv, TypeInv', NEW c \in InFlight, InFlight' = InFlight, Request(c),
         \A it \in Items : stock[it] = moves[it], StockKnows(req[c])
  PROVE  stock' = stock /\ moves' = moves /\ StockKnows(req[c])'
<1>1. \A r : Start(c, r) => req'[c] = r
  BY DEF Start, TypeInv
<1>2. CASE \E p \in Orders : \E qty \in [LinesOf(p) -> Limit.ordered] : createPurchaseOrder(c, p, qty)
  <2>1. UNCHANGED <<grn, stock, moves, req>>
    BY <1>2 DEF createPurchaseOrder
  <2> QED BY <2>1 DEF StockKnows
<1>3. ASSUME NEW it \in RawMaterials, NEW delta \in {-1, 1}, adjustLoad(c, it, delta)
      PROVE  stock' = stock /\ moves' = moves /\ StockKnows(req[c])'
  <2>1. /\ stock' = stock /\ moves' = moves
        /\ req'[c] = [Idle EXCEPT !.op = "adjust", !.pc = "loaded", !.item = it, !.delta = delta,
                                  !.seen = stock[it]]
    BY <1>1, <1>3 DEF adjustLoad
  <2>2. /\ req'[c].wStock = NoWrite /\ req'[c].wMoves = NoWrite /\ req'[c].pc = "loaded"
        /\ req'[c].seen = stock[it] /\ req'[c].item = it
    BY <2>1, IdleFields DEF RequestRow
  <2> QED BY <2>1, <2>2, FreshStock
<1>4. ASSUME ~ (\E it \in RawMaterials, delta \in {-1, 1} : adjustLoad(c, it, delta)),
             ~ (\E p \in Orders : \E qty \in [LinesOf(p) -> Limit.ordered] : createPurchaseOrder(c, p, qty))
      PROVE  stock' = stock /\ moves' = moves /\ StockKnows(req[c])'
  <2> DEFINE Fresh == /\ stock' = stock /\ moves' = moves
                      /\ req'[c].wStock = Idle.wStock /\ req'[c].wMoves = Idle.wMoves
                      /\ req'[c].pc # "stock" /\ req'[c].op # "adjust"
  <2>1. Fresh
    <3>1. ASSUME NEW p \in Orders, NEW to \in Status, statusLoad(c, p, to) PROVE Fresh
      BY <1>1, <3>1, IdleFields DEF statusLoad, RequestRow
    <3>2. ASSUME NEW l \in PoLines, NEW q \in Limit.ordered, amendLoad(c, l, q) PROVE Fresh
      BY <1>1, <3>2, IdleFields DEF amendLoad, RequestRow
    <3>3. ASSUME NEW p \in Orders, NEW receipts \in Receipts(p), grnLoad(c, p, receipts) PROVE Fresh
      BY <1>1, <3>3, IdleFields DEF grnLoad, RequestRow
    <3>4. ASSUME NEW i \in DOMAIN grn, NEW passed \in 0..MaxQty, NEW held \in 0..MaxQty,
                 NEW rejected \in 0..MaxQty, inspectLoad(c, i, passed, held, rejected)
          PROVE  Fresh
      BY <1>1, <3>4, IdleFields DEF inspectLoad, RequestRow
    <3> QED BY <1>4, <3>1, <3>2, <3>3, <3>4 DEF Request
  <2> QED BY <2>1, IdleFields, FreshStock
<1> QED BY <1>2, <1>3, <1>4

LEMMA AdvanceStock ==
  ASSUME TypeInv, TypeInv', NEW c \in InFlight, InFlight' = InFlight, Advance(c),
         \A it \in Items : stock[it] = moves[it], StockKnows(req[c])
  PROVE  StockKnows(req[c])' /\ \A it \in Items : stock'[it] = moves'[it]
<1> DEFINE r == req[c]
<1>1. /\ stock \in [Items -> Int] /\ moves \in [Items -> Int]
      /\ r.wStock \in Written(Items, Int) /\ r.wMoves \in Written(Items, Int)
  BY Fields DEF TypeInv, RowsType
<1>2. \A it \in Items : StockView(c)[it] = MovesView(c)[it]
  BY DEF StockKnows, StockView, MovesView
<1>3. CASE updatePurchaseOrderStatus(c) \/ Rollback(c)
  BY <1>3, DoneStock DEF updatePurchaseOrderStatus, Rollback
<1>4. CASE amendLine(c)
  <2>1. UNCHANGED <<stock, moves>>
    BY <1>4 DEF amendLine
  <2> QED BY <1>4, <2>1, AmendLine DEF StockKnows
<1>5. CASE amendPurchaseOrder(c)
  <2>1. UNCHANGED <<stock, moves>>
    BY <1>5 DEF amendPurchaseOrder
  <2> QED BY <1>5, <2>1, AmendTotal DEF StockKnows
<1>6. CASE grnReadStock(c)
  <2>1. UNCHANGED <<stock, moves>>
    BY <1>6 DEF grnReadStock
  <2> QED BY <1>6, <2>1, GrnRead DEF StockKnows, StockView
<1>7. CASE grnRecompute(c)
  <2>1. UNCHANGED <<stock, moves>>
    BY <1>7 DEF grnRecompute
  <2> QED BY <1>7, <2>1, GrnRecompute DEF StockKnows
<1>8. CASE Commit(c)
  <2>1. \A it \in Items : stock'[it] = moves'[it]
    BY <1>2, <1>8, Committed
  <2> QED BY <1>8, <2>1, Committed, DoneStock
<1>9. CASE inspectInsert(c)
  <2>1. UNCHANGED <<stock, moves, grn>>
    BY <1>9 DEF inspectInsert
  <2> QED BY <1>9, <2>1, InspectInsert DEF StockKnows
<1>10. CASE inspectGrnLineItem(c)
  <2> DEFINE it == ItemOf[grn[r.grnLine].line]
             n == r.passed
  <2>1. /\ it \in Items /\ n \in Nat /\ Done(c) /\ r.op = "inspect" /\ r.pc = "stock"
        /\ stock' = IF n = 0 THEN stock ELSE [stock EXCEPT ![it] = Credited(c, it, n)]
        /\ moves' = IF n = 0 THEN moves ELSE [moves EXCEPT ![it] = @ + n]
    BY <1>10, Inspected, Fields
  <2>2. r.seen = stock[it] /\ StockView(c)[it] = stock[it]
    <3>1. DOMAIN r.wStock = {}
      BY <2>1, Fields DEF RequestOK
    <3> QED BY <2>1, <3>1, Views DEF StockKnows
  <2> HIDE DEF it, n
  <2>3. Credited(c, it, n) = stock[it] + n
    BY <2>2 DEF Credited
  <2>4. \A x \in Items : stock'[x] = moves'[x]
    BY <1>1, <2>1, <2>3
  <2> QED BY <2>1, <2>4, DoneStock
<1>11. CASE adjustStock(c)
  <2>1. /\ stock' = [stock EXCEPT ![r.item] = r.seen + r.delta]
        /\ moves' = [moves EXCEPT ![r.item] = @ + r.delta]
        /\ Done(c) /\ r.op = "adjust" /\ r.item \in Items
    BY <1>11, Fields DEF adjustStock, At
  <2>2. r.seen = stock[r.item]
    BY <2>1 DEF StockKnows
  <2>3. \A x \in Items : stock'[x] = moves'[x]
    BY <1>1, <2>1, <2>2
  <2> QED BY <2>1, <2>3, DoneStock
<1>12. CASE createGrnLine(c)
  <2> DEFINE x == Head(r.receipts)
             it == ItemOf[x.line]
             n == Now(x)
  <2>1. UNCHANGED <<stock, moves>>
    BY <1>12 DEF createGrnLine
  <2>2. /\ r.op = "grn" /\ r.pc = "stock" /\ req'[c].op = "grn" /\ req'[c].pc = "line" /\ x \in Receipt
        /\ req'[c].wStock = IF n = 0 THEN r.wStock ELSE Put(r.wStock, it, Credited(c, it, n))
        /\ req'[c].wMoves = IF n = 0 THEN r.wMoves ELSE Put(r.wMoves, it, MovesView(c)[it] + n)
    BY <1>12, CreateGrn
  <2>3. it \in Items /\ n \in Nat
    BY <2>2, ReceiptFields
  <2>4. r.seen = StockView(c)[it]
    BY <2>2 DEF StockKnows, StockView
  <2> HIDE DEF x, it, n
  <2>5. Credited(c, it, n) = MovesView(c)[it] + n
    BY <1>2, <2>3, <2>4 DEF Credited
  <2>6. CASE n = 0
    BY <2>1, <2>2, <2>6 DEF StockKnows
  <2>7. CASE n # 0
    <3> DEFINE v == Credited(c, it, n)
    <3>1. v \in Int
      BY <2>3, CreditType
    <3>2. req'[c].wStock = Put(r.wStock, it, v) /\ req'[c].wMoves = Put(r.wMoves, it, v)
      BY <2>2, <2>5, <2>7
    <3> HIDE DEF v
    <3>3. \A y \in Items : Over(stock, Put(r.wStock, it, v))[y] =
            IF y = it THEN v ELSE StockView(c)[y]
      BY <1>1, <2>3, Views DEF Over, Put
    <3>4. \A y \in Items : Over(moves, Put(r.wMoves, it, v))[y] =
            IF y = it THEN v ELSE MovesView(c)[y]
      BY <1>1, <2>3, Views DEF Over, Put
    <3>5. \A y \in Items : Over(stock, Put(r.wStock, it, v))[y] = Over(moves, Put(r.wMoves, it, v))[y]
      BY <1>2, <3>3, <3>4
    <3> QED BY <2>1, <2>2, <3>2, <3>5 DEF StockKnows
  <2> QED BY <2>1, <2>6, <2>7
<1> QED BY <1>3, <1>4, <1>5, <1>6, <1>7, <1>8, <1>9, <1>10, <1>11, <1>12 DEF Advance

-----------------------------------------------------------------------------
(* The inductive invariant *)

LEMMA InitInv == Init => Inv
<1> SUFFICES ASSUME Init PROVE Inv
  OBVIOUS
<1>1. TypeInv
  BY InitType
<1>2. PICK cs \in (SUBSET Clients) \ {{}} : req = [c \in cs |-> Idle]
  BY DEF Init
<1>3. \A c \in InFlight : req[c] = Idle
  BY <1>2 DEF InFlight
<1>4. /\ Idle.op = "none" /\ Idle.pc = "idle" /\ Idle.wStock = NoWrite /\ Idle.wMoves = NoWrite
  BY IdleType, IdleFields DEF RequestOK
<1>5. /\ \A p \in Orders : po[p].status = "Absent"
      /\ \A l \in PoLines : line[l].received = 0
      /\ \A it \in Items : stock[it] = 0 /\ moves[it] = 0
  BY DEF Init, NoPo
<1>6. \A c \in InFlight : Knows(req[c])
  BY <1>3, <1>4 DEF Knows
<1>7. \A p \in Orders : StatusTrue(po[p], p)
  BY <1>5 DEF StatusTrue, Position, LinesOf
<1>8. \A it \in Items : Over(stock, NoWrite)[it] = stock[it] /\ Over(moves, NoWrite)[it] = moves[it]
  BY <1>1, NothingWritten DEF TypeInv, RowsType
<1>9. \A c \in InFlight : StockKnows(req[c])
  BY <1>3, <1>4, <1>5, <1>8 DEF StockKnows
<1> QED BY <1>1, <1>5, <1>6, <1>7, <1>9 DEF Inv, AloneInv, StockInv

\* With one request at a time a step keeps the status of every order true, moves
\* it forward or out of the flow, and receives only what a GRN line says.
LEMMA OrderStep ==
  ASSUME Inv, Alone, NEW c \in InFlight, Request(c) \/ Advance(c), NEW p \in Orders
  PROVE  /\ StatusTrue(po[p], p)'
         /\ Position(po[p]) \in Flow /\ Position(po'[p]) \in Flow =>
              IndexOf(Position(po'[p])) >= IndexOf(Position(po[p]))
         /\ (\E l \in LinesOf(p) : line'[l].received > line[l].received) /\ EverythingReceived(p)'
              => po'[p].status = "FullyReceived"
         /\ \A l \in LinesOf(p) :
              line'[l].received > line[l].received /\ line'[l].received > line'[l].ordered
              => \E i \in DOMAIN grn' \ DOMAIN grn : grn'[i].line = l /\ grn'[i].excess
<1>1. TypeInv /\ StatusTrue(po[p], p) /\ Knows(req[c])
  BY DEF Inv, AloneInv
<1>2. Position(po[p]) \in Flow => IndexOf(Position(po[p])) \in Int
  BY FlowIs, IndexIs
<1>3. LinesOf(p) \subseteq PoLines
  BY DEF LinesOf
<1>4. \A l \in PoLines : line[l].received \in Int
  BY <1>1 DEF TypeInv, RowsType, LineRow
<1>5. CASE Quiet
  <2>1. StatusTrue(po[p], p)' /\ Position(po'[p]) = Position(po[p])
    BY <1>1, <1>5, QuietStep
  <2>2. \A l \in LinesOf(p) : ~ (line'[l].received > line[l].received)
    BY <1>3, <1>4, <1>5 DEF Quiet
  <2> QED BY <1>2, <2>1, <2>2
<1>6. CASE \E q \in Orders : \E qty \in [LinesOf(q) -> Limit.ordered] : createPurchaseOrder(c, q, qty)
  <2>1. PICK q \in Orders : \E qty \in [LinesOf(q) -> Limit.ordered] : createPurchaseOrder(c, q, qty)
    BY <1>6
  <2>2. /\ StatusTrue(po[p], p)'
        /\ \A l \in PoLines : line'[l].received = line[l].received
        /\ po[p].status = "Absent" \/ po'[p] = po[p]
    BY <1>1, <2>1, CreateStep
  <2>3. \A l \in LinesOf(p) : ~ (line'[l].received > line[l].received)
    BY <1>3, <1>4, <2>2
  <2>4. po[p].status = "Absent" => Position(po[p]) \notin Flow
    BY FlowIs DEF Position
  <2> QED BY <1>2, <2>2, <2>3, <2>4
<1>7. CASE updatePurchaseOrderStatus(c)
  <2>1. /\ StatusTrue(po[p], p)' /\ line' = line
        /\ \/ Position(po'[p]) = Position(po[p])
           \/ Position(po'[p]) \in {"Cancelled", "Rejected"}
           \/ Position(po[p]) \in Flow /\ IndexOf(Position(po'[p])) >= IndexOf(Position(po[p]))
    BY <1>1, <1>7, StatusStep
  <2>2. \A l \in LinesOf(p) : ~ (line'[l].received > line[l].received)
    BY <1>3, <1>4, <2>1
  <2> QED BY <1>2, <2>1, <2>2, FlowIs
<1>8. CASE Commit(c) /\ req[c].op = "amend"
  <2>1. /\ StatusTrue(po[p], p)' /\ Position(po'[p]) = Position(po[p])
        /\ \A l \in PoLines : line'[l].received = line[l].received
    BY <1>1, <1>8, AmendStep
  <2>2. \A l \in LinesOf(p) : ~ (line'[l].received > line[l].received)
    BY <1>3, <1>4, <2>1
  <2> QED BY <1>2, <2>1, <2>2
<1>9. CASE Commit(c) /\ req[c].op = "grn"
  <2>1. /\ StatusTrue(po[p], p)'
        /\ \/ Position(po'[p]) = Position(po[p])
           \/ /\ Position(po[p]) \in RECEIVABLE_PO_STATUSES
              /\ Position(po'[p]) \in {"PartiallyReceived", "FullyReceived"}
        /\ (\E l \in LinesOf(p) : line'[l].received > line[l].received) /\ EverythingReceived(p)'
             => po'[p].status = "FullyReceived"
        /\ \A l \in PoLines : line'[l].received > line[l].received =>
             \E k \in DOMAIN req[c].wGrn :
               /\ req[c].wGrn[k].line = l
               /\ line'[l].received > line'[l].ordered => req[c].wGrn[k].excess
    BY <1>1, <1>9, ReceiptStep
  <2>2. Position(po[p]) \in Flow /\ Position(po'[p]) \in Flow =>
          IndexOf(Position(po'[p])) >= IndexOf(Position(po[p]))
    BY <1>2, <2>1, IndexIs DEF RECEIVABLE_PO_STATUSES
  <2>3. ASSUME NEW l \in LinesOf(p), line'[l].received > line[l].received,
               line'[l].received > line'[l].ordered
        PROVE  \E i \in DOMAIN grn' \ DOMAIN grn : grn'[i].line = l /\ grn'[i].excess
    <3>1. PICK k \in DOMAIN req[c].wGrn : req[c].wGrn[k].line = l /\ req[c].wGrn[k].excess
      BY <1>3, <2>1, <2>3
    <3>2. grn \in Seq(GrnRow) /\ req[c].wGrn \in Seq(GrnRow) /\ grn' = grn \o req[c].wGrn
      BY <1>1, <1>9, Committed, Fields DEF TypeInv, RowsType
    <3> DEFINE i == Len(grn) + k
    <3>3. i \in DOMAIN grn' \ DOMAIN grn /\ grn'[i] = req[c].wGrn[k]
      BY <3>1, <3>2
    <3> QED BY <3>1, <3>3
  <2> QED BY <2>1, <2>2, <2>3
<1>10. Commit(c) => req[c].op \in {"amend", "grn"}
  BY <1>1, Committed
<1> QED BY <1>1, <1>5, <1>6, <1>7, <1>8, <1>9, <1>10, StepKind

LEMMA StepInv == Inv /\ [Next]_vars => Inv'
<1> SUFFICES ASSUME Inv, [Next]_vars PROVE Inv'
  OBVIOUS
<1>1. TypeInv /\ TypeInv'
  BY TypeStep DEF Inv
<1>2. CASE UNCHANGED vars
  BY <1>1, <1>2 DEF vars, Inv, AloneInv, StockInv, Alone, InFlight, Knows, AmendKnows, GrnKnows, Owes, IsExcess,
     StatusTrue, EverythingReceived, StockKnows
<1>3. ASSUME NEW c \in InFlight, Request(c) \/ Advance(c)
      PROVE  Inv'
  <2>1. InFlight' = InFlight /\ (Alone' <=> Alone)
    BY <1>1, <1>3, SameClients DEF Alone
  <2>2. ASSUME Alone
        PROVE  /\ \A d \in InFlight : Knows(req[d])' /\ StockKnows(req[d])'
               /\ \A p \in Orders : StatusTrue(po[p], p)'
               /\ \A it \in Items : stock'[it] = moves'[it]
    <3>1. InFlight = {c}
      BY <1>1, <2>2, Lone
    <3>2. /\ Knows(req[c]) /\ StockKnows(req[c]) /\ \A it \in Items : stock[it] = moves[it]
      BY <2>2 DEF Inv, AloneInv, StockInv
    <3>3. Knows(req[c])'
      BY <1>1, <1>3, <3>2, RequestKnows, AdvanceKnows
    <3>4. StockKnows(req[c])' /\ \A it \in Items : stock'[it] = moves'[it]
      BY <1>1, <1>3, <2>1, <3>2, RequestStock, AdvanceStock
    <3>5. \A p \in Orders : StatusTrue(po[p], p)'
      BY <1>3, <2>2, OrderStep
    <3> QED BY <3>1, <3>3, <3>4, <3>5
  <2>3. AloneInv' /\ StockInv'
    BY <2>1, <2>2 DEF AloneInv, StockInv
  <2> QED BY <1>1, <2>3 DEF Inv
<1> QED BY <1>2, <1>3 DEF Next

LEMMA AlwaysInv == Spec => []Inv
BY InitInv, StepInv, PTL DEF Spec

\* With one request at a time the receipt status of every order tells what has
\* come in, on hold or not (recomputePoReceiptStatus, updatePurchaseOrderStatus).
THEOREM ReceiptStatusTrue == Spec => []ReceiptStatusSound
<1>1. Inv => ReceiptStatusSound
  BY DEF Inv, AloneInv, StatusTrue, ReceiptStatusSound, Early
<1> QED BY <1>1, AlwaysInv, PTL

\* With one request at a time the stock of every item is the sum of its ledger
\* (adjustStock, creditPurchaseItemStock).
THEOREM StockIsItsLedger == Spec => []StockMatchesLedger
<1>1. Inv => StockMatchesLedger
  BY DEF Inv, StockInv, StockMatchesLedger
<1> QED BY <1>1, AlwaysInv, PTL

\* With one request at a time an order never goes back in the flow, through any
\* number of holds (updatePurchaseOrderStatus, getPreHoldStatus).
THEOREM OrdersMoveForward == Spec => NeverGoesBack
<1>1. Inv /\ [Next]_vars => [\A p \in Orders :
        Alone /\ Position(po[p]) \in Flow /\ Position(po'[p]) \in Flow =>
          IndexOf(Position(po'[p])) >= IndexOf(Position(po[p]))]_vars
  BY OrderStep DEF Next
<1> QED BY <1>1, AlwaysInv, PTL DEF Spec, NeverGoesBack

\* With one request at a time the receipt that brings in the last missing goods
\* closes the order (createGrn, recomputePoReceiptStatus).
THEOREM LastReceiptCloses == Spec => ReceiptCompletes
<1>1. Inv /\ [Next]_vars => [\A p \in Orders :
        Alone /\ (\E l \in LinesOf(p) : line'[l].received > line[l].received) /\ EverythingReceived(p)'
        => po'[p].status = "FullyReceived"]_vars
  BY OrderStep DEF Next
<1> QED BY <1>1, AlwaysInv, PTL DEF Spec, ReceiptCompletes

\* With one request at a time only an approved excess receipt takes a line past
\* what was ordered (prepareGrnLines).
THEOREM ExcessNeedsApproval == Spec => ExcessIsApproved
<1>1. \A l \in PoLines : PoOf[l] \in Orders /\ l \in LinesOf(PoOf[l])
  BY PoAssumption DEF LinesOf
<1>2. Inv /\ [Next]_vars => [\A l \in PoLines :
        /\ Alone /\ line'[l].received > line[l].received
        /\ line'[l].received > line'[l].ordered
        => \E i \in DOMAIN grn' \ DOMAIN grn : grn'[i].line = l /\ grn'[i].excess]_vars
  BY <1>1, OrderStep DEF Next
<1> QED BY <1>2, AlwaysInv, PTL DEF Spec, ExcessIsApproved

-----------------------------------------------------------------------------
(* The sums of PoReceipt: what the order lines and the stock of an item count is *)
(* what the GRN lines add up to, whatever receipts and inspections run beside    *)
(* each other.                                                                   *)

-----------------------------------------------------------------------------
(* Sums as numbers of units *)

Units(f, ids) == {u \in ids \X (1..MaxOrdered) : u[2] <= f[u[1]]}

LEMMA UnitsFinite ==
  ASSUME NEW f, NEW ids, IsFiniteSet(ids)
  PROVE  IsFiniteSet(Units(f, ids)) /\ Total(f, ids) = Cardinality(Units(f, ids))
<1>1. IsFiniteSet(1..MaxOrdered)
  BY FS_Interval, PoAssumption
<1>2. IsFiniteSet(ids \X (1..MaxOrdered))
  BY <1>1, FS_Product
<1>3. Units(f, ids) \in SUBSET (ids \X (1..MaxOrdered))
  BY DEF Units
<1> QED BY <1>2, <1>3, FS_Subset DEF Units, Total

SameOn(f, g, ids) == \A i \in ids : f[i] = g[i]

LEMMA TotalSame ==
  ASSUME NEW f, NEW g, NEW ids, SameOn(f, g, ids)
  PROVE  Total(f, ids) = Total(g, ids)
<1>1. Units(f, ids) = Units(g, ids)
  BY DEF Units, SameOn
<1> QED BY <1>1 DEF Total, Units

\* The total over two sets that have nothing in common.
LEMMA TotalUnion ==
  ASSUME NEW f, NEW S, NEW T, IsFiniteSet(S), IsFiniteSet(T), S \cap T = {}
  PROVE  Total(f, S \cup T) = Total(f, S) + Total(f, T)
<1> DEFINE U == Units(f, S)
           V == Units(f, T)
<1>1. Units(f, S \cup T) = U \cup V /\ U \cap V = {}
  BY DEF Units
<1>2. IsFiniteSet(S \cup T)
  BY FS_Union
<1>3. IsFiniteSet(U) /\ Total(f, S) = Cardinality(U)
  BY UnitsFinite
<1>4. IsFiniteSet(V) /\ Total(f, T) = Cardinality(V)
  BY UnitsFinite
<1>5. Total(f, S \cup T) = Cardinality(U \cup V)
  BY <1>1, <1>2, UnitsFinite
<1> HIDE DEF U, V
<1>6. Cardinality(U \cup V) = Cardinality(U) + Cardinality(V) - Cardinality({})
  BY <1>1, <1>3, <1>4, FS_Union
<1>7. Cardinality({}) = 0 /\ Cardinality(U) \in Nat /\ Cardinality(V) \in Nat
  BY <1>3, <1>4, FS_EmptySet, FS_CardinalityType
<1>8. Cardinality(U \cup V) = Cardinality(U) + Cardinality(V)
  BY <1>6, <1>7
<1> QED BY <1>3, <1>4, <1>5, <1>8

LEMMA TotalOne ==
  ASSUME NEW f, NEW i, f[i] \in 0..MaxOrdered
  PROVE  Total(f, {i}) = f[i]
<1> DEFINE q == f[i]
<1>1. MaxOrdered \in Nat /\ q \in Nat /\ q <= MaxOrdered
  BY PoAssumption
<1>2. Units(f, {i}) = {i} \X (1..q)
  BY <1>1 DEF Units
<1>3. IsFiniteSet({i}) /\ Cardinality({i}) = 1
  BY FS_Singleton
<1>4. Total(f, {i}) = Cardinality({i} \X (1..q))
  BY <1>2, <1>3, UnitsFinite
<1> HIDE DEF q
<1>5. IsFiniteSet(1..q) /\ Cardinality(1..q) = q
  <2>1. Cardinality(1..q) = IF 1 > q THEN 0 ELSE q - 1 + 1
    BY <1>1, FS_Interval
  <2>2. IsFiniteSet(1..q)
    BY <1>1, FS_Interval
  <2> QED BY <1>1, <2>1, <2>2
<1>6. Cardinality({i} \X (1..q)) = 1 * q
  BY <1>3, <1>5, FS_Product
<1> QED BY <1>1, <1>4, <1>6 DEF q

LEMMA TotalNothing ==
  ASSUME NEW f
  PROVE  Total(f, {}) = 0
<1>1. Units(f, {}) = {}
  BY DEF Units
<1> QED BY <1>1, UnitsFinite, FS_EmptySet

\* g is f with another value at i, where f has none.
Raises(f, g, ids, i) ==
  /\ IsFiniteSet(ids) /\ i \in ids /\ f[i] = 0 /\ g[i] \in 0..MaxOrdered
  /\ \A j \in ids : j # i => g[j] = f[j]

\* Another element, and another value of one.
LEMMA TotalAdd ==
  ASSUME NEW f, NEW ids, IsFiniteSet(ids), NEW i, i \notin ids, f[i] \in 0..MaxOrdered
  PROVE  Total(f, ids \cup {i}) = Total(f, ids) + f[i]
<1>1. IsFiniteSet({i}) /\ ids \cap {i} = {}
  BY FS_Singleton
<1> QED BY <1>1, TotalUnion, TotalOne

LEMMA TotalRaise ==
  ASSUME NEW f, NEW g, NEW ids, NEW i, Raises(f, g, ids, i)
  PROVE  Total(g, ids) = Total(f, ids) + g[i]
<1> USE DEF Raises
<1> DEFINE rest == ids \ {i}
<1>1. IsFiniteSet(rest) /\ i \notin rest /\ ids = rest \cup {i}
  BY FS_Subset
<1>2. f[i] \in 0..MaxOrdered
  BY PoAssumption
<1>3. Total(f, rest) \in Nat /\ Total(g, rest) = Total(f, rest)
  BY <1>1, TotalSame, TotalType DEF SameOn
<1> HIDE DEF rest
<1>4. Total(f, ids) = Total(f, rest) + 0
  BY <1>1, <1>2, TotalAdd
<1>5. Total(g, ids) = Total(g, rest) + g[i]
  BY <1>1, TotalAdd
<1> QED BY <1>3, <1>4, <1>5

Shifted(n, ids) == {n + i : i \in ids}

\* The same summands under other numbers.
LEMMA TotalShift ==
  ASSUME NEW f, NEW g, NEW n \in Nat, NEW ids \in SUBSET Nat, IsFiniteSet(ids),
         \A i \in ids : g[n + i] = f[i]
  PROVE  /\ Total(g, Shifted(n, ids)) = Total(f, ids)
         /\ IsFiniteSet(Shifted(n, ids))
<1> DEFINE S == Units(f, ids)
           shifted == {n + i : i \in ids}
           T == Units(g, shifted)
           F == [u \in S |-> <<n + u[1], u[2]>>]
           G == [i \in ids |-> n + i]
<1>1. G \in Bijection(ids, shifted)
  <2>1. G \in [ids -> shifted]
    OBVIOUS
  <2>2. \A i, j \in ids : G[i] = G[j] => i = j
    OBVIOUS
  <2>3. \A t \in shifted : \E i \in ids : G[i] = t
    OBVIOUS
  <2> HIDE DEF G, shifted
  <2> QED BY <2>1, <2>2, <2>3 DEF Bijection, Injection, Surjection, IsInjective
<1>2. IsFiniteSet(shifted)
  BY <1>1, FS_Bijection DEF ExistsBijection
<1>3. F \in [S -> T]
  <2> SUFFICES ASSUME NEW u \in S PROVE <<n + u[1], u[2]>> \in T
    OBVIOUS
  <2>1. u[1] \in ids /\ u[2] \in 1..MaxOrdered /\ u[2] <= f[u[1]]
    BY DEF Units
  <2> QED BY <2>1 DEF Units
<1>4. \A u, v \in S : F[u] = F[v] => u = v
  <2>0. \A u \in S : u \in Nat \X (1..MaxOrdered)
    BY DEF Units
  <2> SUFFICES ASSUME NEW u \in S, NEW v \in S, F[u] = F[v] PROVE u = v
    OBVIOUS
  <2>1. u \in Nat \X (1..MaxOrdered) /\ v \in Nat \X (1..MaxOrdered)
    BY <2>0
  <2>2. F[u] = <<n + u[1], u[2]>> /\ F[v] = <<n + v[1], v[2]>>
    OBVIOUS
  <2> HIDE DEF S, F
  <2> DEFINE a == n + u[1]
             b == n + v[1]
  <2>3. a = b /\ u[2] = v[2]
    <3>1. <<a, u[2]>> = <<b, v[2]>>
      BY <2>2
    <3> HIDE DEF a, b
    <3> QED BY <3>1
  <2>4. u[1] \in Nat /\ v[1] \in Nat
    BY <2>1
  <2>5. u[1] = v[1]
    BY <2>3, <2>4
  <2>6. u = <<u[1], u[2]>> /\ v = <<v[1], v[2]>>
    BY <2>1
  <2> QED BY <2>3, <2>5, <2>6
<1>5. \A t \in T : \E u \in S : F[u] = t
  <2>0. \A t \in T : t = <<t[1], t[2]>> /\ t[1] \in shifted /\ t[2] \in 1..MaxOrdered /\ t[2] <= g[t[1]]
    BY DEF Units
  <2> SUFFICES ASSUME NEW t \in T PROVE \E u \in S : F[u] = t
    OBVIOUS
  <2>1. t = <<t[1], t[2]>> /\ t[1] \in shifted /\ t[2] \in 1..MaxOrdered /\ t[2] <= g[t[1]]
    BY <2>0
  <2>2. PICK i \in ids : t[1] = n + i
    BY <2>1
  <2>3. <<i, t[2]>> \in S
    BY <2>1, <2>2 DEF Units
  <2>4. F[<<i, t[2]>>] = t
    BY <2>1, <2>2, <2>3
  <2> QED BY <2>3, <2>4
<1> HIDE DEF S, T, F, shifted
<1>6. F \in Bijection(S, T)
  <2>1. DOMAIN F = S
    BY <1>3
  <2> QED BY <1>3, <1>4, <1>5, <2>1 DEF Bijection, Injection, Surjection, IsInjective
<1>7. IsFiniteSet(S) /\ Total(f, ids) = Cardinality(S)
  BY UnitsFinite DEF S
<1>8. Cardinality(T) = Cardinality(S)
  BY <1>6, <1>7, FS_Bijection DEF ExistsBijection
<1>9. Total(g, shifted) = Cardinality(T)
  BY <1>2, UnitsFinite DEF T
<1> QED BY <1>2, <1>7, <1>8, <1>9 DEF shifted, Shifted

-----------------------------------------------------------------------------
(* What GRN lines add up to, for an order line and for an item *)

OfLine(g, l) == {i \in DOMAIN g : g[i].line = l}
OfItem(g, it) == {i \in DOMAIN g : ItemOf[g[i].line] = it}
QtyOf(g) == [i \in DOMAIN g |-> g[i].qty]
AcceptedOf(g) == [i \in DOMAIN g |-> g[i].accepted]
RejectedOf(g) == [i \in DOMAIN g |-> g[i].rejected]

ReceivedSum(g, l) == Total(QtyOf(g), OfLine(g, l))
AcceptedSum(g, l) == Total(AcceptedOf(g), OfLine(g, l))
RejectedSum(g, l) == Total(RejectedOf(g), OfLine(g, l))
ItemSum(g, it) == Total(AcceptedOf(g), OfItem(g, it))

\* The properties in these terms.
LEMMA CountersAre ==
  /\ LineCountersMatchGrns <=> \A l \in PoLines :
       /\ line[l].received = ReceivedSum(grn, l)
       /\ line[l].accepted = AcceptedSum(grn, l)
       /\ line[l].rejected = RejectedSum(grn, l)
  /\ StockIsAccepted <=> \A it \in Items \ RawMaterials : stock[it] = ItemSum(grn, it)
BY DEF LineCountersMatchGrns, StockIsAccepted, SumOfGrn, GrnLinesOf, QtyOf, AcceptedOf, RejectedOf,
   OfLine, OfItem, ReceivedSum, AcceptedSum, RejectedSum, ItemSum

\* The quantities of a GRN line that can be added up; nothing of a line that waits for its
\* inspection is accepted or rejected yet.
GrnOK(g) ==
  /\ g.accepted \in 0..MaxOrdered /\ g.rejected \in 0..MaxOrdered
  /\ g.qc = "Pending" => g.accepted = 0 /\ g.rejected = 0

LEMMA SumTypes ==
  ASSUME NEW g \in Seq(GrnRow)
  PROVE  /\ \A l : /\ ReceivedSum(g, l) \in Nat /\ AcceptedSum(g, l) \in Nat
                   /\ RejectedSum(g, l) \in Nat /\ IsFiniteSet(OfLine(g, l))
                   /\ OfLine(g, l) \subseteq 1..Len(g)
         /\ \A it : ItemSum(g, it) \in Nat /\ IsFiniteSet(OfItem(g, it)) /\ OfItem(g, it) \subseteq 1..Len(g)
<1>1. DOMAIN g = 1..Len(g) /\ Len(g) \in Nat
  OBVIOUS
<1>2. IsFiniteSet(1..Len(g))
  BY <1>1, FS_Interval
<1>3. \A l : OfLine(g, l) \subseteq 1..Len(g) /\ OfItem(g, l) \subseteq 1..Len(g)
  BY <1>1 DEF OfLine, OfItem
<1>4. \A l : IsFiniteSet(OfLine(g, l)) /\ IsFiniteSet(OfItem(g, l))
  BY <1>2, <1>3, FS_Subset
<1> QED BY <1>3, <1>4, TotalType DEF ReceivedSum, AcceptedSum, RejectedSum, ItemSum

LEMMA SumNothing ==
  /\ \A l : ReceivedSum(<< >>, l) = 0 /\ AcceptedSum(<< >>, l) = 0 /\ RejectedSum(<< >>, l) = 0
  /\ \A it : ItemSum(<< >>, it) = 0
<1>1. \A l : OfLine(<< >>, l) = {} /\ OfItem(<< >>, l) = {}
  BY DEF OfLine, OfItem
<1> QED BY <1>1, TotalNothing DEF ReceivedSum, AcceptedSum, RejectedSum, ItemSum

\* h has the summands f over A, then those of g over B.
Joins(n, A, B, f, g, h) ==
  /\ n \in Nat /\ IsFiniteSet(A) /\ IsFiniteSet(B)
  /\ \A i \in A : i \in 1..n /\ h[i] = f[i]
  /\ \A i \in B : i \in Nat \ {0} /\ h[n + i] = g[i]

LEMMA TotalConcat ==
  ASSUME NEW n, NEW A, NEW B, NEW f, NEW g, NEW h, Joins(n, A, B, f, g, h)
  PROVE  Total(h, A \cup Shifted(n, B)) = Total(f, A) + Total(g, B)
<1> USE DEF Joins
<1> DEFINE C == Shifted(n, B)
<1>1. IsFiniteSet(C) /\ Total(h, C) = Total(g, B)
  <2>1. B \in SUBSET Nat
    OBVIOUS
  <2> QED BY <2>1, TotalShift
<1>2. A \cap C = {}
  BY DEF Shifted
<1> HIDE DEF C
<1>3. Total(h, A \cup C) = Total(h, A) + Total(h, C)
  BY <1>1, <1>2, TotalUnion
<1>4. Total(h, A) = Total(f, A)
  BY TotalSame DEF SameOn
<1> QED BY <1>1, <1>3, <1>4 DEF C

LEMMA SumConcat ==
  ASSUME NEW g \in Seq(GrnRow), NEW w \in Seq(GrnRow)
  PROVE  /\ \A l : /\ ReceivedSum(g \o w, l) = ReceivedSum(g, l) + ReceivedSum(w, l)
                   /\ AcceptedSum(g \o w, l) = AcceptedSum(g, l) + AcceptedSum(w, l)
                   /\ RejectedSum(g \o w, l) = RejectedSum(g, l) + RejectedSum(w, l)
         /\ \A it : ItemSum(g \o w, it) = ItemSum(g, it) + ItemSum(w, it)
<1> DEFINE n == Len(g)
           h == g \o w
<1>1. /\ h \in Seq(GrnRow) /\ n \in Nat /\ Len(w) \in Nat /\ DOMAIN g = 1..n /\ DOMAIN w = 1..Len(w)
      /\ DOMAIN h = 1..(n + Len(w))
      /\ \A i \in 1..n : h[i] = g[i]
      /\ \A i \in 1..Len(w) : h[n + i] = w[i]
  OBVIOUS
<1>2. /\ \A l : /\ OfLine(g, l) \in SUBSET (1..n) /\ OfItem(g, l) \in SUBSET (1..n)
                /\ OfLine(w, l) \in SUBSET (1..Len(w)) /\ OfItem(w, l) \in SUBSET (1..Len(w))
                /\ IsFiniteSet(OfLine(g, l)) /\ IsFiniteSet(OfItem(g, l))
                /\ IsFiniteSet(OfLine(w, l)) /\ IsFiniteSet(OfItem(w, l))
  BY SumTypes
<1>3. 1..Len(w) \subseteq Nat \ {0}
  BY <1>1
<1> HIDE DEF n, h
<1>0. n \in Nat
  BY <1>1
<1>4. \A l : OfLine(h, l) = OfLine(g, l) \cup Shifted(n, OfLine(w, l))
  <2>1. ASSUME NEW l, NEW k \in OfLine(h, l)
        PROVE  k \in OfLine(g, l) \cup Shifted(n, OfLine(w, l))
    <3>1. k \in 1..(n + Len(w)) /\ h[k].line = l
      BY <1>1, <2>1 DEF OfLine
    <3>2. CASE k <= n
      BY <1>1, <3>1, <3>2 DEF OfLine
    <3>3. CASE k > n
      <4>1. k - n \in 1..Len(w) /\ k = n + (k - n)
        BY <1>1, <3>1, <3>3
      <4>2. k - n \in OfLine(w, l)
        BY <1>1, <3>1, <4>1 DEF OfLine
      <4> QED BY <4>1, <4>2 DEF Shifted
    <3> QED BY <1>1, <3>1, <3>2, <3>3
  <2>2. ASSUME NEW l, NEW k \in OfLine(g, l) \cup Shifted(n, OfLine(w, l))
        PROVE  k \in OfLine(h, l)
    <3>1. CASE k \in OfLine(g, l)
      <4>1. k \in 1..n /\ k \in 1..(n + Len(w)) /\ h[k].line = l
        BY <1>1, <3>1 DEF OfLine
      <4> QED BY <1>1, <4>1 DEF OfLine
    <3>2. CASE k \in Shifted(n, OfLine(w, l))
      <4>1. PICK i \in OfLine(w, l) : k = n + i
        BY <3>2 DEF Shifted
      <4>2. i \in 1..Len(w) /\ k \in 1..(n + Len(w)) /\ h[k] = w[i]
        BY <1>1, <4>1 DEF OfLine
      <4>3. h[k].line = l
        BY <4>1, <4>2 DEF OfLine
      <4> QED BY <1>1, <4>2, <4>3 DEF OfLine
    <3> QED BY <2>2, <3>1, <3>2
  <2> QED BY <2>1, <2>2
<1>5. \A it : OfItem(h, it) = OfItem(g, it) \cup Shifted(n, OfItem(w, it))
  <2>1. ASSUME NEW it, NEW k \in OfItem(h, it)
        PROVE  k \in OfItem(g, it) \cup Shifted(n, OfItem(w, it))
    <3>1. k \in 1..(n + Len(w)) /\ ItemOf[h[k].line] = it
      BY <1>1, <2>1 DEF OfItem
    <3>2. CASE k <= n
      BY <1>1, <3>1, <3>2 DEF OfItem
    <3>3. CASE k > n
      <4>1. k - n \in 1..Len(w) /\ k = n + (k - n)
        BY <1>1, <3>1, <3>3
      <4>2. k - n \in OfItem(w, it)
        BY <1>1, <3>1, <4>1 DEF OfItem
      <4> QED BY <4>1, <4>2 DEF Shifted
    <3> QED BY <1>1, <3>1, <3>2, <3>3
  <2>2. ASSUME NEW it, NEW k \in OfItem(g, it) \cup Shifted(n, OfItem(w, it))
        PROVE  k \in OfItem(h, it)
    <3>1. CASE k \in OfItem(g, it)
      <4>1. k \in 1..n /\ k \in 1..(n + Len(w)) /\ ItemOf[h[k].line] = it
        BY <1>1, <3>1 DEF OfItem
      <4> QED BY <1>1, <4>1 DEF OfItem
    <3>2. CASE k \in Shifted(n, OfItem(w, it))
      <4>1. PICK i \in OfItem(w, it) : k = n + i
        BY <3>2 DEF Shifted
      <4>2. i \in 1..Len(w) /\ k \in 1..(n + Len(w)) /\ h[k] = w[i]
        BY <1>1, <4>1 DEF OfItem
      <4>3. ItemOf[h[k].line] = it
        BY <4>1, <4>2 DEF OfItem
      <4> QED BY <1>1, <4>2, <4>3 DEF OfItem
    <3> QED BY <2>2, <3>1, <3>2
  <2> QED BY <2>1, <2>2
<1>6. /\ \A i \in 1..n : /\ QtyOf(h)[i] = QtyOf(g)[i] /\ AcceptedOf(h)[i] = AcceptedOf(g)[i]
                         /\ RejectedOf(h)[i] = RejectedOf(g)[i]
      /\ \A i \in 1..Len(w) : /\ QtyOf(h)[n + i] = QtyOf(w)[i] /\ AcceptedOf(h)[n + i] = AcceptedOf(w)[i]
                              /\ RejectedOf(h)[n + i] = RejectedOf(w)[i]
  <2>1. ASSUME NEW i \in 1..n
        PROVE  i \in DOMAIN h /\ i \in DOMAIN g /\ h[i] = g[i]
    BY <1>1
  <2>2. ASSUME NEW i \in 1..Len(w)
        PROVE  n + i \in DOMAIN h /\ i \in DOMAIN w /\ h[n + i] = w[i]
    BY <1>1
  <2> QED BY <2>1, <2>2 DEF QtyOf, AcceptedOf, RejectedOf
<1>7. ASSUME NEW l
      PROVE  /\ ReceivedSum(h, l) = ReceivedSum(g, l) + ReceivedSum(w, l)
             /\ AcceptedSum(h, l) = AcceptedSum(g, l) + AcceptedSum(w, l)
             /\ RejectedSum(h, l) = RejectedSum(g, l) + RejectedSum(w, l)
  <2> DEFINE A == OfLine(g, l)
             B == OfLine(w, l)
  <2>1. /\ A \in SUBSET (1..n) /\ B \in SUBSET (1..Len(w)) /\ B \in SUBSET (Nat \ {0})
        /\ IsFiniteSet(A) /\ IsFiniteSet(B) /\ OfLine(h, l) = A \cup Shifted(n, B)
    BY <1>2, <1>3, <1>4
  <2> HIDE DEF A, B
  <2>0. /\ \A i \in A : i \in 1..n
        /\ \A i \in B : i \in 1..Len(w) /\ i \in Nat /\ i # 0
    BY <2>1
  <2>2. Total(QtyOf(h), A \cup Shifted(n, B)) = Total(QtyOf(g), A) + Total(QtyOf(w), B)
    <3>1. Joins(n, A, B, QtyOf(g), QtyOf(w), QtyOf(h))
      BY <1>0, <1>6, <2>0, <2>1 DEF Joins
    <3> QED BY <3>1, TotalConcat
  <2>3. Total(AcceptedOf(h), A \cup Shifted(n, B)) = Total(AcceptedOf(g), A) + Total(AcceptedOf(w), B)
    <3>1. Joins(n, A, B, AcceptedOf(g), AcceptedOf(w), AcceptedOf(h))
      BY <1>0, <1>6, <2>0, <2>1 DEF Joins
    <3> QED BY <3>1, TotalConcat
  <2>4. Total(RejectedOf(h), A \cup Shifted(n, B)) = Total(RejectedOf(g), A) + Total(RejectedOf(w), B)
    <3>1. Joins(n, A, B, RejectedOf(g), RejectedOf(w), RejectedOf(h))
      BY <1>0, <1>6, <2>0, <2>1 DEF Joins
    <3> QED BY <3>1, TotalConcat
  <2> QED BY <2>1, <2>2, <2>3, <2>4 DEF A, B, ReceivedSum, AcceptedSum, RejectedSum
<1>8. ASSUME NEW it
      PROVE  ItemSum(h, it) = ItemSum(g, it) + ItemSum(w, it)
  <2> DEFINE A == OfItem(g, it)
             B == OfItem(w, it)
  <2>1. /\ A \in SUBSET (1..n) /\ B \in SUBSET (1..Len(w)) /\ B \in SUBSET (Nat \ {0})
        /\ IsFiniteSet(A) /\ IsFiniteSet(B) /\ OfItem(h, it) = A \cup Shifted(n, B)
    BY <1>2, <1>3, <1>5
  <2> HIDE DEF A, B
  <2>0. /\ \A i \in A : i \in 1..n
        /\ \A i \in B : i \in 1..Len(w) /\ i \in Nat /\ i # 0
    BY <2>1
  <2>2. Total(AcceptedOf(h), A \cup Shifted(n, B)) = Total(AcceptedOf(g), A) + Total(AcceptedOf(w), B)
    <3>1. Joins(n, A, B, AcceptedOf(g), AcceptedOf(w), AcceptedOf(h))
      BY <1>0, <1>6, <2>0, <2>1 DEF Joins
    <3> QED BY <3>1, TotalConcat
  <2> QED BY <2>1, <2>2 DEF A, B, ItemSum
<1> QED BY <1>7, <1>8 DEF h

\* One GRN line.
LEMMA SumOne ==
  ASSUME NEW x \in GrnRow, GrnOK(x)
  PROVE  /\ \A l : /\ ReceivedSum(<<x>>, l) = (IF x.line = l THEN x.qty ELSE 0)
                   /\ AcceptedSum(<<x>>, l) = (IF x.line = l THEN x.accepted ELSE 0)
                   /\ RejectedSum(<<x>>, l) = (IF x.line = l THEN x.rejected ELSE 0)
         /\ \A it : ItemSum(<<x>>, it) = (IF ItemOf[x.line] = it THEN x.accepted ELSE 0)
<1> DEFINE g == <<x>>
<1>1. DOMAIN g = {1} /\ g[1] = x
  OBVIOUS
<1>2. x.qty \in 0..MaxOrdered /\ x.accepted \in 0..MaxOrdered /\ x.rejected \in 0..MaxOrdered
  BY PoAssumption DEF GrnRow, Qty, GrnOK
<1> HIDE DEF g
<1>3. QtyOf(g)[1] = x.qty /\ AcceptedOf(g)[1] = x.accepted /\ RejectedOf(g)[1] = x.rejected
  BY <1>1 DEF QtyOf, AcceptedOf, RejectedOf
<1>4. \A l : OfLine(g, l) = IF x.line = l THEN {1} ELSE {}
  BY <1>1 DEF OfLine
<1>5. \A it : OfItem(g, it) = IF ItemOf[x.line] = it THEN {1} ELSE {}
  BY <1>1 DEF OfItem
<1>6. /\ Total(QtyOf(g), {1}) = x.qty /\ Total(AcceptedOf(g), {1}) = x.accepted
      /\ Total(RejectedOf(g), {1}) = x.rejected
  BY <1>2, <1>3, TotalOne
<1> QED BY <1>4, <1>5, <1>6, TotalNothing DEF ReceivedSum, AcceptedSum, RejectedSum, ItemSum, g

\* An inspection makes y of the line i of g that waits for it.
Inspects(g, i, y, h) ==
  /\ g \in Seq(GrnRow) /\ i \in DOMAIN g /\ y \in GrnRow /\ h = [g EXCEPT ![i] = y]
  /\ GrnOK(g[i]) /\ g[i].qc = "Pending" /\ GrnOK(y) /\ y.line = g[i].line /\ y.qty = g[i].qty

\* It turns nothing accepted and nothing rejected into its verdict.
LEMMA SumInspect ==
  ASSUME NEW g, NEW i, NEW y, NEW h, Inspects(g, i, y, h)
  PROVE  /\ \A l : /\ ReceivedSum(h, l) = ReceivedSum(g, l)
                   /\ AcceptedSum(h, l) = AcceptedSum(g, l) + (IF y.line = l THEN y.accepted ELSE 0)
                   /\ RejectedSum(h, l) = RejectedSum(g, l) + (IF y.line = l THEN y.rejected ELSE 0)
         /\ \A it : ItemSum(h, it) = ItemSum(g, it) + (IF ItemOf[y.line] = it THEN y.accepted ELSE 0)
<1> USE DEF Inspects
<1>1. DOMAIN h = DOMAIN g /\ h[i] = y /\ \A j \in DOMAIN g : j # i => h[j] = g[j]
  OBVIOUS
<1>2. /\ g[i].accepted = 0 /\ g[i].rejected = 0
      /\ y.accepted \in 0..MaxOrdered /\ y.rejected \in 0..MaxOrdered
  BY DEF GrnOK
<1>3. (\A l : OfLine(h, l) = OfLine(g, l)) /\ (\A it : OfItem(h, it) = OfItem(g, it))
  BY <1>1 DEF OfLine, OfItem
<1>4. (\A l : IsFiniteSet(OfLine(g, l))) /\ (\A it : IsFiniteSet(OfItem(g, it)))
  BY SumTypes
<1>5. \A j \in DOMAIN g : QtyOf(h)[j] = QtyOf(g)[j]
  BY <1>1 DEF QtyOf
<1>6. \A j \in DOMAIN g : j # i => AcceptedOf(h)[j] = AcceptedOf(g)[j] /\ RejectedOf(h)[j] = RejectedOf(g)[j]
  BY <1>1 DEF AcceptedOf, RejectedOf
<1>7. /\ AcceptedOf(h)[i] = y.accepted /\ AcceptedOf(g)[i] = 0
      /\ RejectedOf(h)[i] = y.rejected /\ RejectedOf(g)[i] = 0
  BY <1>1, <1>2 DEF AcceptedOf, RejectedOf
<1>8. \A l : OfLine(g, l) \subseteq DOMAIN g /\ OfItem(g, l) \subseteq DOMAIN g
  BY DEF OfLine, OfItem
<1>9. ASSUME NEW S, S \subseteq DOMAIN g, IsFiniteSet(S)
      PROVE  /\ Total(QtyOf(h), S) = Total(QtyOf(g), S)
             /\ Total(AcceptedOf(h), S) = Total(AcceptedOf(g), S) + (IF i \in S THEN y.accepted ELSE 0)
             /\ Total(RejectedOf(h), S) = Total(RejectedOf(g), S) + (IF i \in S THEN y.rejected ELSE 0)
  <2>1. Total(QtyOf(h), S) = Total(QtyOf(g), S)
    <3>1. SameOn(QtyOf(h), QtyOf(g), S)
      BY <1>5, <1>9 DEF SameOn
    <3> QED BY <3>1, TotalSame
  <2>2. CASE i \in S
    <3>1. Raises(AcceptedOf(g), AcceptedOf(h), S, i)
      BY <1>2, <1>6, <1>7, <1>9, <2>2 DEF Raises
    <3>2. Total(AcceptedOf(h), S) = Total(AcceptedOf(g), S) + AcceptedOf(h)[i]
      BY <3>1, TotalRaise
    <3>3. Raises(RejectedOf(g), RejectedOf(h), S, i)
      BY <1>2, <1>6, <1>7, <1>9, <2>2 DEF Raises
    <3>4. Total(RejectedOf(h), S) = Total(RejectedOf(g), S) + RejectedOf(h)[i]
      BY <3>3, TotalRaise
    <3> QED BY <1>7, <2>1, <2>2, <3>2, <3>4
  <2>3. CASE i \notin S
    <3>0. SameOn(AcceptedOf(h), AcceptedOf(g), S) /\ SameOn(RejectedOf(h), RejectedOf(g), S)
      BY <1>6, <1>9, <2>3 DEF SameOn
    <3>1. Total(AcceptedOf(h), S) = Total(AcceptedOf(g), S)
      BY <3>0, TotalSame
    <3>2. Total(RejectedOf(h), S) = Total(RejectedOf(g), S)
      BY <3>0, TotalSame
    <3>3. Total(AcceptedOf(g), S) \in Nat /\ Total(RejectedOf(g), S) \in Nat
      BY <1>9, TotalType
    <3> QED BY <2>1, <2>3, <3>1, <3>2, <3>3
  <2> QED BY <2>2, <2>3
<1>10. ASSUME NEW l
       PROVE  /\ ReceivedSum(h, l) = ReceivedSum(g, l)
              /\ AcceptedSum(h, l) = AcceptedSum(g, l) + (IF y.line = l THEN y.accepted ELSE 0)
              /\ RejectedSum(h, l) = RejectedSum(g, l) + (IF y.line = l THEN y.rejected ELSE 0)
  <2>1. i \in OfLine(g, l) <=> y.line = l
    BY DEF OfLine
  <2>2. OfLine(g, l) \subseteq DOMAIN g /\ IsFiniteSet(OfLine(g, l)) /\ OfLine(h, l) = OfLine(g, l)
    BY <1>3, <1>4, <1>8
  <2> QED BY <1>9, <2>1, <2>2 DEF ReceivedSum, AcceptedSum, RejectedSum
<1>11. ASSUME NEW it
       PROVE  ItemSum(h, it) = ItemSum(g, it) + (IF ItemOf[y.line] = it THEN y.accepted ELSE 0)
  <2>1. i \in OfItem(g, it) <=> ItemOf[y.line] = it
    BY DEF OfItem
  <2>2. OfItem(g, it) \subseteq DOMAIN g /\ IsFiniteSet(OfItem(g, it)) /\ OfItem(h, it) = OfItem(g, it)
    BY <1>3, <1>4, <1>8
  <2> QED BY <1>9, <2>1, <2>2 DEF ItemSum
<1> QED BY <1>10, <1>11

-----------------------------------------------------------------------------
(* The inductive invariant *)

\* The counters of the order lines and the stock are what the GRN lines g add up to.
Balanced(ln, st, g) ==
  /\ \A l \in PoLines :
       /\ ln[l].received = ReceivedSum(g, l)
       /\ ln[l].accepted = AcceptedSum(g, l)
       /\ ln[l].rejected = RejectedSum(g, l)
  /\ \A it \in Items \ RawMaterials : st[it] = ItemSum(g, it)
  /\ \A i \in DOMAIN g : GrnOK(g[i])

\* The counters of order line l, with the GRN lines w that are not committed yet.
LineAdds(view, row, w, l) ==
  /\ view.received = row.received + ReceivedSum(w, l)
  /\ view.accepted = row.accepted + AcceptedSum(w, l)
  /\ view.rejected = row.rejected + RejectedSum(w, l)

\* A transaction sees the rows plus the GRN lines it has not committed.
Pending(r, ln, st, g) ==
  /\ r.op \notin {"amend", "grn"} => DOMAIN r.wLine = {}
  /\ \A k \in DOMAIN r.wGrn : GrnOK(r.wGrn[k])
  /\ \A l \in PoLines : LineAdds(Over(ln, r.wLine)[l], ln[l], r.wGrn, l)
  /\ \A it \in Items \ RawMaterials : Over(st, r.wStock)[it] = st[it] + ItemSum(r.wGrn, it)
  /\ r.op = "inspect" => r.passed \in 0..MaxOrdered /\ r.rejected \in 0..MaxOrdered
  /\ r.op = "inspect" /\ r.pc = "stock" => g[r.grnLine].qc = "Pending"
  /\ r.op = "adjust" => r.item \in RawMaterials

\* Two transactions hold locks on different rows.
Apart(r, s) ==
  /\ DOMAIN r.wLine \cap DOMAIN s.wLine = {} /\ DOMAIN r.wStock \cap DOMAIN s.wStock = {}
  /\ r.op = "inspect" /\ r.pc = "stock" /\ s.op = "inspect" /\ s.pc = "stock"
       => r.grnLine # s.grnLine

CountInv ==
  /\ TypeInv
  /\ Balanced(line, stock, grn)
  /\ \A c \in InFlight : Pending(req[c], line, stock, grn)
  /\ \A c, d \in InFlight : c # d => Apart(req[c], req[d])

-----------------------------------------------------------------------------
(* One request *)

RowsOK(ln, st, g) == ln \in [PoLines -> LineRow] /\ st \in [Items -> Int] /\ g \in Seq(GrnRow)

SameCounters(row, old) ==
  row.received = old.received /\ row.accepted = old.accepted /\ row.rejected = old.rejected

\* Steps of others leave the rows a transaction has written, and the line it inspects.
LEMMA PendingKept ==
  ASSUME NEW r \in RequestRow, NEW ln, NEW st, NEW g, NEW ln2, NEW st2, NEW g2,
         RowsOK(ln, st, g), RowsOK(ln2, st2, g2), Pending(r, ln, st, g),
         \A l \in DOMAIN r.wLine : SameCounters(ln2[l], ln[l]),
         \A it \in DOMAIN r.wStock : st2[it] = st[it],
         r.op = "inspect" /\ r.pc = "stock" => g2[r.grnLine].qc = "Pending"
  PROVE  Pending(r, ln2, st2, g2)
<1>1. /\ r.wLine \in Written(PoLines, LineRow) /\ r.wStock \in Written(Items, Int)
      /\ r.wGrn \in Seq(GrnRow)
  BY DEF RequestRow
<1>2. /\ ln \in [PoLines -> LineRow] /\ ln2 \in [PoLines -> LineRow]
      /\ st \in [Items -> Int] /\ st2 \in [Items -> Int]
  BY DEF RowsOK
<1>3. /\ \A l \in PoLines : Over(ln, r.wLine)[l] = IF l \in DOMAIN r.wLine THEN r.wLine[l] ELSE ln[l]
      /\ \A l \in PoLines : Over(ln2, r.wLine)[l] = IF l \in DOMAIN r.wLine THEN r.wLine[l] ELSE ln2[l]
      /\ \A l \in DOMAIN r.wLine : r.wLine[l] \in LineRow
  BY <1>1, <1>2, OverType
<1>4. /\ \A it \in Items : Over(st, r.wStock)[it] = IF it \in DOMAIN r.wStock THEN r.wStock[it] ELSE st[it]
      /\ \A it \in Items : Over(st2, r.wStock)[it] = IF it \in DOMAIN r.wStock THEN r.wStock[it] ELSE st2[it]
  BY <1>2 DEF Over
<1>5. ASSUME NEW l \in PoLines
      PROVE  LineAdds(Over(ln2, r.wLine)[l], ln2[l], r.wGrn, l)
  <2>1. LineAdds(Over(ln, r.wLine)[l], ln[l], r.wGrn, l)
    BY DEF Pending
  <2>2. /\ ReceivedSum(r.wGrn, l) \in Nat /\ AcceptedSum(r.wGrn, l) \in Nat
        /\ RejectedSum(r.wGrn, l) \in Nat
    BY <1>1, SumTypes
  <2>3. CASE l \in DOMAIN r.wLine
    BY <1>3, <2>1, <2>3 DEF LineAdds, SameCounters
  <2>4. CASE l \notin DOMAIN r.wLine
    <3>1. Over(ln, r.wLine)[l] = ln[l] /\ Over(ln2, r.wLine)[l] = ln2[l]
      BY <1>3, <2>4
    <3>2. ln[l] \in LineRow /\ ln2[l] \in LineRow
      BY <1>2
    <3> QED BY <2>1, <2>2, <3>1, <3>2 DEF LineAdds, LineRow
  <2> QED BY <2>3, <2>4
<1>6. ASSUME NEW it \in Items \ RawMaterials
      PROVE  Over(st2, r.wStock)[it] = st2[it] + ItemSum(r.wGrn, it)
  <2>1. Over(st, r.wStock)[it] = st[it] + ItemSum(r.wGrn, it) /\ ItemSum(r.wGrn, it) \in Nat
    BY <1>1, SumTypes DEF Pending
  <2> QED BY <1>2, <1>4, <2>1
<1> QED BY <1>5, <1>6 DEF Pending

\* A request that has written nothing.
LEMMA PendingFresh ==
  ASSUME NEW r, NEW ln, NEW st, NEW g, RowsOK(ln, st, g),
         DOMAIN r.wLine = {}, DOMAIN r.wStock = {}, r.wGrn = << >>,
         r.op = "inspect" => r.passed \in 0..MaxOrdered /\ r.rejected \in 0..MaxOrdered,
         r.op = "inspect" /\ r.pc = "stock" => g[r.grnLine].qc = "Pending",
         r.op = "adjust" => r.item \in RawMaterials
  PROVE  Pending(r, ln, st, g)
<1>1. ln \in [PoLines -> LineRow] /\ st \in [Items -> Int]
  BY DEF RowsOK
<1>2. (\A l \in PoLines : Over(ln, r.wLine)[l] = ln[l]) /\ (\A it \in Items : Over(st, r.wStock)[it] = st[it])
  BY <1>1 DEF Over
<1>3. \A l \in PoLines : LineAdds(Over(ln, r.wLine)[l], ln[l], r.wGrn, l)
  BY <1>1, <1>2, SumNothing DEF LineAdds, LineRow
<1>4. \A it \in Items \ RawMaterials : Over(st, r.wStock)[it] = st[it] + ItemSum(r.wGrn, it)
  BY <1>1, <1>2, SumNothing
<1> QED BY <1>3, <1>4 DEF Pending

\* A commit adds what was pending.
LEMMA CommitBalances ==
  ASSUME NEW r \in RequestRow, NEW ln, NEW st, NEW g, RowsOK(ln, st, g),
         Balanced(ln, st, g), Pending(r, ln, st, g)
  PROVE  Balanced(Over(ln, r.wLine), Over(st, r.wStock), g \o r.wGrn)
<1>1. r.wGrn \in Seq(GrnRow) /\ g \in Seq(GrnRow)
  BY DEF RequestRow, RowsOK
<1>2. \A i \in DOMAIN (g \o r.wGrn) : GrnOK((g \o r.wGrn)[i])
  <2>1. \A i \in DOMAIN g : GrnOK(g[i])
    BY DEF Balanced
  <2>2. \A i \in DOMAIN r.wGrn : GrnOK(r.wGrn[i])
    BY DEF Pending
  <2> DEFINE w == r.wGrn
  <2> HIDE DEF w
  <2>3. ASSUME NEW i \in DOMAIN (g \o w)
        PROVE  (i \in DOMAIN g /\ (g \o w)[i] = g[i])
               \/ (i - Len(g) \in DOMAIN w /\ (g \o w)[i] = w[i - Len(g)])
    BY <1>1 DEF w
  <2> QED BY <2>1, <2>2, <2>3 DEF w
<1>3. \A l : /\ ReceivedSum(g \o r.wGrn, l) = ReceivedSum(g, l) + ReceivedSum(r.wGrn, l)
             /\ AcceptedSum(g \o r.wGrn, l) = AcceptedSum(g, l) + AcceptedSum(r.wGrn, l)
             /\ RejectedSum(g \o r.wGrn, l) = RejectedSum(g, l) + RejectedSum(r.wGrn, l)
  BY <1>1, SumConcat
<1>4. \A it : ItemSum(g \o r.wGrn, it) = ItemSum(g, it) + ItemSum(r.wGrn, it)
  BY <1>1, SumConcat
<1> QED BY <1>2, <1>3, <1>4 DEF Balanced, Pending, LineAdds

\* A receipt line adds what it received to what is pending.
LEMMA PendingCreate ==
  ASSUME NEW r \in RequestRow, NEW y \in RequestRow, NEW ln, NEW st, NEW g, NEW x \in Receipt, NEW v \in Int,
         RowsOK(ln, st, g), Pending(r, ln, st, g), y.op = "grn",
         y.wGrn = Append(r.wGrn, GrnLine(x)),
         y.wLine = Put(r.wLine, x.line, Received(Over(ln, r.wLine)[x.line], x.qty, Now(x))),
         y.wStock = (IF Now(x) = 0 THEN r.wStock ELSE Put(r.wStock, ItemOf[x.line], v)),
         ItemOf[x.line] \notin RawMaterials => v = Over(st, r.wStock)[ItemOf[x.line]] + Now(x)
  PROVE  Pending(y, ln, st, g)
<1> DEFINE row == Received(Over(ln, r.wLine)[x.line], x.qty, Now(x))
           n == Now(x)
           it == ItemOf[x.line]
           gl == GrnLine(x)
<1>1. /\ x.line \in PoLines /\ it \in Items /\ x.qty \in Nat /\ n \in 0..MaxOrdered
      /\ gl \in GrnRow /\ gl.line = x.line /\ gl.qty = x.qty /\ gl.accepted = n /\ gl.rejected = 0
      /\ gl.qc = "Pending" => n = 0
  <2>1. /\ x.line \in PoLines /\ it \in Items /\ x.qty \in Nat /\ gl \in GrnRow
        /\ gl.line = x.line /\ gl.qty = x.qty
    BY ReceiptFields
  <2>2. gl.accepted = n /\ gl.rejected = 0
    BY DEF GrnLine
  <2>3. n \in 0..MaxOrdered
    BY PoAssumption DEF Now, Receipt, Qty
  <2>4. gl.qc = "Pending" => n = 0
    BY DEF GrnLine, Now
  <2> QED BY <2>1, <2>2, <2>3, <2>4
<1> HIDE DEF n, it, gl
<1>2. GrnOK(gl)
  BY <1>1, PoAssumption DEF GrnOK
<1>3. /\ r.wLine \in Written(PoLines, LineRow) /\ r.wStock \in Written(Items, Int) /\ r.wGrn \in Seq(GrnRow)
      /\ y.wLine \in Written(PoLines, LineRow) /\ y.wStock \in Written(Items, Int)
      /\ y.wGrn \in Seq(GrnRow)
      /\ ln \in [PoLines -> LineRow] /\ st \in [Items -> Int]
  BY DEF RequestRow, RowsOK
<1>4. Over(ln, r.wLine) \in [PoLines -> LineRow] /\ Over(ln, r.wLine)[x.line] \in LineRow
  BY <1>1, <1>3, OverType
<1>5. /\ row.received = Over(ln, r.wLine)[x.line].received + x.qty
      /\ row.accepted = Over(ln, r.wLine)[x.line].accepted + n
      /\ row.rejected = Over(ln, r.wLine)[x.line].rejected
  BY <1>4 DEF Received, LineRow, n
<1>6. \A l \in PoLines : Over(ln, y.wLine)[l] = IF l = x.line THEN row ELSE Over(ln, r.wLine)[l]
  BY <1>1, <1>3 DEF Over, Put
<1> HIDE DEF row
<1> DEFINE w == r.wGrn
           one == <<gl>>
<1>7. y.wGrn = w \o one
  BY <1>1, <1>3 DEF gl
<1>8. w \in Seq(GrnRow) /\ one \in Seq(GrnRow)
  BY <1>1, <1>3
<1>12. /\ \A l : /\ ReceivedSum(one, l) = IF x.line = l THEN x.qty ELSE 0
                 /\ AcceptedSum(one, l) = IF x.line = l THEN n ELSE 0
                 /\ RejectedSum(one, l) = 0
       /\ \A i : ItemSum(one, i) = IF it = i THEN n ELSE 0
  BY <1>1, <1>2, SumOne DEF it
<1> HIDE DEF w, one
<1>13. /\ \A l : /\ ReceivedSum(w \o one, l) = ReceivedSum(w, l) + ReceivedSum(one, l)
                 /\ AcceptedSum(w \o one, l) = AcceptedSum(w, l) + AcceptedSum(one, l)
                 /\ RejectedSum(w \o one, l) = RejectedSum(w, l) + RejectedSum(one, l)
       /\ \A i : ItemSum(w \o one, i) = ItemSum(w, i) + ItemSum(one, i)
  BY <1>8, SumConcat
<1>9. \A k \in DOMAIN y.wGrn : GrnOK(y.wGrn[k])
  <2>1. \A k \in DOMAIN w : GrnOK(w[k])
    BY DEF Pending, w
  <2>2. w \in Seq(GrnRow) /\ y.wGrn = Append(w, gl)
    BY <1>3 DEF gl, w
  <2>3. \A k \in DOMAIN Append(w, gl) : (k \in DOMAIN w /\ Append(w, gl)[k] = w[k]) \/ Append(w, gl)[k] = gl
    BY <1>1, <2>2
  <2> QED BY <1>2, <2>1, <2>2, <2>3
<1>10. ASSUME NEW l \in PoLines
       PROVE  LineAdds(Over(ln, y.wLine)[l], ln[l], y.wGrn, l)
  <2> DEFINE old == Over(ln, r.wLine)[l]
             new == Over(ln, y.wLine)[l]
             q == IF x.line = l THEN x.qty ELSE 0
             a == IF x.line = l THEN n ELSE 0
  <2>1. /\ old.received = ln[l].received + ReceivedSum(w, l)
        /\ old.accepted = ln[l].accepted + AcceptedSum(w, l)
        /\ old.rejected = ln[l].rejected + RejectedSum(w, l)
    BY DEF Pending, LineAdds, w
  <2>2. /\ ReceivedSum(y.wGrn, l) = ReceivedSum(w, l) + q
        /\ AcceptedSum(y.wGrn, l) = AcceptedSum(w, l) + a
        /\ RejectedSum(y.wGrn, l) = RejectedSum(w, l) + 0
    BY <1>7, <1>12, <1>13
  <2>3. /\ ReceivedSum(w, l) \in Nat /\ AcceptedSum(w, l) \in Nat /\ RejectedSum(w, l) \in Nat
    BY <1>8, SumTypes
  <2>4. ln[l].received \in Nat /\ ln[l].accepted \in Nat /\ ln[l].rejected \in Nat
    BY <1>3 DEF LineRow
  <2>5. q \in Nat /\ a \in Nat
    BY <1>1, PoAssumption
  <2>6. /\ new.received = old.received + q /\ new.accepted = old.accepted + a
        /\ new.rejected = old.rejected
    <3>1. new = IF l = x.line THEN row ELSE old
      BY <1>6
    <3>2. old \in LineRow
      BY <1>4
    <3> QED BY <1>5, <3>1, <3>2 DEF LineRow
  <2> HIDE DEF old, new, q, a
  <2>7. /\ new.received = ln[l].received + ReceivedSum(y.wGrn, l)
        /\ new.accepted = ln[l].accepted + AcceptedSum(y.wGrn, l)
        /\ new.rejected = ln[l].rejected + RejectedSum(y.wGrn, l)
    BY <2>1, <2>2, <2>3, <2>4, <2>5, <2>6
  <2> QED BY <2>7 DEF LineAdds, new
<1>11. ASSUME NEW i \in Items \ RawMaterials
       PROVE  Over(st, y.wStock)[i] = st[i] + ItemSum(y.wGrn, i)
  <2>1. Over(st, r.wStock)[i] = st[i] + ItemSum(w, i)
    BY DEF Pending, w
  <2>2. ItemSum(y.wGrn, i) = ItemSum(w, i) + IF it = i THEN n ELSE 0
    BY <1>7, <1>12, <1>13
  <2>4. ItemSum(w, i) \in Nat /\ st[i] \in Int /\ n \in Nat
    BY <1>1, <1>3, <1>8, SumTypes, PoAssumption
  <2>5. Over(st, y.wStock)[i] = IF i = it /\ n # 0 THEN v ELSE Over(st, r.wStock)[i]
    BY <1>1, <1>3 DEF Over, Put, n, it
  <2>6. i = it => v = Over(st, r.wStock)[i] + n
    BY DEF n, it
  <2> QED BY <2>1, <2>2, <2>4, <2>5, <2>6
<1> QED BY <1>9, <1>10, <1>11 DEF Pending

\* The verdict of an inspection is added to the line and the stock as to the GRN line.
LEMMA InspectBalances ==
  ASSUME NEW ln, NEW st, NEW g, NEW ln2, NEW st2, NEW h, RowsOK(ln, st, g), Balanced(ln, st, g),
         NEW i, NEW y, Inspects(g, i, y, h),
         \A l \in PoLines :
           /\ ln2[l].received = ln[l].received
           /\ ln2[l].accepted = ln[l].accepted + (IF y.line = l THEN y.accepted ELSE 0)
           /\ ln2[l].rejected = ln[l].rejected + (IF y.line = l THEN y.rejected ELSE 0),
         \A it \in Items \ RawMaterials :
           st2[it] = st[it] + (IF ItemOf[y.line] = it THEN y.accepted ELSE 0)
  PROVE  Balanced(ln2, st2, h)
<1>1. /\ \A l : /\ ReceivedSum(h, l) = ReceivedSum(g, l)
                /\ AcceptedSum(h, l) = AcceptedSum(g, l) + (IF y.line = l THEN y.accepted ELSE 0)
                /\ RejectedSum(h, l) = RejectedSum(g, l) + (IF y.line = l THEN y.rejected ELSE 0)
      /\ \A it : ItemSum(h, it) = ItemSum(g, it) + (IF ItemOf[y.line] = it THEN y.accepted ELSE 0)
  BY SumInspect
<1>2. \A k \in DOMAIN h : GrnOK(h[k])
  BY DEF Balanced, Inspects
<1>3. /\ \A l \in PoLines :
           /\ ln[l].received = ReceivedSum(g, l)
           /\ ln[l].accepted = AcceptedSum(g, l)
           /\ ln[l].rejected = RejectedSum(g, l)
      /\ \A it \in Items \ RawMaterials : st[it] = ItemSum(g, it)
  BY DEF Balanced
<1>4. /\ \A l \in PoLines :
           /\ ln2[l].received = ReceivedSum(h, l)
           /\ ln2[l].accepted = AcceptedSum(h, l)
           /\ ln2[l].rejected = RejectedSum(h, l)
      /\ \A it \in Items \ RawMaterials : st2[it] = ItemSum(h, it)
  BY <1>1, <1>3
<1> QED BY <1>2, <1>4 DEF Balanced

-----------------------------------------------------------------------------
(* Steps *)

\* After a step of c: the rows balance, its own request, and what the others hold.
LEMMA StepOthers ==
  ASSUME CountInv, TypeInv', NEW c \in InFlight, InFlight' = InFlight, req' = [req EXCEPT ![c] = req'[c]],
         Balanced(line', stock', grn'), Pending(req'[c], line', stock', grn'),
         \A d \in InFlight \ {c} : Pending(req[d], line', stock', grn') /\ Apart(req'[c], req[d])
  PROVE  CountInv'
<1>1. \A d \in InFlight : d # c => req'[d] = req[d]
  BY DEF CountInv, TypeInv
<1>2. \A d \in InFlight' : Pending(req'[d], line', stock', grn')
  BY <1>1
<1>3. \A d, e \in InFlight' : d # e => Apart(req'[d], req'[e])
  <2>1. ASSUME NEW d \in InFlight, NEW e \in InFlight, d # e
        PROVE  Apart(req'[d], req'[e])
    <3>1. CASE d = c
      BY <1>1, <2>1, <3>1
    <3>2. CASE e = c
      <4>1. Apart(req'[c], req[d]) /\ req'[d] = req[d]
        BY <1>1, <2>1, <3>2
      <4> QED BY <3>2, <4>1 DEF Apart
    <3>3. CASE d # c /\ e # c
      BY <1>1, <2>1, <3>3 DEF CountInv
    <3> QED BY <3>1, <3>2, <3>3
  <2> QED BY <2>1
<1> QED BY <1>2, <1>3 DEF CountInv

\* What every step of c finds.
LEMMA Found ==
  ASSUME CountInv, NEW c \in InFlight
  PROVE  /\ TypeInv /\ RowsOK(line, stock, grn) /\ Balanced(line, stock, grn)
         /\ req[c] \in RequestRow /\ RequestOK(req[c]) /\ Pending(req[c], line, stock, grn)
         /\ \A d \in InFlight \ {c} : /\ Pending(req[d], line, stock, grn) /\ req[d] \in RequestRow
                                      /\ Apart(req[c], req[d])
BY Fields DEF CountInv, TypeInv, RowsType, RowsOK

\* The steps that leave the counters, the stock and the GRN lines alone.
Still == /\ \A l \in PoLines : SameCounters(line'[l], line[l])
         /\ stock' = stock /\ grn' = grn

LEMMA StillStep ==
  ASSUME CountInv, TypeInv', NEW c \in InFlight, InFlight' = InFlight, req' = [req EXCEPT ![c] = req'[c]],
         Still, Pending(req'[c], line', stock', grn'),
         \A d \in InFlight \ {c} : Apart(req'[c], req[d])
  PROVE  CountInv'
<1>1. RowsOK(line, stock, grn) /\ RowsOK(line', stock', grn') /\ Balanced(line, stock, grn)
  BY Found DEF RowsOK, TypeInv, RowsType
<1>2. Balanced(line', stock', grn')
  BY <1>1 DEF Balanced, Still, SameCounters
<1>3. ASSUME NEW d \in InFlight \ {c}
      PROVE  Pending(req[d], line', stock', grn')
  <2>1. Pending(req[d], line, stock, grn) /\ req[d] \in RequestRow
    BY Found
  <2>2. req[d].op = "inspect" /\ req[d].pc = "stock" => grn'[req[d].grnLine].qc = "Pending"
    BY <2>1 DEF Pending, Still
  <2>3. req[d].wLine \in Written(PoLines, LineRow)
    BY <2>1 DEF RequestRow
  <2>4. DOMAIN req[d].wLine \subseteq PoLines
    BY <2>3 DEF Written
  <2>5. \A l \in DOMAIN req[d].wLine : SameCounters(line'[l], line[l])
    BY <2>4 DEF Still
  <2>6. \A it \in DOMAIN req[d].wStock : stock'[it] = stock[it]
    BY DEF Still
  <2> QED BY <1>1, <2>1, <2>2, <2>5, <2>6, PendingKept
<1> QED BY <1>2, <1>3, StepOthers

\* A request that has written nothing, and inspects nothing yet, is in nobody's way.
LEMMA FreshApart ==
  ASSUME NEW r, NEW s, DOMAIN r.wLine = {}, DOMAIN r.wStock = {}, ~ (r.op = "inspect" /\ r.pc = "stock")
  PROVE  Apart(r, s)
BY DEF Apart

\* A request that starts or ends and leaves the rows alone.
LEMMA FreshStep ==
  ASSUME CountInv, TypeInv', NEW c \in InFlight, InFlight' = InFlight, NEW r, req' = [req EXCEPT ![c] = r],
         Still, r.wLine = NoWrite, r.wStock = NoWrite, r.wGrn = << >>, r.pc # "stock",
         r.op = "inspect" => r.passed \in 0..MaxOrdered /\ r.rejected \in 0..MaxOrdered,
         r.op = "adjust" => r.item \in RawMaterials
  PROVE  CountInv'
<1>1. req'[c] = r /\ req' = [req EXCEPT ![c] = req'[c]]
  BY DEF CountInv, TypeInv
<1>2. RowsOK(line', stock', grn')
  BY DEF RowsOK, TypeInv, RowsType
<1>3. DOMAIN r.wLine = {} /\ DOMAIN r.wStock = {}
  BY NoWriteType
<1>4. Pending(r, line', stock', grn')
  BY <1>2, <1>3, PendingFresh
<1>5. \A d \in InFlight \ {c} : Apart(r, req[d])
  BY <1>3, FreshApart
<1> QED BY <1>1, <1>4, <1>5, StillStep

LEMMA StillLines ==
  ASSUME UNCHANGED <<line, stock, grn>>
  PROVE  Still
BY DEF Still, SameCounters

LEMMA RequestCounts ==
  ASSUME CountInv, TypeInv', NEW c \in InFlight, InFlight' = InFlight, Request(c)
  PROVE  CountInv'
<1>1. ASSUME NEW p \in Orders, NEW qty \in [LinesOf(p) -> Limit.ordered],
             createPurchaseOrder(c, p, qty)
      PROVE  CountInv'
  <2>1. Still
    <3>1. line \in [PoLines -> LineRow]
      BY Found DEF RowsOK
    <3>2. /\ line' = [l \in PoLines |-> IF l \in LinesOf(p) THEN [line[l] EXCEPT !.ordered = qty[l]]
                                        ELSE line[l]]
          /\ stock' = stock /\ grn' = grn
      BY <1>1 DEF createPurchaseOrder
    <3>3. \A l \in PoLines : SameCounters(line'[l], line[l])
      BY <3>1, <3>2 DEF SameCounters, LineRow
    <3> QED BY <3>2, <3>3 DEF Still
  <2>2. req' = req /\ req' = [req EXCEPT ![c] = req'[c]]
    BY <1>1 DEF createPurchaseOrder, CountInv, TypeInv
  <2>3. Pending(req[c], line', stock', grn')
    <3>1. RowsOK(line, stock, grn) /\ RowsOK(line', stock', grn')
      BY Found DEF RowsOK, TypeInv, RowsType
    <3>2. Pending(req[c], line, stock, grn) /\ req[c] \in RequestRow
      BY Found
    <3>3. DOMAIN req[c].wLine \subseteq PoLines
      BY <3>2 DEF RequestRow, Written
    <3>4. /\ \A l \in DOMAIN req[c].wLine : SameCounters(line'[l], line[l])
          /\ \A it \in DOMAIN req[c].wStock : stock'[it] = stock[it]
          /\ req[c].op = "inspect" /\ req[c].pc = "stock" => grn'[req[c].grnLine].qc = "Pending"
      BY <2>1, <3>2, <3>3 DEF Still, Pending
    <3> QED BY <3>1, <3>2, <3>4, PendingKept
  <2>4. \A d \in InFlight \ {c} : Apart(req[c], req[d])
    BY Found
  <2> QED BY <2>1, <2>2, <2>3, <2>4, StillStep
<1>2. ASSUME NEW p \in Orders, NEW to \in Status, statusLoad(c, p, to)
      PROVE  CountInv'
  <2> DEFINE r == [Idle EXCEPT !.op = "status", !.pc = "loaded", !.po = p, !.row = po[p], !.to = to]
  <2>1. /\ r.wLine = NoWrite /\ r.wStock = NoWrite /\ r.wGrn = << >> /\ r.pc = "loaded" /\ r.op = "status"
    BY IdleFields DEF RequestRow
  <2>2. req' = [req EXCEPT ![c] = r] /\ Still
    BY <1>2, StillLines DEF statusLoad, Start
  <2> HIDE DEF r
  <2> QED BY <2>1, <2>2, FreshStep
<1>3. ASSUME NEW l \in PoLines, NEW q \in Limit.ordered, amendLoad(c, l, q)
      PROVE  CountInv'
  <2> DEFINE r == [Idle EXCEPT !.op = "amend", !.pc = "loaded", !.po = PoOf[l],
                               !.row = po[PoOf[l]], !.line = l, !.qty = q]
  <2>1. /\ r.wLine = NoWrite /\ r.wStock = NoWrite /\ r.wGrn = << >> /\ r.pc = "loaded" /\ r.op = "amend"
    BY IdleFields DEF RequestRow
  <2>2. req' = [req EXCEPT ![c] = r] /\ Still
    BY <1>3, StillLines DEF amendLoad, Start
  <2> HIDE DEF r
  <2> QED BY <2>1, <2>2, FreshStep
<1>4. ASSUME NEW p \in Orders, NEW receipts \in Receipts(p), grnLoad(c, p, receipts)
      PROVE  CountInv'
  <2> DEFINE r == [Idle EXCEPT !.op = "grn", !.pc = "line", !.po = p, !.receipts = receipts]
  <2>1. /\ r.wLine = NoWrite /\ r.wStock = NoWrite /\ r.wGrn = << >> /\ r.pc = "line" /\ r.op = "grn"
    BY IdleFields DEF RequestRow
  <2>2. req' = [req EXCEPT ![c] = r] /\ Still
    BY <1>4, StillLines DEF grnLoad, Start
  <2> HIDE DEF r
  <2> QED BY <2>1, <2>2, FreshStep
<1>5. ASSUME NEW i \in DOMAIN grn, NEW passed \in 0..MaxQty, NEW held \in 0..MaxQty,
             NEW rejected \in 0..MaxQty, inspectLoad(c, i, passed, held, rejected)
      PROVE  CountInv'
  <2> DEFINE r == [Idle EXCEPT !.op = "inspect", !.pc = "loaded", !.grnLine = i,
                               !.passed = passed, !.held = held, !.rejected = rejected]
  <2>1. /\ r.wLine = NoWrite /\ r.wStock = NoWrite /\ r.wGrn = << >> /\ r.pc = "loaded" /\ r.op = "inspect"
        /\ r.passed = passed /\ r.rejected = rejected
    BY IdleFields DEF RequestRow
  <2>2. passed \in 0..MaxOrdered /\ rejected \in 0..MaxOrdered
    BY PoAssumption
  <2>3. req' = [req EXCEPT ![c] = r] /\ Still
    BY <1>5, StillLines DEF inspectLoad, Start
  <2> HIDE DEF r
  <2> QED BY <2>1, <2>2, <2>3, FreshStep
<1>6. ASSUME NEW it \in RawMaterials, NEW delta \in {-1, 1}, adjustLoad(c, it, delta)
      PROVE  CountInv'
  <2> DEFINE r == [Idle EXCEPT !.op = "adjust", !.pc = "loaded", !.item = it, !.delta = delta,
                               !.seen = stock[it]]
  <2>1. /\ r.wLine = NoWrite /\ r.wStock = NoWrite /\ r.wGrn = << >> /\ r.pc = "loaded" /\ r.op = "adjust"
        /\ r.item = it
    BY IdleFields DEF RequestRow
  <2>2. req' = [req EXCEPT ![c] = r] /\ Still
    BY <1>6, StillLines DEF adjustLoad, Start
  <2> HIDE DEF r
  <2> QED BY <2>1, <2>2, FreshStep
<1> QED BY <1>1, <1>2, <1>3, <1>4, <1>5, <1>6 DEF Request

\* A step of a transaction that writes no counter.
LEMMA SameWrites ==
  ASSUME CountInv, TypeInv', NEW c \in InFlight, InFlight' = InFlight, req' = [req EXCEPT ![c] = req'[c]],
         UNCHANGED <<line, stock, grn>>, req[c].op \in {"amend", "grn"}, req'[c].op = req[c].op,
         req'[c].wLine = req[c].wLine, req'[c].wStock = req[c].wStock, req'[c].wGrn = req[c].wGrn
  PROVE  CountInv'
<1>1. Pending(req[c], line, stock, grn) /\ \A d \in InFlight \ {c} : Apart(req[c], req[d])
  BY Found
<1>2. Pending(req'[c], line', stock', grn')
  BY <1>1 DEF Pending
<1>3. \A d \in InFlight \ {c} : Apart(req'[c], req[d])
  BY <1>1 DEF Apart
<1> QED BY <1>2, <1>3, StillStep, StillLines

\* An amendment locks a line whose counters it repeats.
LEMMA AmendCounts ==
  ASSUME CountInv, TypeInv', NEW c \in InFlight, InFlight' = InFlight, amendLine(c)
  PROVE  CountInv'
<1> DEFINE l == req[c].line
           y == req'[c]
<1>1. /\ req' = [req EXCEPT ![c] = req'[c]] /\ RequestOK(y) /\ y.op = "amend"
      /\ y.wStock = req[c].wStock /\ DOMAIN y.wLine = {l} /\ SameCounters(y.wLine[l], line[l])
      /\ req[c].op = "amend"
  BY Found, AmendLine DEF SameCounters
<1>2. y.wGrn = << >> /\ DOMAIN y.wStock = {}
  BY <1>1 DEF RequestOK
<1>3. UNCHANGED <<line, stock, grn>> /\ LineFree(c, l)
  BY DEF amendLine
<1>4. RowsOK(line, stock, grn)
  BY Found
<1> HIDE DEF l, y
<1>5. Pending(y, line, stock, grn)
  <2>1. line \in [PoLines -> LineRow] /\ stock \in [Items -> Int]
    BY <1>4 DEF RowsOK
  <2>2. \A k \in PoLines : SameCounters(Over(line, y.wLine)[k], line[k]) /\ line[k] \in LineRow
    BY <1>1, <2>1 DEF Over, SameCounters
  <2>3. \A k \in PoLines : LineAdds(Over(line, y.wLine)[k], line[k], y.wGrn, k)
    BY <1>2, <2>2, SumNothing DEF LineAdds, SameCounters, LineRow
  <2>4. \A it \in Items : Over(stock, y.wStock)[it] = stock[it] + ItemSum(y.wGrn, it)
    BY <1>2, <2>1, SumNothing DEF Over
  <2> QED BY <1>1, <1>2, <2>3, <2>4 DEF Pending
<1>6. Pending(y, line', stock', grn')
  BY <1>3, <1>5
<1>7. \A d \in InFlight \ {c} : Apart(y, req[d])
  BY <1>1, <1>2, <1>3 DEF Apart, LineFree
<1> QED BY <1>1, <1>3, <1>6, <1>7, StillStep, StillLines DEF y

\* A receipt line locks its order line, and its item when it is credited.
LEMMA CreateCounts ==
  ASSUME CountInv, TypeInv', NEW c \in InFlight, InFlight' = InFlight, createGrnLine(c)
  PROVE  CountInv'
<1> DEFINE r == req[c]
           y == req'[c]
           x == Head(r.receipts)
           it == ItemOf[x.line]
           v == Credited(c, it, Now(x))
<1>1. /\ req' = [req EXCEPT ![c] = y] /\ RequestOK(y) /\ r.op = "grn" /\ y.op = "grn" /\ x \in Receipt
      /\ y.wGrn = Append(r.wGrn, GrnLine(x))
      /\ y.wLine = Put(r.wLine, x.line, Received(LineView(c)[x.line], x.qty, Now(x)))
      /\ y.wStock = IF Now(x) = 0 THEN r.wStock ELSE Put(r.wStock, it, v)
  BY Found, CreateGrn
<1>2. UNCHANGED <<line, stock, grn>> /\ LineFree(c, x.line) /\ (Now(x) > 0 => StockFree(c, it))
  BY DEF createGrnLine, Now
<1>3. it \in Items /\ Now(x) \in Nat
  BY <1>1, ReceiptFields
<1>4. v \in Int
  BY <1>3, Found, CreditType
<1>5. it \notin RawMaterials => v = Over(stock, r.wStock)[it] + Now(x)
  BY DEF Credited, StockView
<1>6. y \in RequestRow /\ r \in RequestRow /\ Pending(r, line, stock, grn) /\ RowsOK(line, stock, grn)
  BY <1>1, Found DEF RequestOK
<1> HIDE DEF r, y, x, it, v
<1>7. Pending(y, line, stock, grn)
  BY <1>1, <1>4, <1>5, <1>6, PendingCreate DEF LineView, r, it
<1>8. Pending(y, line', stock', grn')
  BY <1>2, <1>7
<1>9. /\ DOMAIN y.wLine \subseteq DOMAIN r.wLine \cup {x.line}
      /\ DOMAIN y.wStock \subseteq IF Now(x) = 0 THEN DOMAIN r.wStock ELSE DOMAIN r.wStock \cup {it}
  BY <1>1 DEF Put
<1>10. \A d \in InFlight \ {c} : Apart(y, req[d])
  <2>1. ASSUME NEW d \in InFlight \ {c}
        PROVE  Apart(y, req[d])
    <3>1. Apart(r, req[d])
      BY Found DEF r
    <3>2. DOMAIN y.wLine \cap DOMAIN req[d].wLine = {}
      BY <1>2, <1>9, <3>1 DEF Apart, LineFree
    <3>3. DOMAIN y.wStock \cap DOMAIN req[d].wStock = {}
      BY <1>2, <1>3, <1>9, <3>1 DEF Apart, StockFree
    <3> QED BY <1>1, <3>2, <3>3 DEF Apart
  <2> QED BY <2>1
<1> QED BY <1>1, <1>2, <1>8, <1>10, StillStep, StillLines DEF y

\* Only one transaction inserts the inspection of a line.
LEMMA InsertCounts ==
  ASSUME CountInv, TypeInv', NEW c \in InFlight, InFlight' = InFlight, inspectInsert(c)
  PROVE  CountInv'
<1> DEFINE r == req[c]
           y == req'[c]
<1>1. /\ req' = [req EXCEPT ![c] = y] /\ RequestOK(y) /\ r.op = "inspect" /\ y.op = "inspect"
      /\ y.pc = "stock" /\ y.grnLine = r.grnLine /\ y.passed = r.passed /\ y.rejected = r.rejected
      /\ y.wLine = r.wLine
  BY Found, InspectInsert
<1>2. /\ UNCHANGED <<line, stock, grn>> /\ grn[r.grnLine].qc = "Pending"
      /\ \A d \in InFlight : At(d, "inspect", "stock") => req[d].grnLine # r.grnLine
  BY DEF inspectInsert, Inspectable
<1>3. Pending(r, line, stock, grn) /\ RowsOK(line', stock', grn')
  BY Found DEF TypeInv, RowsType, RowsOK
<1> HIDE DEF r, y
<1>4. y.wGrn = << >> /\ DOMAIN y.wStock = {} /\ DOMAIN y.wLine = {}
  BY <1>1, <1>3 DEF RequestOK, Pending
<1>5. /\ y.passed \in 0..MaxOrdered /\ y.rejected \in 0..MaxOrdered
      /\ grn'[y.grnLine].qc = "Pending"
  BY <1>1, <1>2, <1>3 DEF Pending
<1>6. Pending(y, line', stock', grn')
  BY <1>1, <1>3, <1>4, <1>5, PendingFresh
<1>7. \A d \in InFlight \ {c} : Apart(y, req[d])
  BY <1>1, <1>2, <1>4 DEF Apart, At
<1> QED BY <1>1, <1>2, <1>6, <1>7, StillStep, StillLines DEF y

\* The end of a request that wrote: the rows balance, and it disturbed nobody.
LEMMA EndStep ==
  ASSUME CountInv, TypeInv', NEW c \in InFlight, InFlight' = InFlight, Done(c),
         Balanced(line', stock', grn'),
         \A d \in InFlight \ {c} :
           /\ \A l \in DOMAIN req[d].wLine : SameCounters(line'[l], line[l])
           /\ \A it \in DOMAIN req[d].wStock : stock'[it] = stock[it]
           /\ req[d].op = "inspect" /\ req[d].pc = "stock" => grn'[req[d].grnLine].qc = "Pending"
  PROVE  CountInv'
<1>1. req'[c] = Idle /\ req' = [req EXCEPT ![c] = req'[c]]
  BY DEF CountInv, TypeInv, Done
<1>2. RowsOK(line', stock', grn') /\ RowsOK(line, stock, grn)
  BY Found DEF RowsOK, TypeInv, RowsType
<1>3. DOMAIN Idle.wLine = {} /\ DOMAIN Idle.wStock = {} /\ Idle.wGrn = << >> /\ Idle.op = "none"
  BY IdleFields, IdleType, NoWriteType
<1>4. Pending(req'[c], line', stock', grn')
  BY <1>1, <1>2, <1>3, PendingFresh
<1>5. \A d \in InFlight \ {c} : Apart(req'[c], req[d])
  BY <1>1, <1>3, FreshApart
<1>6. ASSUME NEW d \in InFlight \ {c}
      PROVE  Pending(req[d], line', stock', grn')
  <2>1. Pending(req[d], line, stock, grn) /\ req[d] \in RequestRow
    BY Found
  <2> QED BY <1>2, <2>1, PendingKept
<1> QED BY <1>1, <1>4, <1>5, <1>6, StepOthers

LEMMA CommitCounts ==
  ASSUME CountInv, TypeInv', NEW c \in InFlight, InFlight' = InFlight, Commit(c)
  PROVE  CountInv'
<1> DEFINE r == req[c]
<1>1. /\ Done(c) /\ line' = Over(line, r.wLine) /\ stock' = Over(stock, r.wStock) /\ grn' = grn \o r.wGrn
  BY DEF Commit, LineView, StockView
<1>2. /\ r \in RequestRow /\ RowsOK(line, stock, grn) /\ Balanced(line, stock, grn)
      /\ Pending(r, line, stock, grn) /\ RequestOK(r)
  BY Found
<1>3. Balanced(line', stock', grn')
  BY <1>1, <1>2, CommitBalances
<1>4. ASSUME NEW d \in InFlight \ {c}
      PROVE  /\ \A l \in DOMAIN req[d].wLine : SameCounters(line'[l], line[l])
             /\ \A it \in DOMAIN req[d].wStock : stock'[it] = stock[it]
             /\ req[d].op = "inspect" /\ req[d].pc = "stock" => grn'[req[d].grnLine].qc = "Pending"
  <2>1. Apart(r, req[d]) /\ Pending(req[d], line, stock, grn) /\ req[d] \in RequestRow
    BY Found
  <2>2. DOMAIN req[d].wLine \subseteq PoLines /\ DOMAIN req[d].wStock \subseteq Items
    BY <2>1 DEF RequestRow, Written
  <2>3. \A l \in DOMAIN req[d].wLine : line'[l] = line[l]
    BY <1>1, <1>2, <2>1, <2>2 DEF Over, Apart, RowsOK
  <2>4. \A it \in DOMAIN req[d].wStock : stock'[it] = stock[it]
    BY <1>1, <1>2, <2>1, <2>2 DEF Over, Apart, RowsOK
  <2>5. ASSUME req[d].op = "inspect", req[d].pc = "stock"
        PROVE  grn'[req[d].grnLine].qc = "Pending"
    <3>1. grn[req[d].grnLine].qc = "Pending" /\ req[d].grnLine \in DOMAIN grn
      BY <2>1, <2>5 DEF Pending, CountInv, TypeInv
    <3>2. grn \in Seq(GrnRow) /\ r.wGrn \in Seq(GrnRow)
      BY <1>2 DEF RowsOK, RequestRow
    <3> HIDE DEF r
    <3>3. grn'[req[d].grnLine] = grn[req[d].grnLine]
      BY <1>1, <3>1, <3>2
    <3> QED BY <3>1, <3>3
  <2> QED BY <2>3, <2>4, <2>5 DEF SameCounters
<1> QED BY <1>1, <1>3, <1>4, EndStep

LEMMA InspectCounts ==
  ASSUME CountInv, TypeInv', NEW c \in InFlight, InFlight' = InFlight, inspectGrnLineItem(c)
  PROVE  CountInv'
<1> DEFINE r == req[c]
           i == r.grnLine
           l == grn[i].line
           it == ItemOf[l]
           n == r.passed
           m == r.rejected
           qc == deriveGrnQcStatus(n, r.held)
           y == [grn[i] EXCEPT !.qc = qc, !.accepted = n, !.rejected = m]
<1>1. /\ r.op = "inspect" /\ r.pc = "stock" /\ LineFree(c, l) /\ (n > 0 => StockFree(c, it)) /\ Done(c)
      /\ grn' = [grn EXCEPT ![i].qc = qc, ![i].accepted = n, ![i].rejected = m]
      /\ line' = [line EXCEPT ![l].accepted = @ + n, ![l].rejected = @ + m]
      /\ stock' = IF n = 0 THEN stock ELSE [stock EXCEPT ![it] = Credited(c, it, n)]
  BY DEF inspectGrnLineItem, At
<1>2. /\ Pending(r, line, stock, grn) /\ RequestOK(r) /\ Balanced(line, stock, grn) /\ i \in DOMAIN grn
      /\ line \in [PoLines -> LineRow] /\ stock \in [Items -> Int] /\ grn \in Seq(GrnRow)
  BY <1>1, Found DEF CountInv, TypeInv, RowsOK
<1>3. n \in 0..MaxOrdered /\ m \in 0..MaxOrdered /\ grn[i].qc = "Pending"
  BY <1>1, <1>2 DEF Pending
<1>4. grn[i] \in GrnRow /\ l \in PoLines /\ it \in Items
  <2>1. grn[i] \in GrnRow
    BY <1>2
  <2> QED BY <2>1, PoAssumption DEF GrnRow
<1>5. DOMAIN r.wStock = {} /\ StockView(c) = stock
  BY <1>1, <1>2 DEF RequestOK, StockView, Over
<1>6. qc \in {"NotRequired", "Hold", "Pass", "Fail"}
  BY DEF deriveGrnQcStatus
<1> HIDE DEF qc, l, it, n, m
<1>7. y \in GrnRow /\ y.line = l /\ y.qty = grn[i].qty /\ y.accepted = n /\ y.rejected = m /\ y.qc = qc
  <2> DEFINE old == grn[i]
  <2>1. old \in GrnRow /\ old.line = l /\ n \in Nat /\ m \in Nat
        /\ qc \in {"Pending", "NotRequired", "Hold", "Pass", "Fail"}
    BY <1>3, <1>4, <1>6, PoAssumption DEF l
  <2>2. y = [old EXCEPT !.qc = qc, !.accepted = n, !.rejected = m]
    OBVIOUS
  <2>3. y.qty = old.qty /\ old.qty = grn[i].qty
    BY <1>4 DEF GrnRow
  <2> HIDE DEF old, y
  <2> QED BY <2>1, <2>2, <2>3 DEF GrnRow
<1>8. grn' = [grn EXCEPT ![i] = y]
  BY <1>1, <1>2, <1>4 DEF GrnRow
<1> HIDE DEF y
<1>9. Inspects(grn, i, y, grn')
  <2>1. GrnOK(grn[i])
    BY <1>2 DEF Balanced
  <2>2. GrnOK(y)
    BY <1>3, <1>6, <1>7 DEF GrnOK
  <2> QED BY <1>2, <1>3, <1>7, <1>8, <2>1, <2>2 DEF Inspects, l
<1>10. \A k \in PoLines :
         /\ line'[k].received = line[k].received
         /\ line'[k].accepted = line[k].accepted + (IF l = k THEN n ELSE 0)
         /\ line'[k].rejected = line[k].rejected + (IF l = k THEN m ELSE 0)
  <2> DEFINE a == line[l].accepted + n
             b == line[l].rejected + m
  <2>1. line' = [line EXCEPT ![l].accepted = a, ![l].rejected = b]
    BY <1>1
  <2>2. a = line[l].accepted + n /\ b = line[l].rejected + m
    OBVIOUS
  <2> HIDE DEF a, b
  <2>3. \A k \in PoLines : line[k].accepted \in Nat /\ line[k].rejected \in Nat
    BY <1>2 DEF LineRow
  <2>4. /\ line'[l].received = line[l].received /\ line'[l].accepted = a /\ line'[l].rejected = b
        /\ \A k \in PoLines : k # l => line'[k] = line[k]
    BY <1>2, <1>4, <2>1 DEF LineRow
  <2> QED BY <2>2, <2>3, <2>4
<1>11. \A k \in Items \ RawMaterials : stock'[k] = stock[k] + (IF it = k THEN n ELSE 0)
  <2>1. it \notin RawMaterials => Credited(c, it, n) = stock[it] + n
    BY <1>5 DEF Credited
  <2> QED BY <1>1, <1>2, <1>3, <1>4, <2>1, PoAssumption
<1>12. Balanced(line', stock', grn')
  <2>1. RowsOK(line, stock, grn)
    BY Found
  <2>2. ItemOf[y.line] = it
    BY <1>7 DEF it
  <2> QED BY <1>2, <1>7, <1>9, <1>10, <1>11, <2>1, <2>2, InspectBalances
<1>13. ASSUME NEW d \in InFlight \ {c}
       PROVE  /\ \A k \in DOMAIN req[d].wLine : SameCounters(line'[k], line[k])
              /\ \A k \in DOMAIN req[d].wStock : stock'[k] = stock[k]
              /\ req[d].op = "inspect" /\ req[d].pc = "stock" => grn'[req[d].grnLine].qc = "Pending"
  <2>1. Apart(r, req[d]) /\ Pending(req[d], line, stock, grn) /\ req[d] \in RequestRow
    BY Found
  <2>2. DOMAIN req[d].wLine \subseteq PoLines /\ DOMAIN req[d].wStock \subseteq Items
    BY <2>1 DEF RequestRow, Written
  <2>3. l \notin DOMAIN req[d].wLine /\ (n > 0 => it \notin DOMAIN req[d].wStock)
    BY <1>1 DEF LineFree, StockFree
  <2>4. \A k \in DOMAIN req[d].wLine : line'[k] = line[k]
    BY <1>1, <1>2, <2>2, <2>3
  <2>5. \A k \in DOMAIN req[d].wStock : stock'[k] = stock[k]
    BY <1>1, <1>2, <1>3, <2>2, <2>3, PoAssumption
  <2>6. ASSUME req[d].op = "inspect", req[d].pc = "stock"
        PROVE  grn'[req[d].grnLine].qc = "Pending"
    <3>1. grn[req[d].grnLine].qc = "Pending" /\ req[d].grnLine \in DOMAIN grn /\ req[d].grnLine # i
      BY <1>1, <2>1, <2>6 DEF Pending, CountInv, TypeInv, Apart
    <3>2. grn'[req[d].grnLine] = grn[req[d].grnLine]
      BY <1>2, <1>8, <3>1
    <3> QED BY <3>1, <3>2
  <2> QED BY <2>4, <2>5, <2>6 DEF SameCounters
<1> QED BY <1>1, <1>12, <1>13, EndStep

\* Adjustments are for raw materials only.
LEMMA AdjustCounts ==
  ASSUME CountInv, TypeInv', NEW c \in InFlight, InFlight' = InFlight, adjustStock(c)
  PROVE  CountInv'
<1> DEFINE it == req[c].item
           v == req[c].seen + req[c].delta
<1>1. /\ req[c].op = "adjust" /\ StockFree(c, it) /\ Done(c) /\ line' = line /\ grn' = grn
      /\ stock' = [stock EXCEPT ![it] = v]
  BY DEF adjustStock, At
<1>2. it \in RawMaterials /\ RowsOK(line, stock, grn) /\ Balanced(line, stock, grn)
  BY <1>1, Found DEF Pending
<1> HIDE DEF it, v
<1>3. \A k \in Items : k # it => stock'[k] = stock[k]
  BY <1>1, <1>2 DEF RowsOK
<1>4. Balanced(line', stock', grn')
  BY <1>1, <1>2, <1>3 DEF Balanced
<1>5. ASSUME NEW d \in InFlight \ {c}
      PROVE  /\ \A k \in DOMAIN req[d].wLine : SameCounters(line'[k], line[k])
             /\ \A k \in DOMAIN req[d].wStock : stock'[k] = stock[k]
             /\ req[d].op = "inspect" /\ req[d].pc = "stock" => grn'[req[d].grnLine].qc = "Pending"
  <2>1. Pending(req[d], line, stock, grn) /\ req[d] \in RequestRow
    BY Found
  <2>2. DOMAIN req[d].wStock \subseteq Items
    BY <2>1 DEF RequestRow, Written
  <2> QED BY <1>1, <1>3, <2>1, <2>2 DEF StockFree, SameCounters, Pending
<1> QED BY <1>1, <1>4, <1>5, EndStep

LEMMA AdvanceCounts ==
  ASSUME CountInv, TypeInv', NEW c \in InFlight, InFlight' = InFlight, Advance(c)
  PROVE  CountInv'
<1>1. CASE updatePurchaseOrderStatus(c) \/ Rollback(c)
  <2>1. req' = [req EXCEPT ![c] = Idle] /\ UNCHANGED <<line, stock, grn>>
    BY <1>1 DEF updatePurchaseOrderStatus, Rollback, Done
  <2>2. Idle.op = "none" /\ Idle.pc = "idle"
    BY IdleType DEF RequestOK
  <2> QED BY <2>1, <2>2, IdleFields, FreshStep, StillLines
<1>2. CASE amendPurchaseOrder(c)
  <2>1. UNCHANGED <<line, stock, grn>>
    BY <1>2 DEF amendPurchaseOrder
  <2>2. req[c].wGrn = << >> /\ req'[c].wGrn = << >> /\ DOMAIN req[c].wStock = {}
    BY <1>2, Found, AmendTotal DEF RequestOK
  <2> QED BY <1>2, <2>1, <2>2, Found, AmendTotal, SameWrites
<1>3. CASE grnReadStock(c)
  <2>1. UNCHANGED <<line, stock, grn>>
    BY <1>3 DEF grnReadStock
  <2> QED BY <1>3, <2>1, Found, GrnRead, SameWrites
<1>4. CASE grnRecompute(c)
  <2>1. UNCHANGED <<line, stock, grn>>
    BY <1>4 DEF grnRecompute
  <2> QED BY <1>4, <2>1, Found, GrnRecompute, SameWrites
<1> QED BY <1>1, <1>2, <1>3, <1>4, AmendCounts, CreateCounts, CommitCounts, InsertCounts, InspectCounts,
        AdjustCounts DEF Advance

LEMMA InitCounts == Init => CountInv
<1> SUFFICES ASSUME Init PROVE CountInv
  OBVIOUS
<1>1. TypeInv
  BY InitType
<1>2. PICK cs \in (SUBSET Clients) \ {{}} : req = [c \in cs |-> Idle]
  BY DEF Init
<1>3. \A c \in InFlight : req[c] = Idle
  BY <1>2 DEF InFlight
<1>4. grn = << >> /\ RowsOK(line, stock, grn)
  BY <1>1 DEF Init, TypeInv, RowsType, RowsOK
<1>5. Balanced(line, stock, grn)
  BY <1>4, SumNothing DEF Balanced, Init
<1>6. /\ DOMAIN Idle.wLine = {} /\ DOMAIN Idle.wStock = {} /\ Idle.wGrn = << >> /\ Idle.op = "none"
  BY IdleFields, IdleType, NoWriteType
<1>7. Pending(Idle, line, stock, grn)
  BY <1>4, <1>6, PendingFresh
<1>8. Apart(Idle, Idle)
  BY <1>6, FreshApart
<1> QED BY <1>1, <1>3, <1>5, <1>7, <1>8 DEF CountInv

LEMMA StepCounts == CountInv /\ [Next]_vars => CountInv'
<1> SUFFICES ASSUME CountInv, [Next]_vars PROVE CountInv'
  OBVIOUS
<1>1. TypeInv /\ TypeInv'
  BY TypeStep DEF CountInv
<1>2. CASE UNCHANGED vars
  BY <1>1, <1>2 DEF vars, CountInv, InFlight
<1>3. ASSUME NEW c \in InFlight, Request(c) \/ Advance(c)
      PROVE  CountInv'
  BY <1>1, <1>3, SameClients, RequestCounts, AdvanceCounts
<1> QED BY <1>2, <1>3 DEF Next

LEMMA AlwaysCounts == Spec => []CountInv
BY InitCounts, StepCounts, PTL DEF Spec

\* Whatever receipts, inspections and amendments run beside each other, the
\* counters of every order line are the sums over its GRN lines (createGrn,
\* inspectGrnLineItem: increments in place, under row locks).
THEOREM CountersAreSums == Spec => []LineCountersMatchGrns
<1>1. CountInv => LineCountersMatchGrns
  BY CountersAre DEF CountInv, Balanced
<1> QED BY <1>1, AlwaysCounts, PTL

\* And the stock of every item that is not a raw material is what was accepted of it
\* (creditPurchaseItemStock's increment of general_inventory_stock).
THEOREM GeneralStockIsAccepted == Spec => []StockIsAccepted
<1>1. CountInv => StockIsAccepted
  BY CountersAre DEF CountInv, Balanced
<1> QED BY <1>1, AlwaysCounts, PTL

=============================================================================
