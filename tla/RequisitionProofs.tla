-------------------------- MODULE RequisitionProofs --------------------------
(* Theorems about Requisition, for any orders, parts, needs and clients: what *)
(* one request at a time asks for and credits, how many copies of a BOM any   *)
(* number of requests leave, that a verdict keeps its own shortage rows, that *)
(* requisitions are numbered as SequentialId numbers rows, and what that      *)
(* numbering gives.                                                           *)
EXTENDS Requisition, TLAPS, FiniteSetTheorems, WellFoundedInduction

-----------------------------------------------------------------------------
(* Least and greatest elements *)

\* Every set of natural numbers that has an element has a least one, and Min
\* is it.
LEMMA MinIsLeast ==
  ASSUME NEW S \in SUBSET Nat, S # {}
  PROVE  Min(S) \in S /\ \A k \in S : Min(S) <= k
<1> DEFINE R == OpToRel(<, Nat)
<1>1. IsWellFoundedOn(R, Nat)
  BY NatLessThanWellFounded
<1>2. \A x, y \in Nat : x < y => <<x, y>> \in R
  BY DEF OpToRel
<1> HIDE DEF R
<1>3. PICK m \in S : \A k \in S : ~ (<<k, m>> \in R)
  BY <1>1, WFMin
<1>4. ASSUME NEW k \in S PROVE m <= k
  <2>1. ~(k < m)
    BY <1>2, <1>3
  <2>2. k \in Nat /\ m \in Nat
    OBVIOUS
  <2> QED BY <2>1, <2>2
<1>5. m \in S /\ \A k \in S : m =< k
  BY <1>4
<1> QED BY <1>5 DEF Min

\* An element that no other exceeds is the maximum.
LEMMA MaxIs ==
  ASSUME NEW S \in SUBSET Int, NEW m \in S, \A k \in S : k <= m
  PROVE  Max(S) = m
<1>1. ASSUME NEW x \in S, \A y \in S : x >= y PROVE x = m
  <2>1. x >= m /\ x <= m /\ x \in Int /\ m \in Int
    BY <1>1
  <2> QED BY <2>1
<1>2. m \in S /\ \A y \in S : m >= y
  OBVIOUS
<1> QED BY <1>1, <1>2 DEF Max

\* The positive part of a number.
LEMMA MaxOfZero ==
  ASSUME NEW x \in Int
  PROVE  /\ Max({0, x}) = IF x > 0 THEN x ELSE 0
         /\ Max({0, x}) \in Nat
<1>1. CASE x > 0
  <2>1. \A k \in {0, x} : k <= x
    BY <1>1
  <2>2. {0, x} \in SUBSET Int /\ x \in {0, x}
    OBVIOUS
  <2>3. Max({0, x}) = x
    BY <2>1, <2>2, MaxIs
  <2> QED BY <1>1, <2>3
<1>2. CASE ~(x > 0)
  <2>1. \A k \in {0, x} : k <= 0
    BY <1>2
  <2>2. {0, x} \in SUBSET Int /\ 0 \in {0, x}
    OBVIOUS
  <2>3. Max({0, x}) = 0
    BY <2>1, <2>2, MaxIs
  <2> QED BY <1>2, <2>3
<1> QED BY <1>1, <1>2

\* The larger of two numbers.
LEMMA MaxOfTwo ==
  ASSUME NEW x \in Int, NEW y \in Int
  PROVE  Max({x, y}) = IF x >= y THEN x ELSE y
<1>1. {x, y} \in SUBSET Int /\ x \in {x, y} /\ y \in {x, y}
  OBVIOUS
<1>2. CASE x >= y
  <2>1. \A k \in {x, y} : k <= x
    BY <1>2
  <2>2. Max({x, y}) = x
    BY <1>1, <2>1, MaxIs
  <2> QED BY <1>2, <2>2
<1>3. CASE ~(x >= y)
  <2>1. \A k \in {x, y} : k <= y
    BY <1>3
  <2>2. Max({x, y}) = y
    BY <1>1, <2>1, MaxIs
  <2> QED BY <1>3, <2>2
<1> QED BY <1>2, <1>3

-----------------------------------------------------------------------------
(* Sums as numbers of units *)

Units(f, ids) == UNION {{i} \X (1..f[i]) : i \in ids}

LEMMA UnitsIn ==
  ASSUME NEW f, NEW ids
  PROVE  \A i, n : <<i, n>> \in Units(f, ids) <=> i \in ids /\ n \in 1..f[i]
BY DEF Units

\* Finitely many summands, each a natural number.
Counts(f, ids) == IsFiniteSet(ids) /\ \A i \in ids : f[i] \in Nat

LEMMA UnitsFinite ==
  ASSUME NEW f, NEW ids, Counts(f, ids)
  PROVE  /\ IsFiniteSet(Units(f, ids))
         /\ Total(f, ids) = Cardinality(Units(f, ids)) /\ Total(f, ids) \in Nat
<1> DEFINE G == [i \in ids |-> {i} \X (1..f[i])]
           T == {{i} \X (1..f[i]) : i \in ids}
<1>1. G \in Surjection(ids, T)
  BY DEF Surjection
<1>2. IsFiniteSet(T)
  <2> HIDE DEF G, T
  <2> QED BY <1>1, FS_Surjection DEF Counts
<1>3. ASSUME NEW i \in ids PROVE IsFiniteSet({i} \X (1..f[i]))
  <2>1. IsFiniteSet(1..f[i])
    BY FS_Interval DEF Counts
  <2>2. IsFiniteSet({i})
    BY FS_Singleton
  <2> QED BY <2>1, <2>2, FS_Product
<1>4. \A X \in T : IsFiniteSet(X)
  BY <1>3
<1>5. IsFiniteSet(UNION T)
  <2> HIDE DEF T
  <2> QED BY <1>2, <1>4, FS_UNION
<1> QED BY <1>5, FS_CardinalityType DEF Units, Total

\* One summand less.
LEMMA TotalLess ==
  ASSUME NEW f, NEW ids, Counts(f, ids), NEW i \in ids
  PROVE  /\ Counts(f, ids \ {i}) /\ Total(f, ids \ {i}) \in Nat
         /\ Total(f, ids) = Total(f, ids \ {i}) + f[i]
<1> DEFINE q == f[i]
           U == Units(f, ids \ {i})
           V == {i} \X (1..q)
<1>1. Units(f, ids) = U \cup V /\ U \cap V = {}
  BY DEF Units
<1>2. q \in Nat
  BY DEF Counts
<1>a. Counts(f, ids \ {i})
  BY FS_Subset DEF Counts
<1> HIDE DEF q
<1>3. IsFiniteSet(1..q) /\ Cardinality(1..q) = q
  <2>1. Cardinality(1..q) = IF 1 > q THEN 0 ELSE q - 1 + 1
    BY <1>2, FS_Interval
  <2>2. IsFiniteSet(1..q)
    BY <1>2, FS_Interval
  <2> QED BY <1>2, <2>1, <2>2
<1>4. IsFiniteSet({i}) /\ Cardinality({i}) = 1
  BY FS_Singleton
<1>5. IsFiniteSet(V) /\ Cardinality(V) = 1 * q
  BY <1>3, <1>4, FS_Product
<1>6. Cardinality(V) = q
  BY <1>2, <1>5
<1>7. Total(f, ids) = Cardinality(U \cup V)
  BY <1>1 DEF Total, Units
<1>8. IsFiniteSet(U) /\ Total(f, ids \ {i}) = Cardinality(U) /\ Cardinality(U) \in Nat
  BY <1>a, UnitsFinite
<1> HIDE DEF U, V
<1>9. Cardinality(U \cup V) = Cardinality(U) + Cardinality(V) - Cardinality({})
  BY <1>1, <1>5, <1>8, FS_Union
<1>10. Cardinality({}) = 0
  BY FS_EmptySet
<1>11. Cardinality(U \cup V) = Cardinality(U) + q
  BY <1>2, <1>6, <1>8, <1>9, <1>10
<1> QED BY <1>a, <1>7, <1>8, <1>11 DEF q

\* The same summands.
LEMMA TotalSame ==
  ASSUME NEW f, NEW g, NEW ids, \A i \in ids : f[i] = g[i]
  PROVE  Total(f, ids) = Total(g, ids)
BY DEF Total

LEMMA TotalNone ==
  ASSUME NEW f
  PROVE  Total(f, {}) = 0
<1>1. Units(f, {}) = {}
  BY DEF Units
<1> QED BY <1>1, FS_EmptySet DEF Total, Units

\* One summand more.
LEMMA TotalMore ==
  ASSUME NEW f, NEW ids, NEW i, i \notin ids, Counts(f, ids \cup {i})
  PROVE  /\ Total(f, ids) \in Nat
         /\ Total(f, ids \cup {i}) = Total(f, ids) + f[i]
<1>1. (ids \cup {i}) \ {i} = ids
  OBVIOUS
<1> QED BY <1>1, TotalLess

-----------------------------------------------------------------------------
(* Types *)

\* The functions to T of some elements of S.
Partial(S, T) == UNION {[D -> T] : D \in SUBSET S}

ShortRow == [order : Orders, part : Keys, by : Clients]

PrRow == [number : Nat, status : PrStatus, lines : [Keys -> Nat]]

RequestRow ==
  [op : {"none", "recompute", "check", "generate", "status", "adjust"},
   pc : {"idle", "delete", "read", "judge", "written", "number", "insert", "loaded",
         "credit"},
   os : SUBSET Orders, todo : SUBSET Orders, missing : SUBSET Orders,
   copies : Partial(Orders, Nat), seen : SUBSET (1..MaxCopies), gone : SUBSET ShortRow,
   have : Partial(Parts, Int), pending : Partial(Parts, Nat),
   lines : Partial(Keys, Nat), id : Nat, tries : Nat, from : Nat, pr : Nat,
   to : PrStatus, parts : SUBSET Parts, wStock : Partial(Parts, Int), delta : Int]

\* Which stages each kind of request goes through.
Staged(r) ==
  /\ r.pc = "idle" <=> r.op = "none"
  /\ r.pc = "delete" <=> r.op = "recompute"
  /\ r.pc = "read" => r.op \in {"check", "generate"}
  /\ r.pc \in {"judge", "written"} => r.op = "check"
  /\ r.pc \in {"number", "insert"} => r.op = "generate"
  /\ r.pc = "loaded" => r.op \in {"status", "adjust"}
  /\ r.pc = "credit" => r.op = "status"

\* What a request has read when it is at a stage that uses it.
HasRead(r) ==
  /\ r.pc = "read" => r.seen = {}
  /\ r.op = "generate" /\ r.pc = "read" =>
       r.have \in {Nothing} \cup [Parts -> Int] /\ r.pending \in {Nothing} \cup [Parts -> Nat]
  /\ r.pc \in {"number", "insert"} => r.lines \in [Keys -> Nat]
  /\ r.op = "adjust" => r.parts \subseteq DOMAIN r.have
  /\ r.pc # "credit" => r.wStock = Nothing

\* The requisition whose status changes, what is credited with it, and the
\* number of a new one: no more than one beyond those there are.
Credits(r) ==
  /\ r.op = "status" => r.pr \in DOMAIN pr
  /\ r.pc = "credit" => r.parts \cup DOMAIN r.wStock = ToCredit(r.pr, r.to)
  /\ r.pc = "insert" => r.id \in 1..(Len(pr) + 1)

RequestOK(r) == r \in RequestRow /\ Staged(r) /\ HasRead(r) /\ Credits(r)

RowsType ==
  /\ order \in [Orders -> {"Absent", "Open", "Closed"}]
  /\ snap \in [Orders -> SUBSET (1..MaxCopies)]
  /\ stock \in [Parts -> Int] /\ credited \in [Parts -> Int]
  /\ short \subseteq ShortRow
  /\ pr \in Seq(PrRow) /\ \A i \in DOMAIN pr : pr[i].number = i

TypeInv ==
  /\ RowsType
  /\ InFlight \subseteq Clients /\ InFlight # {}
  /\ req = [c \in InFlight |-> req[c]]
  /\ \A c \in InFlight : RequestOK(req[c])

LEMMA PartialFacts ==
  ASSUME NEW S, NEW T, NEW w \in Partial(S, T)
  PROVE  /\ DOMAIN w \subseteq S /\ \A x \in DOMAIN w : w[x] \in T
         /\ w \in [DOMAIN w -> T]
BY DEF Partial

LEMMA FullIsPartial ==
  ASSUME NEW S, NEW T
  PROVE  /\ \A w \in [S -> T] : w \in Partial(S, T)
         /\ \A D \in SUBSET S : \A w \in [D -> T] : w \in Partial(S, T)
BY DEF Partial

LEMMA NothingIsPartial ==
  /\ DOMAIN Nothing = {}
  /\ \A S, T : Nothing \in Partial(S, T)
<1>1. DOMAIN Nothing = {} /\ \A T : Nothing \in [{} -> T]
  BY DEF Nothing
<1>2. \A S : {} \in SUBSET S
  OBVIOUS
<1> QED BY <1>1, <1>2, FullIsPartial

LEMMA PutIsPartial ==
  ASSUME NEW S, NEW T, NEW w \in Partial(S, T), NEW x \in S, NEW v \in T
  PROVE  /\ Put(w, x, v) \in Partial(S, T)
         /\ DOMAIN Put(w, x, v) = DOMAIN w \cup {x}
         /\ Put(w, x, v)[x] = v
         /\ \A y \in DOMAIN w : y # x => Put(w, x, v)[y] = w[y]
<1>1. DOMAIN w \subseteq S /\ \A y \in DOMAIN w : w[y] \in T
  BY PartialFacts
<1>2. Put(w, x, v) \in [DOMAIN w \cup {x} -> T]
  BY <1>1 DEF Put
<1>3. DOMAIN w \cup {x} \in SUBSET S
  BY <1>1
<1> QED BY <1>2, <1>3, FullIsPartial DEF Put

LEMMA PutInt ==
  ASSUME NEW w \in Partial(Parts, Int), NEW x \in Parts, NEW v \in Int
  PROVE  /\ Put(w, x, v) \in Partial(Parts, Int)
         /\ DOMAIN Put(w, x, v) = DOMAIN w \cup {x}
         /\ Put(w, x, v)[x] = v
         /\ \A y \in DOMAIN w : y # x => Put(w, x, v)[y] = w[y]
<1>1. DOMAIN w \subseteq Parts /\ \A y \in DOMAIN w : w[y] \in Int
  BY PartialFacts
<1>2. Put(w, x, v) \in [DOMAIN w \cup {x} -> Int]
  BY <1>1 DEF Put
<1>3. DOMAIN w \cup {x} \in SUBSET Parts
  BY <1>1
<1>4. Put(w, x, v) \in Partial(Parts, Int)
  BY <1>2, <1>3, FullIsPartial
<1> QED BY <1>4 DEF Put

LEMMA IdleOK == RequestOK(Idle)
<1>1. \A S, T : Nothing \in Partial(S, T)
  BY NothingIsPartial
<1>2. Idle \in RequestRow
  <2> HIDE DEF Nothing, Partial
  <2> QED BY <1>1 DEF Idle, RequestRow, PrStatus
<1> QED BY <1>2 DEF RequestOK, Idle, Staged, HasRead, Credits

LEMMA InitType == Init => TypeInv
<1> SUFFICES ASSUME Init PROVE TypeInv
  OBVIOUS
<1>1. RowsType
  BY DEF Init, RowsType
<1>2. PICK cs \in (SUBSET Clients) \ {{}} : req \in [cs -> {Idle}]
  BY DEF Init
<1>3. InFlight = cs /\ \A c \in cs : req[c] = Idle
  BY <1>2 DEF InFlight
<1>4. cs # {} /\ cs \subseteq Clients
  BY Zenon
<1> QED BY <1>1, <1>2, <1>3, <1>4, IdleOK DEF TypeInv

\* The requisitions there are stay, and ask for what they asked for.
PrStays == /\ pr \in Seq(PrRow) /\ pr' \in Seq(PrRow) /\ Len(pr) <= Len(pr')
           /\ \A i \in DOMAIN pr : pr'[i].lines = pr[i].lines

LEMMA OKStays ==
  ASSUME PrStays, NEW r, RequestOK(r)
  PROVE  RequestOK(r)'
<1>0. DOMAIN pr \subseteq DOMAIN pr' /\ Len(pr) \in Nat /\ Len(pr') \in Nat
  BY DEF PrStays
<1>1. r.op = "status" => r.pr \in DOMAIN pr'
  BY <1>0 DEF RequestOK, Credits
<1>2. r.op = "status" => ToCredit(r.pr, r.to)' = ToCredit(r.pr, r.to)
  BY DEF RequestOK, Credits, PrStays, ToCredit
<1>3. r.pc = "insert" => r.id \in 1..(Len(pr') + 1)
  BY <1>0 DEF RequestOK, Credits, PrStays
<1> QED BY <1>1, <1>2, <1>3 DEF RequestOK, Credits, Staged, HasRead, RequestRow

LEMMA StepType ==
  ASSUME TypeInv, NEW c \in InFlight, NEW r, RequestOK(r)', req' = [req EXCEPT ![c] = r],
         RowsType', PrStays
  PROVE  TypeInv'
<1>1. InFlight' = InFlight
  BY DEF TypeInv, InFlight
<1>2. \A d \in InFlight : req'[d] = IF d = c THEN r ELSE req[d]
  BY DEF TypeInv
<1>3. \A d \in InFlight : RequestOK(req[d])'
  BY OKStays DEF TypeInv
<1>4. req' = [d \in InFlight' |-> req'[d]]
  BY <1>1, <1>2 DEF TypeInv
<1> QED BY <1>1, <1>2, <1>3, <1>4 DEF TypeInv

-----------------------------------------------------------------------------
(* Steps keep the types *)

LEMMA TablesKept ==
  ASSUME TypeInv, UNCHANGED tables
  PROVE  RowsType' /\ PrStays
BY DEF TypeInv, RowsType, tables, PrStays

LEMMA StepKeeps ==
  ASSUME TypeInv, NEW c \in InFlight, NEW r, RequestOK(r), Step(c, r)
  PROVE  TypeInv'
<1>1. RowsType' /\ PrStays
  BY TablesKept DEF Step
<1>2. RequestOK(r)'
  BY <1>1, OKStays
<1> QED BY <1>1, <1>2, StepType DEF Step

\* The same for a request that goes on while tables change.
LEMMA StepOK ==
  ASSUME TypeInv, NEW c \in InFlight, NEW r, RequestOK(r), req' = [req EXCEPT ![c] = r],
         RowsType', PrStays
  PROVE  TypeInv'
<1>1. RequestOK(r)'
  BY OKStays
<1> QED BY <1>1, StepType

LEMMA DoneKeeps ==
  ASSUME TypeInv, NEW c \in InFlight, Done(c), RowsType', PrStays
  PROVE  TypeInv'
<1>1. RequestOK(Idle)'
  BY IdleOK, OKStays
<1> QED BY <1>1, StepType DEF Done

LEMMA StartKeeps ==
  ASSUME TypeInv, NEW c \in InFlight, NEW r, RequestOK(r), Start(c, r)
  PROVE  TypeInv'
BY StepKeeps DEF Start, Step

LEMMA OrdersType ==
  ASSUME TypeInv, NEW c \in InFlight, NEW o \in Orders, createOrder(c, o) \/ closeOrder(c, o)
  PROVE  TypeInv'
<1>1. order' \in [Orders -> {"Absent", "Open", "Closed"}]
  BY DEF TypeInv, RowsType, createOrder, closeOrder
<1>2. UNCHANGED <<snap, stock, ctb, short, pr, credited, req>>
  BY DEF createOrder, closeOrder
<1>3. RowsType' /\ PrStays
  BY <1>1, <1>2 DEF TypeInv, RowsType, PrStays
<1>4. req' = [req EXCEPT ![c] = req[c]] /\ RequestOK(req[c])
  BY <1>2 DEF TypeInv
<1>5. RequestOK(req[c])'
  BY <1>2, <1>3, <1>4, OKStays
<1> QED BY <1>2, <1>3, <1>4, <1>5, StepType

\* The records that requests start from.
LEMMA StartsOK ==
  ASSUME TypeInv
  PROVE  /\ \A o \in Orders : RequestOK([Idle EXCEPT !.op = "recompute", !.pc = "delete",
                                          !.os = {o}, !.seen = snap[o]])
         /\ \A os \in SUBSET Orders : RequestOK([Idle EXCEPT !.op = "check", !.pc = "read",
                                          !.os = os, !.todo = os])
         /\ RequestOK([Idle EXCEPT !.op = "generate", !.pc = "read", !.os = Open, !.todo = Open])
         /\ \A i \in DOMAIN pr, to \in PrStatus :
              RequestOK([Idle EXCEPT !.op = "status", !.pc = "loaded", !.pr = i, !.to = to])
         /\ \A p \in Parts, d \in Deltas :
              RequestOK([Idle EXCEPT !.op = "adjust", !.pc = "loaded", !.parts = {p},
                           !.have = Put(Nothing, p, stock[p]), !.delta = d])
<1>0. Idle \in RequestRow /\ \A S, T : Nothing \in Partial(S, T)
  BY IdleOK, NothingIsPartial DEF RequestOK
<1>1. ASSUME NEW o \in Orders
      PROVE  RequestOK([Idle EXCEPT !.op = "recompute", !.pc = "delete",
                                          !.os = {o}, !.seen = snap[o]])
  <2>1. snap[o] \in SUBSET (1..MaxCopies)
    BY DEF TypeInv, RowsType
  <2> HIDE DEF Nothing, Partial
  <2> QED BY <1>0, <2>1 DEF RequestOK, RequestRow, Idle, Staged, HasRead, Credits, PrStatus
<1>2. ASSUME NEW os \in SUBSET Orders
      PROVE  RequestOK([Idle EXCEPT !.op = "check", !.pc = "read", !.os = os, !.todo = os])
  BY <1>0 DEF RequestOK, RequestRow, Idle, Staged, HasRead, Credits, PrStatus
<1>3. RequestOK([Idle EXCEPT !.op = "generate", !.pc = "read", !.os = Open, !.todo = Open])
  <2>1. Open \in SUBSET Orders
    BY DEF Open
  <2> QED BY <1>0, <2>1 DEF RequestOK, RequestRow, Idle, Staged, HasRead, Credits, PrStatus
<1>4. ASSUME NEW i \in DOMAIN pr, NEW to \in PrStatus
      PROVE  RequestOK([Idle EXCEPT !.op = "status", !.pc = "loaded", !.pr = i, !.to = to])
  <2>1. i \in Nat
    BY DEF TypeInv, RowsType
  <2> QED BY <1>0, <2>1 DEF RequestOK, RequestRow, Idle, Staged, HasRead, Credits, PrStatus
<1>5. ASSUME NEW p \in Parts, NEW d \in Deltas
      PROVE  RequestOK([Idle EXCEPT !.op = "adjust", !.pc = "loaded", !.parts = {p},
                           !.have = Put(Nothing, p, stock[p]), !.delta = d])
  <2> DEFINE w == Put(Nothing, p, stock[p])
  <2>0. stock[p] \in Int /\ Nothing \in Partial(Parts, Int)
    BY <1>0 DEF TypeInv, RowsType
  <2>a. w \in Partial(Parts, Int)
    BY <2>0, PutInt, Zenon
  <2>b. DOMAIN w = DOMAIN Nothing \cup {p}
    BY <2>0, PutInt, Zenon
  <2>1. w \in Partial(Parts, Int) /\ p \in DOMAIN w
    BY <2>a, <2>b
  <2>2. d \in Int
    BY RequisitionAssumption
  <2> HIDE DEF w
  <2>3. RequestOK([Idle EXCEPT !.op = "adjust", !.pc = "loaded", !.parts = {p},
                           !.have = w, !.delta = d])
    BY <1>0, <2>1, <2>2 DEF RequestOK, RequestRow, Idle, Staged, HasRead, Credits, PrStatus
  <2> QED BY <2>3 DEF w
<1> QED BY <1>1, <1>2, <1>3, <1>4, <1>5

LEMMA StartType ==
  ASSUME TypeInv, NEW c \in InFlight,
         \/ \E o \in Orders : recomputeLoad(c, o)
         \/ \E os \in (SUBSET Orders) \ {{}} : checkLoad(c, os)
         \/ generateLoad(c)
         \/ \E i \in DOMAIN pr, to \in PrStatus : updatePrStatusLoad(c, i, to)
         \/ \E p \in Parts, d \in Deltas : adjustLoad(c, p, d)
  PROVE  TypeInv'
<1>1. ASSUME NEW o \in Orders, recomputeLoad(c, o) PROVE TypeInv'
  BY <1>1, StartsOK, StartKeeps DEF recomputeLoad
<1>2. ASSUME NEW os \in (SUBSET Orders) \ {{}}, checkLoad(c, os) PROVE TypeInv'
  BY <1>2, StartsOK, StartKeeps DEF checkLoad
<1>3. CASE generateLoad(c)
  BY <1>3, StartsOK, StartKeeps DEF generateLoad
<1>4. ASSUME NEW i \in DOMAIN pr, NEW to \in PrStatus, updatePrStatusLoad(c, i, to) PROVE TypeInv'
  BY <1>4, StartsOK, StartKeeps DEF updatePrStatusLoad
<1>5. ASSUME NEW p \in Parts, NEW d \in Deltas, adjustLoad(c, p, d) PROVE TypeInv'
  BY <1>5, StartsOK, StartKeeps DEF adjustLoad
<1> QED BY <1>1, <1>2, <1>3, <1>4, <1>5

LEMMA DeleteType ==
  ASSUME TypeInv, NEW c \in InFlight, NEW o \in Orders, deleteOrderBomSnapshot(c, o)
  PROVE  TypeInv'
<1>1. snap' \in [Orders -> SUBSET (1..MaxCopies)]
  BY DEF TypeInv, RowsType, deleteOrderBomSnapshot
<1>2. UNCHANGED <<order, stock, ctb, short, pr, credited, req>>
  BY DEF deleteOrderBomSnapshot
<1>3. RowsType' /\ PrStays
  BY <1>1, <1>2 DEF TypeInv, RowsType, PrStays
<1>4. req' = [req EXCEPT ![c] = req[c]] /\ RequestOK(req[c])
  BY <1>2 DEF TypeInv
<1>5. RequestOK(req[c])'
  BY <1>2, <1>3, <1>4, OKStays
<1> QED BY <1>2, <1>3, <1>4, <1>5, StepType

LEMMA SnapFinite ==
  ASSUME TypeInv, NEW o \in Orders
  PROVE  IsFiniteSet(snap[o]) /\ Cardinality(snap[o]) \in Nat
<1>1. IsFiniteSet(1..MaxCopies)
  BY FS_Interval, RequisitionAssumption
<1>2. snap[o] \in SUBSET (1..MaxCopies)
  BY DEF TypeInv, RowsType
<1> QED BY <1>1, <1>2, FS_Subset, FS_CardinalityType

LEMMA AskedType ==
  ASSUME TypeInv, NEW is \in SUBSET DOMAIN pr, NEW p \in Parts
  PROVE  /\ Counts([i \in is |-> pr[i].lines[p]], is)
         /\ Asked(pr, is, p) \in Nat
<1>1. DOMAIN pr = 1..Len(pr) /\ Len(pr) \in Nat /\ \A i \in DOMAIN pr : pr[i] \in PrRow
  BY DEF TypeInv, RowsType
<1>2. IsFiniteSet(is)
  <2>1. IsFiniteSet(1..Len(pr))
    BY <1>1, FS_Interval
  <2> QED BY <1>1, <2>1, FS_Subset
<1>3. \A i \in is : pr[i].lines[p] \in Nat
  BY <1>1 DEF PrRow, Keys
<1>4. Counts([i \in is |-> pr[i].lines[p]], is)
  BY <1>2, <1>3 DEF Counts
<1> QED BY <1>4, UnitsFinite DEF Asked

\* What is pending is a natural number for each part.
LEMMA PendingType ==
  ASSUME TypeInv
  PROVE  sumAlreadyRequisitionedByPart(pr) \in [Parts -> Nat]
<1>1. InPipeline(pr) \in SUBSET DOMAIN pr
  BY DEF InPipeline
<1> QED BY <1>1, AskedType DEF sumAlreadyRequisitionedByPart

LEMMA NeedType ==
  ASSUME NEW copies \in Partial(Orders, Nat), NEW k \in Keys
  PROVE  /\ Counts([o \in DOMAIN copies |-> copies[o] * Need[o][k]], DOMAIN copies)
         /\ sumActiveOrderRequirements(copies)[k] \in Nat
<1>1. DOMAIN copies \in SUBSET Orders /\ \A o \in DOMAIN copies : copies[o] \in Nat
  BY PartialFacts
<1>2. IsFiniteSet(DOMAIN copies)
  BY <1>1, FS_Subset, RequisitionAssumption
<1>3. ASSUME NEW o \in DOMAIN copies PROVE copies[o] * Need[o][k] \in Nat
  <2>1. Need[o][k] \in Nat /\ copies[o] \in Nat
    BY <1>1, RequisitionAssumption
  <2> QED BY <2>1
<1>4. Counts([o \in DOMAIN copies |-> copies[o] * Need[o][k]], DOMAIN copies)
  BY <1>2, <1>3 DEF Counts
<1> QED BY <1>4, UnitsFinite DEF sumActiveOrderRequirements

LEMMA NetType ==
  ASSUME NEW copies \in Partial(Orders, Nat), NEW have \in [Parts -> Int],
         NEW pending \in [Parts -> Nat]
  PROVE  calculateNetPurchaseRequirement(sumActiveOrderRequirements(copies), have, pending)
           \in [Keys -> Nat]
<1> DEFINE demand == sumActiveOrderRequirements(copies)
<1>1. \A k \in Keys : demand[k] \in Nat
  BY NeedType
<1> HIDE DEF demand
<1>2. ASSUME NEW k \in Keys, k # Unlinked
      PROVE  Max({0, demand[k] - have[k] - pending[k]}) \in Nat
  <2>1. k \in Parts
    BY <1>2 DEF Keys
  <2>2. demand[k] \in Int /\ have[k] \in Int /\ pending[k] \in Int
    BY <1>1, <2>1
  <2>3. demand[k] - have[k] - pending[k] \in Int
    BY <2>2
  <2> QED BY <2>3, MaxOfZero
<1>3. calculateNetPurchaseRequirement(demand, have, pending) \in [Keys -> Nat]
  BY <1>1, <1>2 DEF calculateNetPurchaseRequirement
<1> QED BY <1>3 DEF demand

-----------------------------------------------------------------------------

LEMMA ReadType ==
  ASSUME TypeInv, NEW c \in InFlight, NEW o \in Orders,
         snapshotFound(c, o) \/ snapshotMissing(c, o)
  PROVE  TypeInv'
<1> DEFINE r == req[c]
<1>1. RequestOK(r)
  BY DEF TypeInv
<1>2. CASE snapshotFound(c, o)
  <2> DEFINE w == Put(r.copies, o, Cardinality(snap[o]))
  <2>1. r.copies \in Partial(Orders, Nat)
    BY <1>1 DEF RequestOK, RequestRow
  <2>2. w \in Partial(Orders, Nat)
    BY <2>1, SnapFinite, PutIsPartial
  <2>3. Step(c, [r EXCEPT !.todo = r.todo \ {o}, !.copies = w]) /\ r.pc = "read"
    BY <1>2 DEF snapshotFound
  <2> HIDE DEF w, r
  <2>4. RequestOK([r EXCEPT !.todo = r.todo \ {o}, !.copies = w])
    BY <1>1, <2>2, <2>3 DEF RequestOK, RequestRow, Staged, HasRead, Credits
  <2> QED BY <2>3, <2>4, StepKeeps
<1>3. CASE snapshotMissing(c, o)
  <2>3. Step(c, [r EXCEPT !.todo = r.todo \ {o}, !.missing = r.missing \cup {o}])
    BY <1>3 DEF snapshotMissing
  <2> HIDE DEF r
  <2>4. RequestOK([r EXCEPT !.todo = r.todo \ {o}, !.missing = r.missing \cup {o}])
    BY <1>1, <2>3 DEF RequestOK, RequestRow, Staged, HasRead, Credits
  <2> QED BY <2>3, <2>4, StepKeeps
<1> QED BY <1>2, <1>3

\* A new copy has a name of its own.
LEMMA CopyIsNew ==
  ASSUME NEW o \in Orders, Room(o)
  PROVE  /\ NewCopy(o) \in 1..MaxCopies /\ NewCopy(o) \notin snap[o]
         /\ \A c \in InFlight : NewCopy(o) \notin req[c].seen
<1>1. FreshCopies(o) \in SUBSET Nat /\ FreshCopies(o) # {}
  <2>1. FreshCopies(o) \subseteq 1..MaxCopies
    BY DEF FreshCopies
  <2>2. 1..MaxCopies \subseteq Nat
    BY RequisitionAssumption
  <2> QED BY <2>1, <2>2 DEF Room
<1>2. NewCopy(o) \in FreshCopies(o)
  BY <1>1, MinIsLeast DEF NewCopy
<1> QED BY <1>2 DEF FreshCopies

LEMMA PersistType ==
  ASSUME TypeInv, NEW c \in InFlight, NEW o \in Orders, persistSnapshot(c, o)
  PROVE  TypeInv'
<1> DEFINE r == req[c]
           w == Put(r.copies, o, Cardinality(snap[o]) + 1)
           n == [r EXCEPT !.missing = r.missing \ {o}, !.copies = w]
<1>1. RequestOK(r)
  BY DEF TypeInv
<1>2. r.copies \in Partial(Orders, Nat) /\ Cardinality(snap[o]) + 1 \in Nat
  BY <1>1, SnapFinite DEF RequestOK, RequestRow
<1>3. w \in Partial(Orders, Nat)
  BY <1>2, PutIsPartial
<1>4. r.pc = "read" /\ Room(o) /\ snap' = [snap EXCEPT ![o] = snap[o] \cup {NewCopy(o)}]
      /\ UNCHANGED <<order, stock, ctb, short, pr, credited>>
  BY DEF persistSnapshot
<1>5. req' = [req EXCEPT ![c] = n]
  BY DEF persistSnapshot
<1>6. snap' \in [Orders -> SUBSET (1..MaxCopies)]
  BY <1>4, CopyIsNew DEF TypeInv, RowsType
<1>7. RowsType' /\ PrStays
  BY <1>4, <1>6 DEF TypeInv, RowsType, PrStays
<1> HIDE DEF r, w
<1>8. RequestOK(n)
  BY <1>1, <1>3, <1>4 DEF RequestOK, RequestRow, Staged, HasRead, Credits
<1> HIDE DEF n
<1> QED BY <1>5, <1>7, <1>8, StepOK

LEMMA ReplaceType ==
  ASSUME TypeInv, NEW c \in InFlight, recomputeOrderBomSnapshot(c)
  PROVE  TypeInv'
<1>1. PICK o \in req[c].os : /\ Room(o) /\ snap' = [snap EXCEPT ![o] = Replaced(o, req[c].seen)]
                             /\ Done(c) /\ UNCHANGED <<order, stock, ctb, short, pr, credited>>
  BY DEF recomputeOrderBomSnapshot
<1>2. o \in Orders
  BY DEF TypeInv, RequestOK, RequestRow
<1>3. snap' \in [Orders -> SUBSET (1..MaxCopies)]
  BY <1>1, <1>2, CopyIsNew DEF TypeInv, RowsType, Replaced
<1>4. RowsType' /\ PrStays
  BY <1>1, <1>3 DEF TypeInv, RowsType, PrStays
<1> QED BY <1>1, <1>4, DoneKeeps

\* What an evaluation leaves are shortage rows of its own.
LEMMA ShortageRowsAre ==
  ASSUME NEW os, NEW have, NEW c
  PROVE  \A x : x \in ShortageRows(os, have, c) <=>
           \E o \in os : \E k \in ShortOf(o, have) : x = [order |-> o, part |-> k, by |-> c]
BY DEF ShortageRows

LEMMA CheckType ==
  ASSUME TypeInv, NEW c \in InFlight, checkReadStock(c) \/ liveEvaluate(c) \/ commitVerdicts(c)
  PROVE  TypeInv'
<1>1. CASE checkReadStock(c)
  <2> DEFINE r == req[c]
             n == [r EXCEPT !.pc = "judge", !.have = stock, !.copies = Nothing]
  <2>1. RequestOK(r) /\ r.op = "check" /\ Step(c, n)
    BY <1>1 DEF TypeInv, checkReadStock
  <2>2. stock \in [Parts -> Int] /\ stock \in Partial(Parts, Int) /\ Nothing \in Partial(Orders, Nat)
    BY FullIsPartial, NothingIsPartial DEF TypeInv, RowsType
  <2> HIDE DEF r
  <2>3. RequestOK(n)
    BY <2>1, <2>2 DEF RequestOK, RequestRow, Staged, HasRead, Credits
  <2> QED BY <2>1, <2>3, StepKeeps
<1>2. CASE liveEvaluate(c)
  <2> DEFINE r == req[c]
             g == {x \in short : x.order \in r.os}
             n == [r EXCEPT !.pc = "written", !.gone = g]
  <2>1. RequestOK(r) /\ r.op = "check" /\ r.pc = "judge" /\ Step(c, n)
    BY <1>2 DEF TypeInv, liveEvaluate, At
  <2>2. g \in SUBSET ShortRow
    BY DEF TypeInv, RowsType
  <2> HIDE DEF r, g
  <2>3. RequestOK(n)
    BY <2>1, <2>2 DEF RequestOK, RequestRow, Staged, HasRead, Credits
  <2> QED BY <2>1, <2>3, StepKeeps
<1>3. CASE commitVerdicts(c)
  <2> DEFINE rows == ShortageRows(req[c].os, req[c].have, c)
  <2>1. /\ Done(c) /\ UNCHANGED <<order, snap, stock, pr, credited>>
        /\ short' = (short \ req[c].gone) \cup rows
    BY <1>3 DEF commitVerdicts
  <2>2. req[c].os \subseteq Orders /\ c \in Clients
    BY DEF TypeInv, RequestOK, RequestRow
  <2>3. ASSUME NEW x \in rows PROVE x \in ShortRow
    <3>1. PICK o \in req[c].os : \E k \in ShortOf(o, req[c].have) :
            x = [order |-> o, part |-> k, by |-> c]
      BY <2>3, ShortageRowsAre
    <3> QED BY <2>2, <3>1 DEF ShortOf, ShortRow
  <2> HIDE DEF rows
  <2>4. short' \subseteq ShortRow
    BY <2>1, <2>3 DEF TypeInv, RowsType
  <2>5. RowsType' /\ PrStays
    BY <2>1, <2>4 DEF TypeInv, RowsType, PrStays
  <2> QED BY <2>1, <2>5, DoneKeeps
<1> QED BY <1>1, <1>2, <1>3

\* Requisitions are numbered without a gap, so the next number is one more
\* than there are.
LEMMA NextNumberIs ==
  ASSUME TypeInv
  PROVE  NextNumber = Len(pr) + 1 /\ Len(pr) \in Nat
<1> DEFINE S == {0} \cup {pr[i].number : i \in DOMAIN pr}
<1>1. DOMAIN pr = 1..Len(pr) /\ Len(pr) \in Nat /\ \A i \in DOMAIN pr : pr[i].number = i
  BY DEF TypeInv, RowsType
<1>2. S = 0..Len(pr)
  <2>1. \A i \in 1..Len(pr) : i = pr[i].number /\ i \in DOMAIN pr
    BY <1>1
  <2>2. \A n \in 0..Len(pr) : n = 0 \/ n \in 1..Len(pr)
    BY <1>1
  <2>3. \A n \in 0..Len(pr) : n \in S
    BY <2>1, <2>2
  <2>4. \A n \in S : n \in 0..Len(pr)
    BY <1>1
  <2> HIDE DEF S
  <2> QED BY <2>3, <2>4
<1>3. Max(S) = Len(pr)
  <2> HIDE DEF S
  <2>1. S \in SUBSET Int /\ Len(pr) \in S /\ \A k \in S : k <= Len(pr)
    BY <1>1, <1>2
  <2> QED BY <2>1, MaxIs
<1>4. NextNumber = 1 + Max(S)
  BY DEF NextNumber
<1> HIDE DEF S
<1> QED BY <1>1, <1>3, <1>4

LEMMA FetchType ==
  ASSUME TypeInv, NEW c \in InFlight, fetchCurrentStockByPart(c) \/ fetchPending(c)
  PROVE  TypeInv'
<1> DEFINE r == req[c]
<1>1. RequestOK(r) /\ r.op = "generate" /\ r.pc = "read"
  BY DEF TypeInv, fetchCurrentStockByPart, fetchPending, At
<1>2. CASE fetchCurrentStockByPart(c)
  <2>1. Step(c, [r EXCEPT !.have = stock])
    BY <1>2 DEF fetchCurrentStockByPart
  <2>2. stock \in [Parts -> Int] /\ stock \in Partial(Parts, Int)
    BY FullIsPartial DEF TypeInv, RowsType
  <2> HIDE DEF r
  <2>3. RequestOK([r EXCEPT !.have = stock])
    BY <1>1, <2>2 DEF RequestOK, RequestRow, Staged, HasRead, Credits
  <2> QED BY <2>1, <2>3, StepKeeps
<1>3. CASE fetchPending(c)
  <2> DEFINE s == sumAlreadyRequisitionedByPart(pr)
  <2>1. Step(c, [r EXCEPT !.pending = s])
    BY <1>3 DEF fetchPending
  <2>2. s \in [Parts -> Nat] /\ s \in Partial(Parts, Nat)
    BY FullIsPartial, PendingType
  <2> HIDE DEF r, s
  <2>3. RequestOK([r EXCEPT !.pending = s])
    BY <1>1, <2>2 DEF RequestOK, RequestRow, Staged, HasRead, Credits
  <2> QED BY <2>1, <2>3, StepKeeps
<1> QED BY <1>2, <1>3

\* The lines a request numbers are those it has computed.
LEMMA NetLinesType ==
  ASSUME TypeInv, NEW c \in InFlight, netLines(c)
  PROVE  NetLines(c) \in [Keys -> Nat]
<1> DEFINE r == req[c]
<1>1. /\ r \in RequestRow
      /\ r.have \in [Parts -> Int] /\ r.pending \in [Parts -> Nat]
  BY DEF TypeInv, netLines, AllRead, RequestOK, HasRead
<1>2. r.copies \in Partial(Orders, Nat)
  BY <1>1 DEF RequestRow
<1> QED BY <1>1, <1>2, NetType DEF NetLines

LEMMA NetStepType ==
  ASSUME TypeInv, NEW c \in InFlight, netLines(c)
  PROVE  TypeInv'
<1> DEFINE l == NetLines(c)
           n == [Idle EXCEPT !.op = "generate", !.pc = "number", !.lines = l, !.from = Len(pr)]
<1>1. l \in [Keys -> Nat] /\ l \in Partial(Keys, Nat)
  BY NetLinesType, FullIsPartial
<1>2. Len(pr) \in Nat
  BY DEF TypeInv, RowsType
<1>3. Step(c, Idle) \/ Step(c, n)
  BY DEF netLines
<1>4. Idle \in RequestRow
  BY IdleOK DEF RequestOK
<1> HIDE DEF l
<1>5. RequestOK(n)
  BY <1>1, <1>2, <1>4 DEF RequestOK, RequestRow, Staged, HasRead, Credits, Idle
<1> QED BY <1>3, <1>5, StepKeeps, IdleOK

LEMMA NumberType ==
  ASSUME TypeInv, NEW c \in InFlight,
         nextPrNumber(c) \/ retryInsert(c) \/ allocationExhausted(c)
  PROVE  TypeInv'
<1> DEFINE r == req[c]
<1>1. RequestOK(r)
  BY DEF TypeInv
<1>2. CASE nextPrNumber(c)
  <2> DEFINE n == [r EXCEPT !.pc = "insert", !.id = NextNumber]
  <2>1. r.op = "generate" /\ r.pc = "number" /\ Step(c, n)
    BY <1>2 DEF nextPrNumber, At
  <2>2. NextNumber \in Nat /\ NextNumber \in 1..(Len(pr) + 1)
    <3>1. NextNumber = Len(pr) + 1 /\ Len(pr) \in Nat
      BY NextNumberIs
    <3> QED BY <3>1
  <2> HIDE DEF r
  <2>3. RequestOK(n)
    BY <1>1, <2>1, <2>2 DEF RequestOK, RequestRow, Staged, HasRead, Credits
  <2> QED BY <2>1, <2>3, StepKeeps
<1>3. CASE retryInsert(c)
  <2> DEFINE n == [r EXCEPT !.pc = "number", !.tries = r.tries + 1]
  <2>1. r.op = "generate" /\ r.pc = "insert" /\ Step(c, n)
    BY <1>3 DEF retryInsert, At
  <2>2. r.tries + 1 \in Nat
    BY <1>1 DEF RequestOK, RequestRow
  <2> DEFINE t == r.tries + 1
  <2> HIDE DEF r, t
  <2>3. RequestOK([r EXCEPT !.pc = "number", !.tries = t])
    BY <1>1, <2>1, <2>2 DEF RequestOK, RequestRow, Staged, HasRead, Credits, t
  <2>4. RequestOK(n)
    BY <2>3 DEF t
  <2> QED BY <2>1, <2>4, StepKeeps
<1>4. CASE allocationExhausted(c)
  BY <1>4, StepKeeps, IdleOK DEF allocationExhausted
<1> QED BY <1>2, <1>3, <1>4

\* A number that is not taken is the next one.
LEMMA InsertIsNext ==
  ASSUME TypeInv, NEW c \in InFlight, insertPr(c)
  PROVE  /\ req[c].id = Len(pr) + 1 /\ req[c].lines \in [Keys -> Nat]
         /\ pr' \in Seq(PrRow) /\ Len(pr') = Len(pr) + 1
         /\ \A i \in DOMAIN pr : pr'[i] = pr[i]
         /\ pr'[Len(pr) + 1] = [number |-> Len(pr) + 1, status |-> "Draft", lines |-> req[c].lines]
<1> DEFINE r == req[c]
           n == Len(pr)
           new == [number |-> r.id, status |-> "Draft", lines |-> r.lines]
<1>1. /\ r.id \in 1..(n + 1) /\ r.lines \in [Keys -> Nat]
  BY DEF TypeInv, RequestOK, Credits, HasRead, insertPr, At
<1>2. DOMAIN pr = 1..n /\ n \in Nat /\ pr \in Seq(PrRow) /\ \A i \in DOMAIN pr : pr[i].number = i
  BY DEF TypeInv, RowsType
<1>3. \A i \in DOMAIN pr : i # r.id
  BY <1>2 DEF insertPr, MayInsert, Taken
<1>4. r.id = n + 1
  BY <1>1, <1>2, <1>3
<1>5. pr' = Append(pr, new) /\ new \in PrRow
  <2>1. r.id \in Nat
    BY <1>2, <1>4
  <2> QED BY <1>1, <2>1 DEF insertPr, PrRow, PrStatus
<1> HIDE DEF r, new
<1>6. pr' \in Seq(PrRow) /\ Len(pr') = n + 1 /\ pr'[n + 1] = new /\ \A i \in 1..n : pr'[i] = pr[i]
  BY <1>2, <1>5
<1> QED BY <1>1, <1>2, <1>4, <1>6 DEF r, new

LEMMA InsertType ==
  ASSUME TypeInv, NEW c \in InFlight, insertPr(c)
  PROVE  TypeInv'
<1>1. DOMAIN pr = 1..Len(pr) /\ Len(pr) \in Nat /\ pr \in Seq(PrRow) /\ \A i \in DOMAIN pr : pr[i].number = i
  BY DEF TypeInv, RowsType
<1>2. /\ pr' \in Seq(PrRow) /\ Len(pr') = Len(pr) + 1
      /\ \A i \in DOMAIN pr : pr'[i] = pr[i]
      /\ pr'[Len(pr) + 1].number = Len(pr) + 1
  <2>1. /\ pr' \in Seq(PrRow) /\ Len(pr') = Len(pr) + 1
        /\ \A i \in DOMAIN pr : pr'[i] = pr[i]
        /\ pr'[Len(pr) + 1] = [number |-> Len(pr) + 1, status |-> "Draft", lines |-> req[c].lines]
    BY InsertIsNext
  <2> QED BY <2>1
<1>3. \A i \in DOMAIN pr' : pr'[i].number = i
  <2>1. DOMAIN pr' = 1..(Len(pr) + 1)
    BY <1>2
  <2> QED BY <1>1, <1>2, <2>1
<1>4. UNCHANGED <<order, snap, stock, short, credited>> /\ Done(c)
  BY DEF insertPr
<1>5. RowsType' /\ PrStays
  BY <1>1, <1>2, <1>3, <1>4 DEF TypeInv, RowsType, PrStays
<1> QED BY <1>4, <1>5, DoneKeeps

LEMMA CreditType ==
  ASSUME TypeInv, NEW c \in InFlight, updatePrStatus(c)
  PROVE  TypeInv'
<1> DEFINE r == req[c]
           ps == ToCredit(r.pr, r.to)
           n == [r EXCEPT !.pc = "credit", !.parts = ps]
<1>1. RequestOK(r) /\ r.op = "status" /\ r.pc = "loaded" /\ DOMAIN r.wStock = {}
  BY NothingIsPartial DEF TypeInv, updatePrStatus, At, RequestOK, HasRead
<1>2. Step(c, n)
  BY DEF updatePrStatus
<1>3. ps \in SUBSET Parts
  BY DEF ToCredit
<1>4. ps = ToCredit(r.pr, r.to)
  OBVIOUS
<1> HIDE DEF r, ps
<1>5. RequestOK(n)
  BY <1>1, <1>3, <1>4 DEF RequestOK, RequestRow, Staged, HasRead, Credits
<1> QED BY <1>2, <1>5, StepKeeps

LEMMA CreditReadType ==
  ASSUME TypeInv, NEW c \in InFlight, NEW p \in Parts, creditRead(c, p)
  PROVE  TypeInv'
<1> DEFINE r == req[c]
           h == Put(Nothing, p, stock[p])
           n == [r EXCEPT !.have = h]
<1>1. RequestOK(r) /\ r.op = "status" /\ r.pc = "credit" /\ Step(c, n)
  BY DEF TypeInv, creditRead, At
<1>2. stock[p] \in Int /\ Nothing \in Partial(Parts, Int)
  BY NothingIsPartial DEF TypeInv, RowsType
<1>3. h \in Partial(Parts, Int)
  BY <1>2, PutInt, Zenon
<1> HIDE DEF r, h
<1>4. RequestOK(n)
  BY <1>1, <1>3 DEF RequestOK, RequestRow, Staged, HasRead, Credits
<1> QED BY <1>1, <1>4, StepKeeps

LEMMA LinesType ==
  ASSUME TypeInv
  PROVE  \A i \in DOMAIN pr : \A p \in Parts : pr[i].lines[p] \in Nat
<1>1. \A i \in DOMAIN pr : pr[i].lines \in [Keys -> Nat]
  <2>1. \A i \in DOMAIN pr : pr[i] \in PrRow
    BY DEF TypeInv, RowsType
  <2> QED BY <2>1 DEF PrRow
<1>2. \A p \in Parts : p \in Keys
  BY DEF Keys
<1> QED BY <1>1, <1>2

LEMMA CreditWriteType ==
  ASSUME TypeInv, NEW c \in InFlight, NEW p \in Parts, creditWrite(c, p)
  PROVE  TypeInv'
<1> DEFINE r == req[c]
           next == r.have[p] + pr[r.pr].lines[p]
           w == Put(r.wStock, p, next)
           n == [r EXCEPT !.parts = r.parts \ {p}, !.have = Nothing, !.wStock = w]
<1>1. /\ RequestOK(r) /\ r.op = "status" /\ r.pc = "credit" /\ Step(c, n)
      /\ p \in r.parts /\ p \in DOMAIN r.have
  BY DEF TypeInv, creditWrite, At
<1>2. /\ r.have \in Partial(Parts, Int) /\ r.wStock \in Partial(Parts, Int)
      /\ r.parts \in SUBSET Parts /\ r.pr \in DOMAIN pr
  BY <1>1 DEF RequestOK, RequestRow, Credits
<1>3. r.have[p] \in Int
  BY <1>1, <1>2, PartialFacts
<1>4. pr[r.pr].lines[p] \in Nat
  BY <1>2, LinesType
<1>5. next \in Int
  BY <1>3, <1>4
<1> HIDE DEF next
<1>6. w \in Partial(Parts, Int)
  BY <1>2, <1>5, PutInt, Zenon
<1>7. DOMAIN w = DOMAIN r.wStock \cup {p}
  BY <1>2, <1>5, PutInt, Zenon
<1>8. Nothing \in Partial(Parts, Int)
  BY NothingIsPartial
<1>9. (r.parts \ {p}) \cup DOMAIN w = ToCredit(r.pr, r.to)
  BY <1>1, <1>7 DEF RequestOK, Credits
<1> HIDE DEF r, w
<1>10. RequestOK(n)
  BY <1>1, <1>2, <1>6, <1>8, <1>9 DEF RequestOK, RequestRow, Staged, HasRead, Credits
<1> QED BY <1>1, <1>10, StepKeeps

\* The stock a request has written over what was there.
CreditedStock(w) == [p \in Parts |-> IF p \in DOMAIN w THEN w[p] ELSE stock[p]]

LEMMA CommitType ==
  ASSUME TypeInv, NEW c \in InFlight, commitStatus(c)
  PROVE  TypeInv'
<1> DEFINE r == req[c]
           w == r.wStock
           i == r.pr
<1>1. /\ RequestOK(r) /\ i \in DOMAIN pr /\ r.to \in PrStatus /\ w \in Partial(Parts, Int)
  BY DEF TypeInv, commitStatus, At, RequestOK, Credits, RequestRow
<1>2. /\ pr' = [pr EXCEPT ![i].status = r.to] /\ Done(c)
      /\ stock' = [p \in Parts |-> IF p \in DOMAIN w THEN w[p] ELSE stock[p]]
      /\ credited' = [p \in Parts |-> credited[p] + IF p \in DOMAIN w THEN pr[i].lines[p] ELSE 0]
      /\ UNCHANGED <<order, snap, short>>
  BY DEF commitStatus
<1>3. pr \in Seq(PrRow) /\ (\A j \in DOMAIN pr : pr[j].number = j) /\ \A j \in DOMAIN pr : pr[j] \in PrRow
  BY DEF TypeInv, RowsType
<1>4. /\ pr' \in Seq(PrRow) /\ Len(pr') = Len(pr) /\ DOMAIN pr' = DOMAIN pr
      /\ \A j \in DOMAIN pr : pr'[j].lines = pr[j].lines /\ pr'[j].number = pr[j].number
  <2> DEFINE new == [pr[i] EXCEPT !.status = r.to]
  <2>1. new \in PrRow /\ new.lines = pr[i].lines /\ new.number = pr[i].number
    BY <1>1, <1>3 DEF PrRow
  <2>2. pr' = [pr EXCEPT ![i] = new]
    BY <1>2
  <2> HIDE DEF new, r, i
  <2>3. pr' \in Seq(PrRow) /\ Len(pr') = Len(pr) /\ DOMAIN pr' = DOMAIN pr
    BY <1>1, <1>3, <2>1, <2>2
  <2> QED BY <1>1, <1>3, <2>1, <2>2, <2>3
<1>5. stock' \in [Parts -> Int]
  <2>1. \A p \in DOMAIN w : w[p] \in Int
    BY <1>1, PartialFacts
  <2>2. \A p \in Parts : stock[p] \in Int
    BY DEF TypeInv, RowsType
  <2> QED BY <1>2, <2>1, <2>2
<1>6. credited' \in [Parts -> Int]
  <2>1. ASSUME NEW p \in Parts PROVE credited[p] \in Int /\ pr[i].lines[p] \in Int
    <3>1. pr[i].lines[p] \in Nat
      BY <1>1, LinesType
    <3> QED BY <3>1 DEF TypeInv, RowsType
  <2> QED BY <1>2, <2>1
<1>7. RowsType' /\ PrStays
  <2>1. Len(pr) \in Nat
    BY <1>3
  <2> QED BY <1>2, <1>3, <1>4, <1>5, <1>6, <2>1 DEF TypeInv, RowsType, PrStays
<1> QED BY <1>2, <1>7, DoneKeeps

LEMMA AdjustType ==
  ASSUME TypeInv, NEW c \in InFlight, adjustStock(c)
  PROVE  TypeInv'
<1> DEFINE r == req[c]
<1>1. PICK p \in r.parts : /\ stock' = [stock EXCEPT ![p] = r.have[p] + r.delta]
                           /\ Done(c) /\ UNCHANGED <<order, snap, ctb, short, pr, credited>>
                           /\ r.op = "adjust"
  BY DEF adjustStock, At
<1>2. /\ r.parts \subseteq DOMAIN r.have /\ r.have \in Partial(Parts, Int) /\ r.delta \in Int
      /\ r.parts \subseteq Parts
  BY <1>1 DEF TypeInv, RequestOK, HasRead, RequestRow
<1>3. r.have[p] \in Int
  BY <1>1, <1>2, PartialFacts
<1>4. r.have[p] + r.delta \in Int
  BY <1>2, <1>3
<1>5. stock' \in [Parts -> Int]
  BY <1>1, <1>2, <1>4 DEF TypeInv, RowsType
<1>6. RowsType' /\ PrStays
  BY <1>1, <1>5 DEF TypeInv, RowsType, PrStays
<1> QED BY <1>1, <1>6, DoneKeeps

LEMMA NextType == TypeInv /\ [Next]_vars => TypeInv'
<1>1. ASSUME TypeInv, UNCHANGED vars PROVE TypeInv'
  <2>1. RowsType' /\ PrStays /\ req' = req
    BY <1>1, TablesKept DEF vars, tables
  <2>a. InFlight # {}
    BY <1>1 DEF TypeInv
  <2>2. PICK c \in InFlight : TRUE
    BY <2>a
  <2>3. RequestOK(req[c]) /\ req' = [req EXCEPT ![c] = req[c]]
    BY <1>1, <2>1 DEF TypeInv
  <2> QED BY <1>1, <2>1, <2>3, StepOK
<1>2. ASSUME TypeInv, NEW c \in InFlight, Request(c) PROVE TypeInv'
  BY <1>2, OrdersType, StartType, DeleteType DEF Request
<1>3. ASSUME TypeInv, NEW c \in InFlight, Advance(c) PROVE TypeInv'
  <2>1. CASE Rollback(c)
    BY <1>3, <2>1, StepKeeps, IdleOK DEF Rollback
  <2>2. CASE ~Rollback(c)
    BY <1>3, <2>2, ReadType, PersistType, ReplaceType, CheckType, FetchType, NetStepType,
       NumberType, InsertType, CreditType, CreditReadType, CreditWriteType, CommitType,
       AdjustType DEF Advance
  <2> QED BY <2>1, <2>2
<1> QED BY <1>1, <1>2, <1>3 DEF Next

LEMMA AlwaysTypeInv == Spec => []TypeInv
BY InitType, NextType, PTL DEF Spec

-----------------------------------------------------------------------------
(* Copies of an explosion *)

\* A request that will add a copy of the explosion of o.
Adding(r, o) ==
  \/ r.pc = "read" /\ o \in r.missing
  \/ r.pc = "delete" /\ o \in r.os

\* Each copy of an order's explosion belongs to a request of its own, and to
\* one that will add another only if it is going to delete this one.
Owns(f, o) ==
  /\ f \in Injection(snap[o], InFlight)
  /\ \A x \in snap[o] : Adding(req[f[x]], o) => x \in req[f[x]].seen

CopiesOwned == \A o \in Orders : \E f : Owns(f, o)

LEMMA Mine ==
  ASSUME TypeInv, NEW c \in InFlight, NEW r, req' = [req EXCEPT ![c] = r]
  PROVE  InFlight' = InFlight /\ req'[c] = r /\ \A d \in InFlight : d # c => req'[d] = req[d]
<1>1. InFlight' = InFlight
  BY DEF TypeInv, InFlight
<1> QED BY <1>1 DEF TypeInv

\* Only the request of c changes.
Others(c) == InFlight' = InFlight /\ \A d \in InFlight : d # c => req'[d] = req[d]

\* A step that adds no copy of o.
AddsNone(c, o) ==
  /\ snap'[o] \subseteq snap[o]
  /\ \/ ~ Adding(req'[c], o)
     \/ Adding(req[c], o) /\ req'[c].seen = req[c].seen
     \/ snap'[o] \subseteq req'[c].seen

LEMMA OwnersStay ==
  ASSUME NEW c \in InFlight, NEW o, NEW f, Owns(f, o), Others(c), AddsNone(c, o)
  PROVE  \E g : Owns(g, o)'
<1> DEFINE g == [x \in snap'[o] |-> f[x]]
<1>1. f \in [snap[o] -> InFlight] /\ \A x, y \in snap[o] : f[x] = f[y] => x = y
  BY DEF Owns, Injection, IsInjective
<1>2. g \in [snap'[o] -> InFlight'] /\ \A x, y \in snap'[o] : g[x] = g[y] => x = y
  BY <1>1 DEF Others, AddsNone
<1>3. g \in Injection(snap'[o], InFlight')
  <2> HIDE DEF g
  <2> QED BY <1>2 DEF Injection, IsInjective
<1>4. ASSUME NEW x \in snap'[o], Adding(req'[g[x]], o) PROVE x \in req'[g[x]].seen
  <2>1. x \in snap[o] /\ g[x] = f[x] /\ f[x] \in InFlight /\ (Adding(req[f[x]], o) => x \in req[f[x]].seen)
    BY <1>1 DEF Owns, AddsNone
  <2>2. CASE f[x] # c
    BY <1>4, <2>1, <2>2 DEF Others
  <2>3. CASE f[x] = c
    BY <1>4, <2>1, <2>3 DEF AddsNone
  <2> QED BY <2>2, <2>3
<1> HIDE DEF g
<1>5. PICK h : h = g
  OBVIOUS
<1>6. Owns(h, o)'
  BY <1>3, <1>4, <1>5 DEF Owns, Adding
<1> QED BY <1>6

\* A step that replaces the copies in seen by one of its own.
Adds(c, o, seen, x) ==
  /\ Adding(req[c], o) /\ req[c].seen = seen
  /\ ~ Adding(req'[c], o)
  /\ x \notin snap[o] /\ snap'[o] = (snap[o] \ seen) \cup {x}

LEMMA OwnerAdds ==
  ASSUME NEW c \in InFlight, NEW o, NEW f, Owns(f, o), Others(c),
         NEW seen, NEW x, Adds(c, o, seen, x)
  PROVE  \E g : Owns(g, o)'
<1> DEFINE g == [y \in snap'[o] |-> IF y = x THEN c ELSE f[y]]
<1>1. f \in [snap[o] -> InFlight] /\ \A y, z \in snap[o] : f[y] = f[z] => y = z
  BY DEF Owns, Injection, IsInjective
<1>2. \A y \in snap[o] \ seen : f[y] # c
  BY DEF Owns, Adds
<1>3. \A y \in snap'[o] : y = x \/ y \in snap[o] \ seen
  BY DEF Adds
<1>4. g \in [snap'[o] -> InFlight'] /\ \A y, z \in snap'[o] : g[y] = g[z] => y = z
  BY <1>1, <1>2, <1>3 DEF Others
<1>5. g \in Injection(snap'[o], InFlight')
  <2> HIDE DEF g
  <2> QED BY <1>4 DEF Injection, IsInjective
<1>6. ASSUME NEW y \in snap'[o], Adding(req'[g[y]], o) PROVE y \in req'[g[y]].seen
  <2>1. CASE y = x
    BY <1>6, <2>1 DEF Adds
  <2>2. CASE y # x
    <3>1. y \in snap[o] \ seen /\ g[y] = f[y] /\ f[y] # c /\ f[y] \in InFlight
      BY <1>1, <1>2, <1>3, <2>2
    <3>2. req'[f[y]] = req[f[y]]
      BY <3>1 DEF Others
    <3> QED BY <1>6, <3>1, <3>2 DEF Owns
  <2> QED BY <2>1, <2>2
<1> HIDE DEF g
<1>7. PICK h : h = g
  OBVIOUS
<1>8. Owns(h, o)'
  BY <1>5, <1>6, <1>7 DEF Owns, Adding
<1> QED BY <1>8

LEMMA CopiesKept ==
  ASSUME TypeInv, CopiesOwned, NEW c \in InFlight, Others(c),
         \A o \in Orders : AddsNone(c, o) \/ \E seen, x : Adds(c, o, seen, x)
  PROVE  CopiesOwned'
<1> SUFFICES ASSUME NEW o \in Orders PROVE \E g : Owns(g, o)'
  BY DEF CopiesOwned
<1>1. PICK f : Owns(f, o)
  BY DEF CopiesOwned
<1>2. CASE AddsNone(c, o)
  BY <1>1, <1>2, OwnersStay
<1>3. CASE \E seen, x : Adds(c, o, seen, x)
  BY <1>1, <1>3, OwnerAdds
<1> QED BY <1>2, <1>3

LEMMA CopiesStart == Init => CopiesOwned
<1> SUFFICES ASSUME Init, NEW o \in Orders PROVE \E f : Owns(f, o)
  BY DEF CopiesOwned
<1>1. snap[o] = {}
  BY DEF Init
<1>2. PICK f : f = [x \in {} |-> x]
  OBVIOUS
<1>3. f \in Injection({}, InFlight)
  BY <1>2 DEF Injection, IsInjective
<1>4. Owns(f, o)
  BY <1>1, <1>3 DEF Owns
<1> QED BY <1>4

\* A request that goes on without a copy.
LEMMA QuietCopies ==
  ASSUME TypeInv, CopiesOwned, NEW c \in InFlight, NEW r, req' = [req EXCEPT ![c] = r],
         snap' = snap,
         \A o \in Orders : Adding(r, o) => Adding(req[c], o) /\ r.seen = req[c].seen
  PROVE  CopiesOwned'
<1>1. Others(c) /\ req'[c] = r
  BY Mine DEF Others
<1>2. \A o \in Orders : AddsNone(c, o)
  BY <1>1 DEF AddsNone
<1> QED BY <1>1, <1>2, CopiesKept

LEMMA IdleCopies ==
  ASSUME TypeInv, CopiesOwned, NEW c \in InFlight, req' = [req EXCEPT ![c] = Idle], snap' = snap
  PROVE  CopiesOwned'
<1>1. \A o \in Orders : ~ Adding(Idle, o)
  BY DEF Adding, Idle
<1> QED BY <1>1, QuietCopies

LEMMA StartCopies ==
  ASSUME TypeInv, CopiesOwned, NEW c \in InFlight, Request(c)
  PROVE  CopiesOwned'
<1>1. ASSUME NEW o \in Orders, createOrder(c, o) \/ closeOrder(c, o) PROVE CopiesOwned'
  <2>1. req' = [req EXCEPT ![c] = req[c]] /\ snap' = snap
    BY <1>1 DEF createOrder, closeOrder, TypeInv
  <2> QED BY <2>1, QuietCopies
<1>2. ASSUME NEW o \in Orders, recomputeLoad(c, o) PROVE CopiesOwned'
  <2> DEFINE r == [Idle EXCEPT !.op = "recompute", !.pc = "delete", !.os = {o}, !.seen = snap[o]]
  <2>1. req' = [req EXCEPT ![c] = r] /\ snap' = snap
    BY <1>2 DEF recomputeLoad, Start, tables
  <2>2. r.seen = snap[o] /\ r.os = {o} /\ r.pc = "delete"
    BY DEF Idle
  <2> HIDE DEF r
  <2>3. Others(c) /\ req'[c] = r
    BY <2>1, Mine DEF Others
  <2>4. \A p \in Orders : AddsNone(c, p)
    BY <2>1, <2>2, <2>3 DEF AddsNone, Adding
  <2> QED BY <2>3, <2>4, CopiesKept
<1>3. ASSUME NEW o \in Orders, deleteOrderBomSnapshot(c, o) PROVE CopiesOwned'
  <2>1. req' = [req EXCEPT ![c] = req[c]] /\ snap' = [snap EXCEPT ![o] = {}]
    BY <1>3 DEF deleteOrderBomSnapshot, TypeInv
  <2>2. Others(c) /\ req'[c] = req[c]
    BY <2>1, Mine DEF Others
  <2>3. \A p \in Orders : snap'[p] \subseteq snap[p]
    BY <2>1 DEF TypeInv, RowsType
  <2>4. \A p \in Orders : AddsNone(c, p)
    BY <2>2, <2>3 DEF AddsNone
  <2> QED BY <2>2, <2>4, CopiesKept
<1>4. ASSUME NEW os \in SUBSET Orders, checkLoad(c, os) PROVE CopiesOwned'
  <2> DEFINE r == [Idle EXCEPT !.op = "check", !.pc = "read", !.os = os, !.todo = os]
  <2>1. req' = [req EXCEPT ![c] = r] /\ snap' = snap
    BY <1>4 DEF checkLoad, Start, tables
  <2>2. r.missing = {} /\ r.pc = "read"
    BY DEF Idle
  <2> HIDE DEF r
  <2> QED BY <2>1, <2>2, QuietCopies DEF Adding
<1>5. CASE generateLoad(c)
  <2> DEFINE r == [Idle EXCEPT !.op = "generate", !.pc = "read", !.os = Open, !.todo = Open]
  <2>1. req' = [req EXCEPT ![c] = r] /\ snap' = snap
    BY <1>5 DEF generateLoad, Start, tables
  <2>2. r.missing = {} /\ r.pc = "read"
    BY DEF Idle
  <2> HIDE DEF r
  <2> QED BY <2>1, <2>2, QuietCopies DEF Adding
<1>6. ASSUME NEW i \in DOMAIN pr, NEW to \in PrStatus, updatePrStatusLoad(c, i, to) PROVE CopiesOwned'
  <2> DEFINE r == [Idle EXCEPT !.op = "status", !.pc = "loaded", !.pr = i, !.to = to]
  <2>1. req' = [req EXCEPT ![c] = r] /\ snap' = snap
    BY <1>6 DEF updatePrStatusLoad, Start, tables
  <2>2. r.pc = "loaded"
    BY DEF Idle
  <2> HIDE DEF r
  <2> QED BY <2>1, <2>2, QuietCopies DEF Adding
<1>7. ASSUME NEW p \in Parts, NEW d \in Deltas, adjustLoad(c, p, d) PROVE CopiesOwned'
  <2> DEFINE r == [Idle EXCEPT !.op = "adjust", !.pc = "loaded", !.parts = {p},
                           !.have = Put(Nothing, p, stock[p]), !.delta = d]
  <2>1. req' = [req EXCEPT ![c] = r] /\ snap' = snap
    BY <1>7 DEF adjustLoad, Start, tables
  <2>2. r.pc = "loaded"
    BY DEF Idle
  <2> HIDE DEF r
  <2> QED BY <2>1, <2>2, QuietCopies DEF Adding
<1> QED BY <1>1, <1>2, <1>3, <1>4, <1>5, <1>6, <1>7 DEF Request

\* The steps of a request that has read what it needs of the snapshots.
LEMMA LaterCopies ==
  ASSUME TypeInv, CopiesOwned, NEW c \in InFlight,
         \/ checkReadStock(c) \/ liveEvaluate(c) \/ commitVerdicts(c)
         \/ fetchCurrentStockByPart(c) \/ fetchPending(c)
         \/ netLines(c) \/ nextPrNumber(c) \/ insertPr(c) \/ retryInsert(c)
         \/ allocationExhausted(c) \/ updatePrStatus(c) \/ commitStatus(c) \/ adjustStock(c)
         \/ Rollback(c) \/ \E p \in Parts : creditRead(c, p) \/ creditWrite(c, p)
  PROVE  CopiesOwned'
<1> DEFINE r == req[c]
<1>0. RequestOK(r) /\ r \in RequestRow
  BY DEF TypeInv, RequestOK
<1>1. CASE checkReadStock(c)
  <2> DEFINE n == [r EXCEPT !.pc = "judge", !.have = stock, !.copies = Nothing]
  <2>1. req' = [req EXCEPT ![c] = n] /\ snap' = snap
    BY <1>1 DEF checkReadStock, Step, tables
  <2> HIDE DEF r
  <2>2. n.pc = "judge"
    BY <1>0 DEF RequestRow
  <2> HIDE DEF n
  <2> QED BY <2>1, <2>2, QuietCopies DEF Adding
<1>2. CASE fetchCurrentStockByPart(c)
  <2> DEFINE n == [r EXCEPT !.have = stock]
  <2>1. req' = [req EXCEPT ![c] = n] /\ snap' = snap
    BY <1>2 DEF fetchCurrentStockByPart, Step, tables
  <2> HIDE DEF r
  <2>2. n.pc = r.pc /\ n.missing = r.missing /\ n.os = r.os /\ n.seen = r.seen
    BY <1>0 DEF RequestRow
  <2> HIDE DEF n
  <2> QED BY <2>1, <2>2, QuietCopies DEF Adding, r
<1>3. CASE fetchPending(c)
  <2> DEFINE n == [r EXCEPT !.pending = sumAlreadyRequisitionedByPart(pr)]
  <2>1. req' = [req EXCEPT ![c] = n] /\ snap' = snap
    BY <1>3 DEF fetchPending, Step, tables
  <2> HIDE DEF r
  <2>2. n.pc = r.pc /\ n.missing = r.missing /\ n.os = r.os /\ n.seen = r.seen
    BY <1>0 DEF RequestRow
  <2> HIDE DEF n
  <2> QED BY <2>1, <2>2, QuietCopies DEF Adding, r
<1>4. CASE netLines(c)
  <2> DEFINE n == [Idle EXCEPT !.op = "generate", !.pc = "number", !.lines = NetLines(c),
                               !.from = Len(pr)]
  <2>1. (req' = [req EXCEPT ![c] = n] \/ req' = [req EXCEPT ![c] = Idle]) /\ snap' = snap
    BY <1>4 DEF netLines, Step, tables
  <2>2. n.pc = "number"
    BY DEF Idle
  <2> HIDE DEF n
  <2> QED BY <2>1, <2>2, QuietCopies, IdleCopies DEF Adding
<1>5. CASE nextPrNumber(c)
  <2> DEFINE n == [r EXCEPT !.pc = "insert", !.id = NextNumber]
  <2>1. req' = [req EXCEPT ![c] = n] /\ snap' = snap
    BY <1>5 DEF nextPrNumber, Step, tables
  <2> HIDE DEF r
  <2>2. n.pc = "insert"
    BY <1>0 DEF RequestRow
  <2> HIDE DEF n
  <2> QED BY <2>1, <2>2, QuietCopies DEF Adding
<1>6. CASE retryInsert(c)
  <2> DEFINE n == [r EXCEPT !.pc = "number", !.tries = r.tries + 1]
  <2>1. req' = [req EXCEPT ![c] = n] /\ snap' = snap
    BY <1>6 DEF retryInsert, Step, tables
  <2> HIDE DEF r
  <2>2. n.pc = "number"
    BY <1>0 DEF RequestRow
  <2> HIDE DEF n
  <2> QED BY <2>1, <2>2, QuietCopies DEF Adding
<1>7. CASE updatePrStatus(c)
  <2> DEFINE n == [r EXCEPT !.pc = "credit", !.parts = ToCredit(r.pr, r.to)]
  <2>1. req' = [req EXCEPT ![c] = n] /\ snap' = snap
    BY <1>7 DEF updatePrStatus, Step, tables
  <2> HIDE DEF r
  <2>2. n.pc = "credit"
    BY <1>0 DEF RequestRow
  <2> HIDE DEF n
  <2> QED BY <2>1, <2>2, QuietCopies DEF Adding
<1>8. ASSUME NEW p \in Parts, creditRead(c, p) PROVE CopiesOwned'
  <2> DEFINE n == [r EXCEPT !.have = Put(Nothing, p, stock[p])]
  <2>1. req' = [req EXCEPT ![c] = n] /\ snap' = snap /\ r.pc = "credit"
    BY <1>8 DEF creditRead, Step, tables, At
  <2> HIDE DEF r
  <2>2. n.pc = "credit"
    BY <1>0, <2>1 DEF RequestRow
  <2> HIDE DEF n
  <2> QED BY <2>1, <2>2, QuietCopies DEF Adding
<1>9. ASSUME NEW p \in Parts, creditWrite(c, p) PROVE CopiesOwned'
  <2> DEFINE w == Put(r.wStock, p, r.have[p] + pr[r.pr].lines[p])
             n == [r EXCEPT !.parts = r.parts \ {p}, !.have = Nothing, !.wStock = w]
  <2>1. req' = [req EXCEPT ![c] = n] /\ snap' = snap /\ r.pc = "credit"
    BY <1>9 DEF creditWrite, Step, tables, At
  <2> HIDE DEF r, w
  <2>2. n.pc = "credit"
    BY <1>0, <2>1 DEF RequestRow
  <2> HIDE DEF n
  <2> QED BY <2>1, <2>2, QuietCopies DEF Adding
<1>10. CASE liveEvaluate(c)
  <2> DEFINE n == [r EXCEPT !.pc = "written", !.gone = {x \in short : x.order \in r.os}]
  <2>1. req' = [req EXCEPT ![c] = n] /\ snap' = snap
    BY <1>10 DEF liveEvaluate, Step, tables
  <2> HIDE DEF r
  <2>2. n.pc = "written"
    BY <1>0 DEF RequestRow
  <2> HIDE DEF n
  <2> QED BY <2>1, <2>2, QuietCopies DEF Adding
<1>11. CASE commitVerdicts(c) \/ insertPr(c) \/ allocationExhausted(c) \/ commitStatus(c)
            \/ adjustStock(c) \/ Rollback(c)
  <2>1. req' = [req EXCEPT ![c] = Idle] /\ snap' = snap
    BY <1>11 DEF commitVerdicts, insertPr, allocationExhausted, commitStatus, adjustStock, Rollback,
       Done, Step, tables
  <2> QED BY <2>1, IdleCopies
<1> QED BY <1>1, <1>2, <1>3, <1>4, <1>5, <1>6, <1>7, <1>8, <1>9, <1>10, <1>11

LEMMA SnapCopies ==
  ASSUME TypeInv, CopiesOwned, NEW c \in InFlight, NEW o \in Orders,
         snapshotFound(c, o) \/ snapshotMissing(c, o) \/ persistSnapshot(c, o)
  PROVE  CopiesOwned'
<1> DEFINE r == req[c]
<1>0. r \in RequestRow /\ r.pc = "read" /\ r.seen = {} /\ r.op # "recompute"
  BY DEF TypeInv, RequestOK, HasRead, Staged, snapshotFound, snapshotMissing, persistSnapshot
<1>1. CASE snapshotFound(c, o)
  <2> DEFINE w == Put(r.copies, o, Cardinality(snap[o]))
             n == [r EXCEPT !.todo = r.todo \ {o}, !.copies = w]
  <2>1. req' = [req EXCEPT ![c] = n] /\ snap' = snap
    BY <1>1 DEF snapshotFound, Step, tables
  <2> HIDE DEF r, w
  <2>2. n.pc = r.pc /\ n.missing = r.missing /\ n.os = r.os /\ n.seen = r.seen
    BY <1>0 DEF RequestRow
  <2> HIDE DEF n
  <2> QED BY <2>1, <2>2, QuietCopies DEF Adding, r
<1>2. CASE snapshotMissing(c, o)
  <2> DEFINE n == [r EXCEPT !.todo = r.todo \ {o}, !.missing = r.missing \cup {o}]
  <2>1. req' = [req EXCEPT ![c] = n] /\ snap' = snap /\ snap[o] = {}
    BY <1>2 DEF snapshotMissing, Step, tables
  <2>2. Others(c) /\ req'[c] = n
    BY <2>1, Mine DEF Others
  <2>3. n.pc = "read" /\ n.missing = r.missing \cup {o} /\ n.seen = r.seen
    <3> HIDE DEF r
    <3> QED BY <1>0 DEF RequestRow
  <2> HIDE DEF n
  <2>4. \A p \in Orders : AddsNone(c, p)
    BY <1>0, <2>1, <2>2, <2>3 DEF AddsNone, Adding
  <2> QED BY <2>2, <2>4, CopiesKept
<1>3. CASE persistSnapshot(c, o)
  <2> DEFINE w == Put(r.copies, o, Cardinality(snap[o]) + 1)
             n == [r EXCEPT !.missing = r.missing \ {o}, !.copies = w]
  <2>1. /\ req' = [req EXCEPT ![c] = n] /\ snap' = [snap EXCEPT ![o] = snap[o] \cup {NewCopy(o)}]
        /\ o \in r.missing /\ Room(o)
    BY <1>3 DEF persistSnapshot
  <2>2. Others(c) /\ req'[c] = n
    BY <2>1, Mine DEF Others
  <2>3. n.pc = "read" /\ n.missing = r.missing \ {o} /\ n.seen = r.seen
    <3> HIDE DEF r, w
    <3> QED BY <1>0 DEF RequestRow
  <2> HIDE DEF n
  <2>4. \A p \in Orders : p # o => snap'[p] = snap[p]
    BY <2>1 DEF TypeInv, RowsType
  <2>5. \A p \in Orders : p # o => AddsNone(c, p)
    BY <1>0, <2>2, <2>3, <2>4 DEF AddsNone, Adding
  <2>6. NewCopy(o) \notin snap[o] /\ snap'[o] = (snap[o] \ {}) \cup {NewCopy(o)}
    BY <2>1, CopyIsNew DEF TypeInv, RowsType
  <2>7. Adds(c, o, {}, NewCopy(o))
    BY <1>0, <2>1, <2>2, <2>3, <2>6 DEF Adds, Adding
  <2> QED BY <2>2, <2>5, <2>7, CopiesKept
<1> QED BY <1>1, <1>2, <1>3

LEMMA ReplaceCopies ==
  ASSUME TypeInv, CopiesOwned, NEW c \in InFlight, recomputeOrderBomSnapshot(c)
  PROVE  CopiesOwned'
<1> DEFINE r == req[c]
<1>1. PICK o \in r.os : /\ Room(o) /\ snap' = [snap EXCEPT ![o] = Replaced(o, r.seen)]
                        /\ req' = [req EXCEPT ![c] = Idle] /\ r.pc = "delete"
  BY DEF recomputeOrderBomSnapshot, Done, At
<1>2. o \in Orders
  BY DEF TypeInv, RequestOK, RequestRow
<1>3. Others(c) /\ req'[c] = Idle
  BY <1>1, Mine DEF Others
<1>4. \A p \in Orders : ~ Adding(req'[c], p)
  BY <1>3 DEF Adding, Idle
<1>5. \A p \in Orders : p # o => AddsNone(c, p)
  BY <1>1, <1>4 DEF AddsNone, TypeInv, RowsType
<1>6. Adds(c, o, r.seen, NewCopy(o))
  <2>1. NewCopy(o) \notin snap[o] /\ snap'[o] = (snap[o] \ r.seen) \cup {NewCopy(o)}
    BY <1>1, <1>2, CopyIsNew DEF TypeInv, RowsType, Replaced
  <2> QED BY <1>1, <1>2, <1>4, <2>1 DEF Adds, Adding
<1> QED BY <1>3, <1>5, <1>6, CopiesKept

LEMMA NextCopies == TypeInv /\ CopiesOwned /\ [Next]_vars => CopiesOwned'
<1>1. ASSUME TypeInv, CopiesOwned, UNCHANGED vars PROVE CopiesOwned'
  BY <1>1 DEF vars, CopiesOwned, Owns, InFlight, Adding
<1>2. ASSUME TypeInv, CopiesOwned, NEW c \in InFlight, Request(c) PROVE CopiesOwned'
  BY <1>2, StartCopies
<1>3. ASSUME TypeInv, CopiesOwned, NEW c \in InFlight, Advance(c) PROVE CopiesOwned'
  BY <1>3, LaterCopies, SnapCopies, ReplaceCopies DEF Advance
<1> QED BY <1>1, <1>2, <1>3 DEF Next

\* However many requests find an order without a snapshot, or recompute it, at
\* the same time, it has no more copies than there are requests.
THEOREM CopiesAreBounded == Spec => []CopiesWithinRequests
<1>1. TypeInv /\ CopiesOwned => CopiesWithinRequests
  <2> SUFFICES ASSUME TypeInv, CopiesOwned, NEW o \in Orders
               PROVE  Cardinality(snap[o]) <= Cardinality(InFlight)
    BY DEF CopiesWithinRequests
  <2>1. PICK f : f \in Injection(snap[o], InFlight)
    BY DEF CopiesOwned, Owns
  <2>2. IsFiniteSet(InFlight)
    BY RequisitionAssumption, FS_Subset DEF TypeInv
  <2> QED BY <2>1, <2>2, FS_Injection
<1> QED BY InitType, NextType, CopiesStart, NextCopies, <1>1, PTL DEF Spec

-----------------------------------------------------------------------------
(* One request at a time *)

\* What a requisition would ask for now: what the open orders need beyond the
\* stock and what is pending.
Shortfall(p) == Max({0, OpenNeed(p) - stock[p] - Asked(pr, InPipeline(pr), p)})

\* A request that gathers demand has read one copy of each order it has read,
\* and stock and pending quantity as they are.
Gathering(r) ==
  /\ r.todo \cap r.missing = {} /\ r.todo \cup r.missing \subseteq Open
  /\ DOMAIN r.copies = Open \ (r.todo \cup r.missing)
  /\ \A o \in DOMAIN r.copies : r.copies[o] = 1
  /\ \A o \in r.missing : snap[o] = {}
  /\ r.have \in {Nothing, stock}
  /\ r.pending \in {Nothing, sumAlreadyRequisitionedByPart(pr)}

\* What a request has read is true as long as it is alone.
UpToDate(r) ==
  /\ r.op = "status" => r.to \in getAllowedNextStatuses(pr[r.pr].status)
  /\ r.op = "generate" /\ r.pc = "read" => Gathering(r)
  /\ r.pc \in {"number", "insert"} => \A p \in Parts : r.lines[p] = Shortfall(p)

AloneUpToDate == Alone => \A c \in InFlight : UpToDate(req[c])

LEMMA AloneIs ==
  ASSUME TypeInv, Alone, NEW c \in InFlight
  PROVE  InFlight = {c}
<1>1. IsFiniteSet(InFlight)
  BY RequisitionAssumption, FS_Subset DEF TypeInv
<1>2. PICK d : InFlight = {d}
  BY <1>1, FS_Singleton DEF Alone
<1> QED BY <1>2

\* A request that goes on while the tables stay.
LEMMA StepUpToDate ==
  ASSUME TypeInv, AloneUpToDate, NEW c \in InFlight, NEW r, Step(c, r), Alone => UpToDate(r)
  PROVE  AloneUpToDate'
<1> SUFFICES ASSUME Alone', NEW d \in InFlight' PROVE UpToDate(req[d])'
  BY DEF AloneUpToDate
<1>1. InFlight' = InFlight /\ req'[c] = r
  BY Mine DEF Step
<1>2. Alone /\ d = c
  BY <1>1, AloneIs DEF Alone
<1>3. UNCHANGED <<order, snap, stock, ctb, short, pr, credited>>
  BY DEF Step, tables
<1>4. UpToDate(r)
  BY <1>2
<1>5. Open' = Open /\ InPipeline(pr)' = InPipeline(pr) /\ stock' = stock
      /\ sumAlreadyRequisitionedByPart(pr)' = sumAlreadyRequisitionedByPart(pr)
      /\ snap' = snap /\ pr' = pr
  BY <1>3 DEF Open, InPipeline, sumAlreadyRequisitionedByPart, Asked
<1>6. \A p \in Parts : Shortfall(p)' = Shortfall(p)
  BY <1>5 DEF Shortfall, OpenNeed, Asked
<1>7. Gathering(r)' <=> Gathering(r)
  BY <1>5 DEF Gathering
<1>8. UpToDate(r)'
  BY <1>4, <1>5, <1>6, <1>7 DEF UpToDate
<1> QED BY <1>1, <1>2, <1>8

\* A request that ends, or has not begun, has read nothing.
LEMMA RestUpToDate ==
  ASSUME TypeInv, NEW c \in InFlight, NEW r, req' = [req EXCEPT ![c] = r],
         r.op = "none", r.pc = "idle"
  PROVE  AloneUpToDate'
<1> SUFFICES ASSUME Alone', NEW d \in InFlight' PROVE UpToDate(req[d])'
  BY DEF AloneUpToDate
<1>1. InFlight' = InFlight /\ req'[c] = r
  BY Mine
<1>2. d = c
  BY <1>1, AloneIs DEF Alone
<1> QED BY <1>1, <1>2 DEF UpToDate

LEMMA DoneUpToDate ==
  ASSUME TypeInv, NEW c \in InFlight, req' = [req EXCEPT ![c] = Idle]
  PROVE  AloneUpToDate'
<1>1. Idle.op = "none" /\ Idle.pc = "idle"
  BY DEF Idle
<1> QED BY <1>1, RestUpToDate

LEMMA IdlesUpToDate ==
  ASSUME TypeInv, NEW c \in InFlight, Idles(c), req' = req
  PROVE  AloneUpToDate'
<1>1. req' = [req EXCEPT ![c] = req[c]]
  BY DEF TypeInv
<1>2. req[c].op = "none" /\ req[c].pc = "idle"
  BY DEF TypeInv, RequestOK, Staged, Idles
<1> QED BY <1>1, <1>2, RestUpToDate

LEMMA StartUpToDate ==
  ASSUME TypeInv, AloneUpToDate, NEW c \in InFlight, Request(c)
  PROVE  AloneUpToDate'
<1>1. ASSUME NEW o \in Orders, createOrder(c, o) \/ closeOrder(c, o) PROVE AloneUpToDate'
  BY <1>1, IdlesUpToDate DEF createOrder, closeOrder
<1>2. ASSUME NEW o \in Orders, recomputeLoad(c, o) PROVE AloneUpToDate'
  <2> DEFINE r == [Idle EXCEPT !.op = "recompute", !.pc = "delete", !.os = {o}, !.seen = snap[o]]
  <2>1. Step(c, r)
    BY <1>2 DEF recomputeLoad, Start, Step
  <2>2. r.op = "recompute" /\ r.pc = "delete"
    BY DEF Idle
  <2> HIDE DEF r
  <2> QED BY <2>1, <2>2, StepUpToDate DEF UpToDate
<1>3. ASSUME NEW o \in Orders, deleteOrderBomSnapshot(c, o) PROVE AloneUpToDate'
  BY <1>3, IdlesUpToDate DEF deleteOrderBomSnapshot
<1>4. ASSUME NEW os \in SUBSET Orders, checkLoad(c, os) PROVE AloneUpToDate'
  <2> DEFINE r == [Idle EXCEPT !.op = "check", !.pc = "read", !.os = os, !.todo = os]
  <2>1. Step(c, r)
    BY <1>4 DEF checkLoad, Start, Step
  <2>2. r.op = "check" /\ r.pc = "read"
    BY DEF Idle
  <2> HIDE DEF r
  <2> QED BY <2>1, <2>2, StepUpToDate DEF UpToDate
<1>5. CASE generateLoad(c)
  <2> DEFINE r == [Idle EXCEPT !.op = "generate", !.pc = "read", !.os = Open, !.todo = Open]
  <2>1. Step(c, r)
    BY <1>5 DEF generateLoad, Start, Step
  <2>2. /\ r.op = "generate" /\ r.pc = "read" /\ r.todo = Open /\ r.missing = {}
        /\ r.copies = Nothing /\ r.have = Nothing /\ r.pending = Nothing
    BY DEF Idle
  <2> HIDE DEF r
  <2>3. Gathering(r)
    BY <2>2, NothingIsPartial DEF Gathering
  <2> QED BY <2>1, <2>2, <2>3, StepUpToDate DEF UpToDate
<1>6. ASSUME NEW i \in DOMAIN pr, NEW to \in PrStatus, updatePrStatusLoad(c, i, to) PROVE AloneUpToDate'
  <2> DEFINE r == [Idle EXCEPT !.op = "status", !.pc = "loaded", !.pr = i, !.to = to]
  <2>1. Step(c, r) /\ to \in getAllowedNextStatuses(pr[i].status)
    BY <1>6 DEF updatePrStatusLoad, Start, Step
  <2>2. r.op = "status" /\ r.pc = "loaded" /\ r.pr = i /\ r.to = to
    BY DEF Idle
  <2> HIDE DEF r
  <2> QED BY <2>1, <2>2, StepUpToDate DEF UpToDate
<1>7. ASSUME NEW p \in Parts, NEW d \in Deltas, adjustLoad(c, p, d) PROVE AloneUpToDate'
  <2> DEFINE r == [Idle EXCEPT !.op = "adjust", !.pc = "loaded", !.parts = {p},
                           !.have = Put(Nothing, p, stock[p]), !.delta = d]
  <2>1. Step(c, r)
    BY <1>7 DEF adjustLoad, Start, Step
  <2>2. r.op = "adjust" /\ r.pc = "loaded"
    BY DEF Idle
  <2> HIDE DEF r
  <2> QED BY <2>1, <2>2, StepUpToDate DEF UpToDate
<1> QED BY <1>1, <1>2, <1>3, <1>4, <1>5, <1>6, <1>7 DEF Request

LEMMA CheckUpToDate ==
  ASSUME TypeInv, AloneUpToDate, NEW c \in InFlight,
         \/ checkReadStock(c) \/ liveEvaluate(c) \/ commitVerdicts(c) \/ recomputeOrderBomSnapshot(c)
         \/ allocationExhausted(c) \/ insertPr(c) \/ commitStatus(c) \/ adjustStock(c) \/ Rollback(c)
  PROVE  AloneUpToDate'
<1>1. CASE checkReadStock(c)
  <2> DEFINE r == req[c]
             n == [r EXCEPT !.pc = "judge", !.have = stock, !.copies = Nothing]
  <2>0. r \in RequestRow /\ r.op = "check"
    BY <1>1 DEF TypeInv, RequestOK, checkReadStock
  <2>1. Step(c, n)
    BY <1>1 DEF checkReadStock
  <2> HIDE DEF r
  <2>2. n.pc = "judge" /\ n.op = "check"
    BY <2>0 DEF RequestRow
  <2> HIDE DEF n
  <2> QED BY <2>1, <2>2, StepUpToDate DEF UpToDate
<1>2. CASE liveEvaluate(c)
  <2> DEFINE r == req[c]
             n == [r EXCEPT !.pc = "written", !.gone = {x \in short : x.order \in r.os}]
  <2>0. r \in RequestRow /\ r.op = "check" /\ Step(c, n)
    BY <1>2 DEF TypeInv, RequestOK, liveEvaluate, At
  <2> HIDE DEF r
  <2>2. n.pc = "written" /\ n.op = "check"
    BY <2>0 DEF RequestRow
  <2> HIDE DEF n
  <2> QED BY <2>0, <2>2, StepUpToDate DEF UpToDate
<1>3. CASE ~ checkReadStock(c) /\ ~ liveEvaluate(c)
  <2>1. req' = [req EXCEPT ![c] = Idle]
    BY <1>3 DEF commitVerdicts, insertPr, allocationExhausted, commitStatus, adjustStock, Rollback,
       recomputeOrderBomSnapshot, Done, Step
  <2> QED BY <2>1, DoneUpToDate
<1> QED BY <1>1, <1>2, <1>3

LEMMA StatusUpToDate ==
  ASSUME TypeInv, AloneUpToDate, NEW c \in InFlight,
         updatePrStatus(c) \/ \E p \in Parts : creditRead(c, p) \/ creditWrite(c, p)
  PROVE  AloneUpToDate'
<1> DEFINE r == req[c]
<1>0. r \in RequestRow /\ r.op = "status" /\ (Alone => UpToDate(r))
  BY DEF TypeInv, RequestOK, updatePrStatus, creditRead, creditWrite, At, AloneUpToDate
<1>1. ASSUME NEW n, Step(c, n), n.op = "status", n.pc = "credit", n.pr = r.pr, n.to = r.to
      PROVE  AloneUpToDate'
  BY <1>0, <1>1, StepUpToDate DEF UpToDate
<1>2. CASE updatePrStatus(c)
  <2> DEFINE n == [r EXCEPT !.pc = "credit", !.parts = ToCredit(r.pr, r.to)]
  <2>1. Step(c, n)
    BY <1>2 DEF updatePrStatus
  <2> HIDE DEF r
  <2>2. n.op = "status" /\ n.pc = "credit" /\ n.pr = r.pr /\ n.to = r.to
    BY <1>0 DEF RequestRow
  <2> HIDE DEF n
  <2> QED BY <2>1, <2>2, <1>1
<1>3. ASSUME NEW p \in Parts, creditRead(c, p) PROVE AloneUpToDate'
  <2> DEFINE n == [r EXCEPT !.have = Put(Nothing, p, stock[p])]
  <2>1. Step(c, n) /\ r.pc = "credit"
    BY <1>3 DEF creditRead, At
  <2> HIDE DEF r
  <2>2. n.op = "status" /\ n.pc = "credit" /\ n.pr = r.pr /\ n.to = r.to
    BY <1>0, <2>1 DEF RequestRow
  <2> HIDE DEF n
  <2> QED BY <2>1, <2>2, <1>1
<1>4. ASSUME NEW p \in Parts, creditWrite(c, p) PROVE AloneUpToDate'
  <2> DEFINE w == Put(r.wStock, p, r.have[p] + pr[r.pr].lines[p])
             n == [r EXCEPT !.parts = r.parts \ {p}, !.have = Nothing, !.wStock = w]
  <2>1. Step(c, n) /\ r.pc = "credit"
    BY <1>4 DEF creditWrite, At
  <2> HIDE DEF r, w
  <2>2. n.op = "status" /\ n.pc = "credit" /\ n.pr = r.pr /\ n.to = r.to
    BY <1>0, <2>1 DEF RequestRow
  <2> HIDE DEF n
  <2> QED BY <2>1, <2>2, <1>1
<1> QED BY <1>2, <1>3, <1>4

\* With one request at a time, an order has at most one copy.
LEMMA OneCopy ==
  ASSUME TypeInv, CopiesOwned, Alone, NEW o \in Orders
  PROVE  snap[o] = {} \/ Cardinality(snap[o]) = 1
<1>1. PICK f : f \in Injection(snap[o], InFlight)
  BY DEF CopiesOwned, Owns
<1>2. IsFiniteSet(InFlight)
  BY RequisitionAssumption, FS_Subset DEF TypeInv
<1>3. Cardinality(snap[o]) <= 1
  BY <1>1, <1>2, FS_Injection DEF Alone
<1>4. IsFiniteSet(snap[o]) /\ Cardinality(snap[o]) \in Nat
  BY SnapFinite
<1>5. Cardinality(snap[o]) = 0 => snap[o] = {}
  BY <1>4, FS_EmptySet
<1> QED BY <1>3, <1>4, <1>5

LEMMA FoundUpToDate ==
  ASSUME TypeInv, CopiesOwned, AloneUpToDate, NEW c \in InFlight, NEW o \in Orders,
         snapshotFound(c, o)
  PROVE  AloneUpToDate'
<1> DEFINE r == req[c]
           q == Cardinality(snap[o])
           w == Put(r.copies, o, q)
           n == [r EXCEPT !.todo = r.todo \ {o}, !.copies = w]
<1>1. /\ r \in RequestRow /\ r.pc = "read" /\ r.op \in {"check", "generate"}
      /\ o \in r.todo /\ snap[o] # {} /\ Step(c, n) /\ (Alone => UpToDate(r))
  BY DEF TypeInv, RequestOK, Staged, AloneUpToDate, snapshotFound
<1>2. q \in Nat /\ (Alone => q = 1)
  BY <1>1, OneCopy, SnapFinite
<1>3. r.copies \in Partial(Orders, Nat)
  BY <1>1 DEF RequestRow
<1> HIDE DEF q
<1>4. /\ DOMAIN w = DOMAIN r.copies \cup {o} /\ w[o] = q
      /\ \A p \in DOMAIN r.copies : p # o => w[p] = r.copies[p]
  BY DEF Put
<1> HIDE DEF r, w
<1>5. /\ n.pc = r.pc /\ n.op = r.op /\ n.todo = r.todo \ {o} /\ n.missing = r.missing
      /\ n.copies = w /\ n.have = r.have /\ n.pending = r.pending
  BY <1>1 DEF RequestRow
<1> HIDE DEF n
<1>6. ASSUME Alone, r.op = "generate" PROVE Gathering(n)
  <2>1. Gathering(r) /\ q = 1
    BY <1>1, <1>2, <1>6 DEF UpToDate
  <2>2. n.todo \cap n.missing = {} /\ n.todo \cup n.missing \subseteq Open
    BY <1>5, <2>1 DEF Gathering
  <2>3. DOMAIN n.copies = Open \ (n.todo \cup n.missing)
    BY <1>1, <1>4, <1>5, <2>1 DEF Gathering
  <2>4. \A p \in DOMAIN n.copies : n.copies[p] = 1
    BY <1>4, <1>5, <2>1 DEF Gathering
  <2> QED BY <1>5, <2>1, <2>2, <2>3, <2>4 DEF Gathering
<1>7. Alone => UpToDate(n)
  BY <1>1, <1>5, <1>6 DEF UpToDate
<1> QED BY <1>1, <1>7, StepUpToDate

LEMMA MissingUpToDate ==
  ASSUME TypeInv, AloneUpToDate, NEW c \in InFlight, NEW o \in Orders, snapshotMissing(c, o)
  PROVE  AloneUpToDate'
<1> DEFINE r == req[c]
           n == [r EXCEPT !.todo = r.todo \ {o}, !.missing = r.missing \cup {o}]
<1>1. /\ r \in RequestRow /\ r.pc = "read" /\ r.op \in {"check", "generate"}
      /\ o \in r.todo /\ snap[o] = {} /\ Step(c, n) /\ (Alone => UpToDate(r))
  BY DEF TypeInv, RequestOK, Staged, AloneUpToDate, snapshotMissing
<1> HIDE DEF r
<1>2. /\ n.pc = r.pc /\ n.op = r.op /\ n.todo = r.todo \ {o} /\ n.missing = r.missing \cup {o}
      /\ n.copies = r.copies /\ n.have = r.have /\ n.pending = r.pending
  BY <1>1 DEF RequestRow
<1> HIDE DEF n
<1>3. ASSUME Alone, r.op = "generate" PROVE Gathering(n)
  <2>1. Gathering(r)
    BY <1>1, <1>3 DEF UpToDate
  <2>2. n.todo \cup n.missing = r.todo \cup r.missing /\ n.todo \cap n.missing = {}
    BY <1>1, <1>2, <2>1 DEF Gathering
  <2> QED BY <1>1, <1>2, <2>1, <2>2 DEF Gathering
<1>4. Alone => UpToDate(n)
  BY <1>1, <1>2, <1>3 DEF UpToDate
<1> QED BY <1>1, <1>4, StepUpToDate

LEMMA PersistUpToDate ==
  ASSUME TypeInv, CopiesOwned, AloneUpToDate, NEW c \in InFlight, NEW o \in Orders,
         persistSnapshot(c, o)
  PROVE  AloneUpToDate'
<1> DEFINE r == req[c]
           q == Cardinality(snap[o]) + 1
           w == Put(r.copies, o, q)
           n == [r EXCEPT !.missing = r.missing \ {o}, !.copies = w]
<1>1. /\ r \in RequestRow /\ r.pc = "read" /\ r.op \in {"check", "generate"}
      /\ o \in r.missing /\ (Alone => UpToDate(r))
      /\ req' = [req EXCEPT ![c] = n]
      /\ snap' = [snap EXCEPT ![o] = snap[o] \cup {NewCopy(o)}]
      /\ UNCHANGED <<order, stock, ctb, short, pr, credited>>
  BY DEF TypeInv, RequestOK, Staged, AloneUpToDate, persistSnapshot
<1>2. q \in Nat /\ (snap[o] = {} => q = 1)
  BY SnapFinite, FS_EmptySet
<1>3. r.copies \in Partial(Orders, Nat)
  BY <1>1 DEF RequestRow
<1> HIDE DEF q
<1>4. /\ DOMAIN w = DOMAIN r.copies \cup {o} /\ w[o] = q
      /\ \A p \in DOMAIN r.copies : p # o => w[p] = r.copies[p]
  BY DEF Put
<1>5. \A p \in Orders : p # o => snap'[p] = snap[p]
  BY <1>1 DEF TypeInv, RowsType
<1>6. r.missing \subseteq Orders
  BY <1>1 DEF RequestRow
<1>7. InFlight' = InFlight /\ req'[c] = n
  BY <1>1, Mine
<1> HIDE DEF r, w
<1>8. /\ n.pc = r.pc /\ n.op = r.op /\ n.todo = r.todo /\ n.missing = r.missing \ {o}
      /\ n.copies = w /\ n.have = r.have /\ n.pending = r.pending
  BY <1>1 DEF RequestRow
<1> HIDE DEF n
<1> SUFFICES ASSUME Alone', NEW d \in InFlight' PROVE UpToDate(req[d])'
  BY DEF AloneUpToDate
<1>9. Alone /\ d = c
  BY <1>7, AloneIs DEF Alone
<1>10. PICK k : k = n
  OBVIOUS
<1>11. Open' = Open /\ stock' = stock
       /\ sumAlreadyRequisitionedByPart(pr)' = sumAlreadyRequisitionedByPart(pr)
  BY <1>1 DEF Open, sumAlreadyRequisitionedByPart, InPipeline, Asked
<1>12. r.op = "generate" => Gathering(k)'
  <2> SUFFICES ASSUME r.op = "generate" PROVE Gathering(k)'
    OBVIOUS
  <2>1. Gathering(r) /\ snap[o] = {} /\ q = 1
    BY <1>1, <1>2, <1>9 DEF UpToDate, Gathering
  <2>2. k.todo \cap k.missing = {} /\ k.todo \cup k.missing \subseteq Open
    BY <1>8, <1>10, <2>1 DEF Gathering
  <2>3. DOMAIN k.copies = Open \ (k.todo \cup k.missing)
    BY <1>1, <1>4, <1>8, <1>10, <2>1 DEF Gathering
  <2>4. \A p \in DOMAIN k.copies : k.copies[p] = 1
    BY <1>4, <1>8, <1>10, <2>1 DEF Gathering
  <2>5. \A p \in k.missing : snap'[p] = {}
    BY <1>5, <1>6, <1>8, <1>10, <2>1 DEF Gathering
  <2>6. k.have \in {Nothing, stock} /\ k.pending \in {Nothing, sumAlreadyRequisitionedByPart(pr)}
    BY <1>8, <1>10, <2>1 DEF Gathering
  <2> QED BY <1>11, <2>2, <2>3, <2>4, <2>5, <2>6 DEF Gathering
<1>13. UpToDate(k)'
  BY <1>1, <1>8, <1>10, <1>12 DEF UpToDate
<1> QED BY <1>7, <1>9, <1>10, <1>13 DEF UpToDate

LEMMA FetchUpToDate ==
  ASSUME TypeInv, AloneUpToDate, NEW c \in InFlight, fetchCurrentStockByPart(c) \/ fetchPending(c)
  PROVE  AloneUpToDate'
<1> DEFINE r == req[c]
           s == sumAlreadyRequisitionedByPart(pr)
<1>1. r \in RequestRow /\ r.op = "generate" /\ r.pc = "read" /\ (Alone => UpToDate(r))
  BY DEF TypeInv, RequestOK, AloneUpToDate, fetchCurrentStockByPart, fetchPending, At
<1>2. ASSUME NEW n, Step(c, n), n.op = "generate", n.pc = "read", n.todo = r.todo,
             n.missing = r.missing, n.copies = r.copies, n.have \in {r.have, stock},
             n.pending \in {r.pending, s}
      PROVE  AloneUpToDate'
  BY <1>1, <1>2, StepUpToDate DEF UpToDate, Gathering
<1>3. CASE fetchCurrentStockByPart(c)
  <2> DEFINE n == [r EXCEPT !.have = stock]
  <2>1. Step(c, n)
    BY <1>3 DEF fetchCurrentStockByPart
  <2> HIDE DEF r
  <2>2. /\ n.op = "generate" /\ n.pc = "read" /\ n.todo = r.todo /\ n.missing = r.missing
        /\ n.copies = r.copies /\ n.have = stock /\ n.pending = r.pending
    BY <1>1 DEF RequestRow
  <2> HIDE DEF n
  <2> QED BY <1>2, <2>1, <2>2
<1>4. CASE fetchPending(c)
  <2> DEFINE n == [r EXCEPT !.pending = s]
  <2>1. Step(c, n)
    BY <1>4 DEF fetchPending
  <2> HIDE DEF r, s
  <2>2. /\ n.op = "generate" /\ n.pc = "read" /\ n.todo = r.todo /\ n.missing = r.missing
        /\ n.copies = r.copies /\ n.have = r.have /\ n.pending = s
    BY <1>1 DEF RequestRow
  <2> HIDE DEF n
  <2> QED BY <1>2, <2>1, <2>2
<1> QED BY <1>3, <1>4

\* What a request computes from what it has read is what is missing.
LEMMA NetIsShortfall ==
  ASSUME TypeInv, AloneUpToDate, Alone, NEW c \in InFlight, netLines(c), NEW p \in Parts
  PROVE  NetLines(c)[p] = Shortfall(p)
<1> DEFINE r == req[c]
           demand == sumActiveOrderRequirements(r.copies)
<1>1. /\ r \in RequestRow /\ Gathering(r) /\ r.todo = {} /\ r.missing = {}
      /\ r.have # Nothing /\ r.pending # Nothing
  BY DEF TypeInv, RequestOK, AloneUpToDate, UpToDate, netLines, AllRead
<1>2. /\ DOMAIN r.copies = Open /\ \A o \in Open : r.copies[o] = 1
      /\ r.have = stock /\ r.pending = sumAlreadyRequisitionedByPart(pr)
  BY <1>1 DEF Gathering
<1>3. p \in Keys /\ p # Unlinked
  BY RequisitionAssumption DEF Keys
<1>4. demand[p] = OpenNeed(p)
  <2> DEFINE f == [o \in Open |-> r.copies[o] * Need[o][p]]
             g == [o \in Open |-> Need[o][p]]
  <2>1. ASSUME NEW o \in Open PROVE f[o] = g[o]
    <3>1. Need[o][p] \in Nat
      BY <1>3, RequisitionAssumption DEF Open
    <3>2. r.copies[o] * Need[o][p] = 1 * Need[o][p]
      BY <1>2
    <3> QED BY <3>1, <3>2
  <2>2. demand[p] = Total(f, Open)
    BY <1>2, <1>3 DEF sumActiveOrderRequirements
  <2> HIDE DEF f, g
  <2>3. Total(f, Open) = Total(g, Open)
    BY <2>1, TotalSame
  <2> QED BY <2>2, <2>3 DEF OpenNeed, g
<1>5. r.pending[p] = Asked(pr, InPipeline(pr), p)
  BY <1>2 DEF sumAlreadyRequisitionedByPart
<1>6. NetLines(c)[p] = Max({0, demand[p] - stock[p] - r.pending[p]})
  BY <1>2, <1>3 DEF NetLines, calculateNetPurchaseRequirement
<1> QED BY <1>4, <1>5, <1>6 DEF Shortfall

LEMMA NumberUpToDate ==
  ASSUME TypeInv, AloneUpToDate, NEW c \in InFlight, netLines(c) \/ nextPrNumber(c) \/ retryInsert(c)
  PROVE  AloneUpToDate'
<1> DEFINE r == req[c]
<1>1. r \in RequestRow /\ (Alone => UpToDate(r))
  BY DEF TypeInv, RequestOK, AloneUpToDate
<1>2. CASE netLines(c)
  <2> DEFINE l == NetLines(c)
             n == [Idle EXCEPT !.op = "generate", !.pc = "number", !.lines = l, !.from = Len(pr)]
  <2>1. Step(c, Idle) \/ Step(c, n)
    BY <1>2 DEF netLines
  <2>2. Alone => \A p \in Parts : l[p] = Shortfall(p)
    BY <1>2, NetIsShortfall
  <2> HIDE DEF l
  <2>3. n.op = "generate" /\ n.pc = "number" /\ n.lines = l
    BY DEF Idle
  <2> HIDE DEF n
  <2>4. Alone => UpToDate(n)
    BY <2>2, <2>3 DEF UpToDate
  <2> QED BY <2>1, <2>4, StepUpToDate, DoneUpToDate DEF Step
<1>3. CASE nextPrNumber(c)
  <2> DEFINE n == [r EXCEPT !.pc = "insert", !.id = NextNumber]
  <2>1. Step(c, n) /\ r.pc = "number" /\ r.op = "generate"
    BY <1>3 DEF nextPrNumber, At
  <2> HIDE DEF r
  <2>2. n.op = r.op /\ n.pc = "insert" /\ n.lines = r.lines
    BY <1>1 DEF RequestRow
  <2> HIDE DEF n
  <2>3. Alone => UpToDate(n)
    BY <1>1, <2>1, <2>2 DEF UpToDate
  <2> QED BY <2>1, <2>3, StepUpToDate
<1>4. CASE retryInsert(c)
  <2> DEFINE n == [r EXCEPT !.pc = "number", !.tries = r.tries + 1]
  <2>1. Step(c, n) /\ r.pc = "insert" /\ r.op = "generate"
    BY <1>4 DEF retryInsert, At
  <2> HIDE DEF r
  <2>2. n.op = r.op /\ n.pc = "number" /\ n.lines = r.lines
    BY <1>1 DEF RequestRow
  <2> HIDE DEF n
  <2>3. Alone => UpToDate(n)
    BY <1>1, <2>1, <2>2 DEF UpToDate
  <2> QED BY <2>1, <2>3, StepUpToDate
<1> QED BY <1>2, <1>3, <1>4

LEMMA NextUpToDate == TypeInv /\ CopiesOwned /\ AloneUpToDate /\ [Next]_vars => AloneUpToDate'
<1>1. ASSUME TypeInv, AloneUpToDate, UNCHANGED vars PROVE AloneUpToDate'
  <2>1. PICK c : c \in InFlight
    BY <1>1 DEF TypeInv
  <2>2. req' = [req EXCEPT ![c] = req[c]] /\ UNCHANGED tables
    BY <1>1, <2>1 DEF TypeInv, vars, tables
  <2>3. Step(c, req[c]) /\ (Alone => UpToDate(req[c]))
    BY <1>1, <2>1, <2>2 DEF Step, AloneUpToDate
  <2> QED BY <1>1, <2>1, <2>3, StepUpToDate
<1>2. ASSUME TypeInv, AloneUpToDate, NEW c \in InFlight, Request(c) PROVE AloneUpToDate'
  BY <1>2, StartUpToDate
<1>3. ASSUME TypeInv, CopiesOwned, AloneUpToDate, NEW c \in InFlight, Advance(c) PROVE AloneUpToDate'
  BY <1>3, CheckUpToDate, StatusUpToDate, FoundUpToDate, MissingUpToDate, PersistUpToDate,
     FetchUpToDate, NumberUpToDate DEF Advance
<1> QED BY <1>1, <1>2, <1>3 DEF Next

LEMMA UpToDateStarts == Init => AloneUpToDate
<1> SUFFICES ASSUME Init, NEW c \in InFlight PROVE UpToDate(req[c])
  BY DEF AloneUpToDate
<1>1. req[c] = Idle
  BY DEF Init, InFlight
<1> QED BY <1>1 DEF UpToDate, Idle

LEMMA AlwaysUpToDate == Spec => [](TypeInv /\ CopiesOwned /\ AloneUpToDate)
BY InitType, NextType, CopiesStart, NextCopies, UpToDateStarts, NextUpToDate, PTL DEF Spec

-----------------------------------------------------------------------------
(* Steps that neither number a requisition nor write a verdict *)

Unnumbered(stage) == stage \notin {"number", "insert", "written"}

\* The request of c goes on, and what is numbered and judged stays.
GoesOn(c) == \E n : /\ req' = [req EXCEPT ![c] = n] /\ UNCHANGED <<pr, ctb, short>>
                    /\ Unnumbered(req[c].pc) /\ Unnumbered(n.pc)

LEMMA RequestGoesOn ==
  ASSUME TypeInv, NEW c \in InFlight, Request(c)
  PROVE  GoesOn(c)
<1>1. ASSUME NEW r, Start(c, r), Unnumbered(r.pc) PROVE GoesOn(c)
  BY <1>1 DEF Start, tables, Idles, GoesOn, Unnumbered
<1>2. ASSUME NEW o \in Orders,
             createOrder(c, o) \/ closeOrder(c, o) \/ deleteOrderBomSnapshot(c, o)
      PROVE  GoesOn(c)
  <2>1. req' = [req EXCEPT ![c] = req[c]] /\ UNCHANGED <<pr, ctb, short>> /\ Unnumbered(req[c].pc)
    BY <1>2 DEF createOrder, closeOrder, deleteOrderBomSnapshot, Idles, Unnumbered, TypeInv
  <2> QED BY <2>1 DEF GoesOn
<1>3. ASSUME NEW o \in Orders, recomputeLoad(c, o) PROVE GoesOn(c)
  <2> DEFINE r == [Idle EXCEPT !.op = "recompute", !.pc = "delete", !.os = {o}, !.seen = snap[o]]
  <2>1. Start(c, r)
    BY <1>3 DEF recomputeLoad
  <2>2. Unnumbered(r.pc)
    BY DEF Unnumbered, Idle
  <2> HIDE DEF r
  <2> QED BY <1>1, <2>1, <2>2
<1>4. ASSUME NEW os, checkLoad(c, os) PROVE GoesOn(c)
  <2> DEFINE r == [Idle EXCEPT !.op = "check", !.pc = "read", !.os = os, !.todo = os]
  <2>1. Start(c, r)
    BY <1>4 DEF checkLoad
  <2>2. Unnumbered(r.pc)
    BY DEF Unnumbered, Idle
  <2> HIDE DEF r
  <2> QED BY <1>1, <2>1, <2>2
<1>5. CASE generateLoad(c)
  <2> DEFINE r == [Idle EXCEPT !.op = "generate", !.pc = "read", !.os = Open, !.todo = Open]
  <2>1. Start(c, r)
    BY <1>5 DEF generateLoad
  <2>2. Unnumbered(r.pc)
    BY DEF Unnumbered, Idle
  <2> HIDE DEF r
  <2> QED BY <1>1, <2>1, <2>2
<1>6. ASSUME NEW i, NEW to, updatePrStatusLoad(c, i, to) PROVE GoesOn(c)
  <2> DEFINE r == [Idle EXCEPT !.op = "status", !.pc = "loaded", !.pr = i, !.to = to]
  <2>1. Start(c, r)
    BY <1>6 DEF updatePrStatusLoad
  <2>2. Unnumbered(r.pc)
    BY DEF Unnumbered, Idle
  <2> HIDE DEF r
  <2> QED BY <1>1, <2>1, <2>2
<1>7. ASSUME NEW p \in Parts, NEW d, adjustLoad(c, p, d) PROVE GoesOn(c)
  <2> DEFINE r == [Idle EXCEPT !.op = "adjust", !.pc = "loaded", !.parts = {p},
                               !.have = Put(Nothing, p, stock[p]), !.delta = d]
  <2>1. Start(c, r)
    BY <1>7 DEF adjustLoad
  <2>2. Unnumbered(r.pc)
    BY DEF Unnumbered, Idle
  <2> HIDE DEF r
  <2> QED BY <1>1, <2>1, <2>2
<1> QED BY <1>2, <1>3, <1>4, <1>5, <1>6, <1>7 DEF Request

LEMMA AdvanceGoesOn ==
  ASSUME TypeInv, NEW c \in InFlight,
         \/ \E o \in Orders : snapshotFound(c, o) \/ snapshotMissing(c, o) \/ persistSnapshot(c, o)
         \/ checkReadStock(c) \/ fetchCurrentStockByPart(c) \/ fetchPending(c)
         \/ updatePrStatus(c) \/ \E p \in Parts : creditRead(c, p) \/ creditWrite(c, p)
  PROVE  GoesOn(c)
<1> DEFINE r == req[c]
<1>0. r \in RequestRow
  BY DEF TypeInv, RequestOK
<1>1. ASSUME NEW n, req' = [req EXCEPT ![c] = n], UNCHANGED <<pr, ctb, short>>,
             Unnumbered(r.pc), Unnumbered(n.pc)
      PROVE  GoesOn(c)
  BY <1>1 DEF GoesOn
<1>2. ASSUME NEW n, Step(c, n), Unnumbered(r.pc), Unnumbered(n.pc) PROVE GoesOn(c)
  BY <1>1, <1>2 DEF Step, tables
<1>3. ASSUME NEW o \in Orders, snapshotFound(c, o) PROVE GoesOn(c)
  <2> DEFINE w == Put(r.copies, o, Cardinality(snap[o]))
             n == [r EXCEPT !.todo = r.todo \ {o}, !.copies = w]
  <2>1. Step(c, n) /\ r.pc = "read"
    BY <1>3 DEF snapshotFound
  <2> HIDE DEF r, w
  <2>2. n.pc = "read"
    BY <1>0, <2>1 DEF RequestRow
  <2> HIDE DEF n
  <2> QED BY <1>2, <2>1, <2>2 DEF Unnumbered
<1>4. ASSUME NEW o \in Orders, snapshotMissing(c, o) PROVE GoesOn(c)
  <2> DEFINE n == [r EXCEPT !.todo = r.todo \ {o}, !.missing = r.missing \cup {o}]
  <2>1. Step(c, n) /\ r.pc = "read"
    BY <1>4 DEF snapshotMissing
  <2> HIDE DEF r
  <2>2. n.pc = "read"
    BY <1>0, <2>1 DEF RequestRow
  <2> HIDE DEF n
  <2> QED BY <1>2, <2>1, <2>2 DEF Unnumbered
<1>5. ASSUME NEW o \in Orders, persistSnapshot(c, o) PROVE GoesOn(c)
  <2> DEFINE w == Put(r.copies, o, Cardinality(snap[o]) + 1)
             n == [r EXCEPT !.missing = r.missing \ {o}, !.copies = w]
  <2>1. req' = [req EXCEPT ![c] = n] /\ UNCHANGED <<pr, ctb, short>> /\ r.pc = "read"
    BY <1>5 DEF persistSnapshot
  <2> HIDE DEF r, w
  <2>2. n.pc = "read"
    BY <1>0, <2>1 DEF RequestRow
  <2> HIDE DEF n
  <2> QED BY <1>1, <2>1, <2>2 DEF Unnumbered
<1>6. CASE checkReadStock(c)
  <2> DEFINE n == [r EXCEPT !.pc = "judge", !.have = stock, !.copies = Nothing]
  <2>1. Step(c, n) /\ r.pc = "read"
    BY <1>6 DEF checkReadStock, AllRead
  <2> HIDE DEF r
  <2>2. n.pc = "judge"
    BY <1>0, <2>1 DEF RequestRow
  <2> HIDE DEF n
  <2> QED BY <1>2, <2>1, <2>2 DEF Unnumbered
<1>7. CASE fetchCurrentStockByPart(c)
  <2> DEFINE n == [r EXCEPT !.have = stock]
  <2>1. Step(c, n) /\ r.pc = "read"
    BY <1>7 DEF fetchCurrentStockByPart, At
  <2> HIDE DEF r
  <2>2. n.pc = "read"
    BY <1>0, <2>1 DEF RequestRow
  <2> HIDE DEF n
  <2> QED BY <1>2, <2>1, <2>2 DEF Unnumbered
<1>8. CASE fetchPending(c)
  <2> DEFINE s == sumAlreadyRequisitionedByPart(pr)
             n == [r EXCEPT !.pending = s]
  <2>1. Step(c, n) /\ r.pc = "read"
    BY <1>8 DEF fetchPending, At
  <2> HIDE DEF r, s
  <2>2. n.pc = "read"
    BY <1>0, <2>1 DEF RequestRow
  <2> HIDE DEF n
  <2> QED BY <1>2, <2>1, <2>2 DEF Unnumbered
<1>9. CASE updatePrStatus(c)
  <2> DEFINE n == [r EXCEPT !.pc = "credit", !.parts = ToCredit(r.pr, r.to)]
  <2>1. Step(c, n) /\ r.pc = "loaded"
    BY <1>9 DEF updatePrStatus, At
  <2> HIDE DEF r
  <2>2. n.pc = "credit"
    BY <1>0, <2>1 DEF RequestRow
  <2> HIDE DEF n
  <2> QED BY <1>2, <2>1, <2>2 DEF Unnumbered
<1>10. ASSUME NEW p \in Parts, creditRead(c, p) PROVE GoesOn(c)
  <2> DEFINE n == [r EXCEPT !.have = Put(Nothing, p, stock[p])]
  <2>1. Step(c, n) /\ r.pc = "credit"
    BY <1>10 DEF creditRead, At
  <2> HIDE DEF r
  <2>2. n.pc = "credit"
    BY <1>0, <2>1 DEF RequestRow
  <2> HIDE DEF n
  <2> QED BY <1>2, <2>1, <2>2 DEF Unnumbered
<1>11. ASSUME NEW p \in Parts, creditWrite(c, p) PROVE GoesOn(c)
  <2> DEFINE w == Put(r.wStock, p, r.have[p] + pr[r.pr].lines[p])
             n == [r EXCEPT !.parts = r.parts \ {p}, !.have = Nothing, !.wStock = w]
  <2>1. Step(c, n) /\ r.pc = "credit"
    BY <1>11 DEF creditWrite, At
  <2> HIDE DEF r, w
  <2>2. n.pc = "credit"
    BY <1>0, <2>1 DEF RequestRow
  <2> HIDE DEF n
  <2> QED BY <1>2, <2>1, <2>2 DEF Unnumbered
<1> QED BY <1>3, <1>4, <1>5, <1>6, <1>7, <1>8, <1>9, <1>10, <1>11

-----------------------------------------------------------------------------
(* Verdicts and their shortage rows *)

RowsOf(os) == {r \in short : r.order \in os}

\* An evaluation that has the order rows has deleted every shortage row there
\* is of them, and no other evaluation has them.
Holds(c) == req[c].pc = "written" =>
  /\ req[c].gone = RowsOf(req[c].os)
  /\ \A d \in InFlight \ {c} : req[d].pc = "written" => req[d].os \cap req[c].os = {}

VerdictInv == ShortagesFitVerdict /\ \A c \in InFlight : Holds(c)

LEMMA VerdictsStart == Init => VerdictInv
<1> SUFFICES ASSUME Init PROVE VerdictInv
  OBVIOUS
<1>1. \A c \in InFlight : req[c] = Idle
  BY DEF Init, InFlight
<1>2. short = {} /\ \A o \in Orders : ctb[o].status # "RmShortage"
  BY DEF Init
<1>3. Idle.pc # "written"
  BY DEF Idle
<1> QED BY <1>1, <1>2, <1>3 DEF VerdictInv, ShortagesFitVerdict, Holds

\* Requests that go on without the order rows.
LEMMA QuietVerdicts ==
  ASSUME TypeInv, VerdictInv, NEW c \in InFlight, NEW r, req' = [req EXCEPT ![c] = r],
         r.pc # "written", UNCHANGED <<ctb, short>>
  PROVE  VerdictInv'
<1>1. InFlight' = InFlight /\ req'[c] = r /\ \A d \in InFlight : d # c => req'[d] = req[d]
  BY Mine
<1>2. ShortagesFitVerdict'
  BY DEF VerdictInv, ShortagesFitVerdict
<1>3. ASSUME NEW d \in InFlight PROVE Holds(d)'
  <2>1. CASE d = c
    BY <1>1, <2>1 DEF Holds
  <2>2. CASE d # c
    BY <1>1, <2>2 DEF Holds, RowsOf, VerdictInv
  <2> QED BY <2>1, <2>2
<1> QED BY <1>1, <1>2, <1>3 DEF VerdictInv

LEMMA EvaluateVerdicts ==
  ASSUME TypeInv, VerdictInv, NEW c \in InFlight, liveEvaluate(c)
  PROVE  VerdictInv'
<1> DEFINE r == req[c]
           n == [r EXCEPT !.pc = "written", !.gone = RowsOf(r.os)]
<1>1. Step(c, n) /\ OrdersFree(c, r.os) /\ r \in RequestRow
  BY DEF liveEvaluate, TypeInv, RequestOK, RowsOf
<1>2. UNCHANGED <<ctb, short>> /\ req' = [req EXCEPT ![c] = n]
  BY <1>1 DEF Step, tables
<1>3. InFlight' = InFlight /\ req'[c] = n /\ \A d \in InFlight : d # c => req'[d] = req[d]
  BY <1>2, Mine
<1>4. n.pc = "written" /\ n.gone = RowsOf(r.os) /\ n.os = r.os
  BY <1>1 DEF RequestRow
<1>5. \A d \in InFlight \ {c} : req[d].pc = "written" => req[d].os \cap r.os = {}
  BY <1>1 DEF OrdersFree
<1> HIDE DEF n, r
<1>6. ShortagesFitVerdict'
  BY <1>2 DEF VerdictInv, ShortagesFitVerdict
<1>7. ASSUME NEW d \in InFlight PROVE Holds(d)'
  <2>1. CASE d = c
    BY <1>2, <1>3, <1>4, <1>5, <2>1 DEF Holds, RowsOf
  <2>2. CASE d # c
    <3>1. Holds(d)
      BY DEF VerdictInv
    <3> QED BY <1>2, <1>3, <1>4, <1>5, <2>2, <3>1 DEF Holds, RowsOf
  <2> QED BY <2>1, <2>2
<1> QED BY <1>3, <1>6, <1>7 DEF VerdictInv

LEMMA CommitVerdicts ==
  ASSUME TypeInv, VerdictInv, NEW c \in InFlight, commitVerdicts(c)
  PROVE  VerdictInv'
<1> DEFINE os == req[c].os
           have == req[c].have
           rows == ShortageRows(os, have, c)
<1>1. /\ req[c].pc = "written" /\ req' = [req EXCEPT ![c] = Idle]
      /\ short' = (short \ req[c].gone) \cup rows
      /\ ctb' = [o \in Orders |-> IF o \in os THEN [status |-> evaluateCtb(o, have), by |-> c]
                                  ELSE ctb[o]]
  BY DEF commitVerdicts, At, Done
<1>2. InFlight' = InFlight /\ req'[c] = Idle /\ \A d \in InFlight : d # c => req'[d] = req[d]
  BY <1>1, Mine
<1>3. Holds(c)
  BY DEF VerdictInv
<1>4. \A x \in rows : x.order \in os /\ x.by = c /\ x.part \in ShortOf(x.order, have)
  BY ShortageRowsAre
<1>5. \A o \in os : \A k \in ShortOf(o, have) : [order |-> o, part |-> k, by |-> c] \in rows
  BY ShortageRowsAre
<1> HIDE DEF rows, os, have
<1>6. short' = {x \in short : x.order \notin os} \cup rows
  BY <1>1, <1>3 DEF Holds, RowsOf, os
<1>7. ASSUME NEW o \in Orders
      PROVE  LET mine == {x \in short' : x.order = o}
             IN  /\ ctb'[o].status = "RmShortage" <=> mine # {}
                 /\ \A x \in mine : x.by = ctb'[o].by
  <2>1. CASE o \in os
    <3>1. {x \in short' : x.order = o} = {x \in rows : x.order = o}
      BY <1>6, <2>1
    <3>a. ASSUME NEW k \in ShortOf(o, have) PROVE \E x \in rows : x.order = o
      <4>1. [order |-> o, part |-> k, by |-> c] \in rows
        BY <1>5, <2>1
      <4>2. [order |-> o, part |-> k, by |-> c].order = o
        OBVIOUS
      <4> QED BY <4>1, <4>2
    <3>b. ASSUME NEW x \in rows, x.order = o PROVE ShortOf(o, have) # {}
      BY <1>4, <3>b
    <3>2. {x \in rows : x.order = o} # {} <=> ShortOf(o, have) # {}
      BY <3>a, <3>b
    <3>3. ctb'[o] = [status |-> evaluateCtb(o, have), by |-> c]
      BY <1>1, <2>1
    <3>4. evaluateCtb(o, have) = "RmShortage" <=> ShortOf(o, have) # {}
      BY DEF evaluateCtb
    <3> QED BY <1>4, <3>1, <3>2, <3>3, <3>4
  <2>2. CASE o \notin os
    <3>1. {x \in short' : x.order = o} = {x \in short : x.order = o}
      BY <1>4, <1>6, <2>2
    <3>2. ctb'[o] = ctb[o]
      BY <1>1, <2>2
    <3> QED BY <3>1, <3>2 DEF VerdictInv, ShortagesFitVerdict
  <2> QED BY <2>1, <2>2
<1>8. ASSUME NEW d \in InFlight PROVE Holds(d)'
  <2>1. CASE d = c
    BY <1>2, <2>1 DEF Holds, Idle
  <2>2. CASE d # c /\ req[d].pc = "written"
    <3>1. req[d].gone = RowsOf(req[d].os) /\ req[d].os \cap os = {}
      BY <1>3, <1>1, <2>2 DEF Holds, VerdictInv, os
    <3>2. {x \in short' : x.order \in req[d].os} = RowsOf(req[d].os)
      BY <1>4, <1>6, <3>1 DEF RowsOf
    <3>3. Holds(d)
      BY DEF VerdictInv
    <3>4. \A e \in InFlight \ {d} : req'[e].pc = "written" => req[e].pc = "written" /\ req'[e] = req[e]
      BY <1>2 DEF Idle
    <3> QED BY <1>2, <2>2, <3>1, <3>2, <3>3, <3>4 DEF Holds, RowsOf
  <2>3. CASE d # c /\ req[d].pc # "written"
    BY <1>2, <2>3 DEF Holds
  <2> QED BY <2>1, <2>2, <2>3
<1> QED BY <1>2, <1>7, <1>8 DEF VerdictInv, ShortagesFitVerdict

\* The remaining stages of a generate, and requests that end.
LEMMA NumberingVerdicts ==
  ASSUME TypeInv, VerdictInv, NEW c \in InFlight,
         \/ netLines(c) \/ nextPrNumber(c) \/ insertPr(c) \/ retryInsert(c)
         \/ allocationExhausted(c) \/ recomputeOrderBomSnapshot(c) \/ commitStatus(c)
         \/ adjustStock(c) \/ Rollback(c)
  PROVE  VerdictInv'
<1> DEFINE r == req[c]
<1>0. r \in RequestRow /\ Idle.pc = "idle"
  BY DEF TypeInv, RequestOK, Idle
<1>1. CASE netLines(c)
  <2> DEFINE l == NetLines(c)
             n == [Idle EXCEPT !.op = "generate", !.pc = "number", !.lines = l, !.from = Len(pr)]
  <2>1. Step(c, Idle) \/ Step(c, n)
    BY <1>1 DEF netLines
  <2> HIDE DEF l
  <2>2. n.pc = "number"
    BY DEF Idle
  <2> HIDE DEF n
  <2> QED BY <1>0, <2>1, <2>2, QuietVerdicts DEF Step, tables
<1>2. CASE nextPrNumber(c)
  <2> DEFINE i == NextNumber
             n == [r EXCEPT !.pc = "insert", !.id = i]
  <2>1. Step(c, n)
    BY <1>2 DEF nextPrNumber
  <2> HIDE DEF r, i
  <2>2. n.pc = "insert"
    BY <1>0 DEF RequestRow
  <2> HIDE DEF n
  <2> QED BY <2>1, <2>2, QuietVerdicts DEF Step, tables
<1>3. CASE retryInsert(c)
  <2> DEFINE n == [r EXCEPT !.pc = "number", !.tries = r.tries + 1]
  <2>1. Step(c, n)
    BY <1>3 DEF retryInsert
  <2> HIDE DEF r
  <2>2. n.pc = "number"
    BY <1>0 DEF RequestRow
  <2> HIDE DEF n
  <2> QED BY <2>1, <2>2, QuietVerdicts DEF Step, tables
<1>4. CASE ~(netLines(c) \/ nextPrNumber(c) \/ retryInsert(c))
  <2>1. req' = [req EXCEPT ![c] = Idle] /\ UNCHANGED <<ctb, short>>
    BY <1>4 DEF insertPr, allocationExhausted, recomputeOrderBomSnapshot, commitStatus,
       adjustStock, Rollback, Done, Step, tables
  <2> QED BY <1>0, <2>1, QuietVerdicts
<1> QED BY <1>1, <1>2, <1>3, <1>4

LEMMA NextVerdicts == TypeInv /\ VerdictInv /\ [Next]_vars => VerdictInv'
<1>1. ASSUME TypeInv, VerdictInv, NEW c \in InFlight, GoesOn(c) PROVE VerdictInv'
  <2>1. PICK n : /\ req' = [req EXCEPT ![c] = n] /\ UNCHANGED <<ctb, short>>
                 /\ n.pc # "written"
    BY <1>1 DEF GoesOn, Unnumbered
  <2> QED BY <1>1, <2>1, QuietVerdicts
<1>2. ASSUME TypeInv, VerdictInv, NEW c \in InFlight, Request(c) PROVE VerdictInv'
  BY <1>1, <1>2, RequestGoesOn
<1>3. ASSUME TypeInv, VerdictInv, NEW c \in InFlight, Advance(c) PROVE VerdictInv'
  BY <1>1, <1>3, AdvanceGoesOn, EvaluateVerdicts, CommitVerdicts, NumberingVerdicts DEF Advance
<1>4. ASSUME VerdictInv, UNCHANGED vars PROVE VerdictInv'
  BY <1>4 DEF vars, VerdictInv, ShortagesFitVerdict, Holds, RowsOf, InFlight
<1> QED BY <1>2, <1>3, <1>4 DEF Next

\* However many requests check an order at the same time, its stored status and
\* its shortage rows are those of one evaluation.
THEOREM VerdictsKeepTheirRows == Spec => []ShortagesFitVerdict
<1>1. VerdictInv => ShortagesFitVerdict
  BY DEF VerdictInv
<1> QED BY VerdictsStart, NextVerdicts, AlwaysTypeInv, <1>1, PTL DEF Spec

-----------------------------------------------------------------------------
(* What is asked for, and what has arrived *)

LEMMA AskedSame ==
  ASSUME NEW rows, NEW rows2, NEW is, NEW p, \A i \in is : rows2[i].lines[p] = rows[i].lines[p]
  PROVE  Asked(rows2, is, p) = Asked(rows, is, p)
<1>1. [i \in is |-> rows2[i].lines[p]] = [i \in is |-> rows[i].lines[p]]
  OBVIOUS
<1> QED BY <1>1 DEF Asked

\* One requisition more.
LEMMA AskedMore ==
  ASSUME NEW rows \in Seq(PrRow), NEW is \in SUBSET DOMAIN rows, NEW i \in DOMAIN rows, i \notin is,
         NEW p \in Parts
  PROVE  /\ rows[i].lines[p] \in Nat /\ Asked(rows, is, p) \in Nat
         /\ Asked(rows, is \cup {i}, p) = Asked(rows, is, p) + rows[i].lines[p]
<1> DEFINE js == is \cup {i}
           f == [j \in js |-> rows[j].lines[p]]
           g == [j \in is |-> rows[j].lines[p]]
<1>1. DOMAIN rows = 1..Len(rows) /\ Len(rows) \in Nat
  OBVIOUS
<1>2. ASSUME NEW j \in DOMAIN rows PROVE rows[j].lines[p] \in Nat
  <2>1. rows[j] \in PrRow
    OBVIOUS
  <2>2. rows[j].lines \in [Keys -> Nat] /\ p \in Keys
    BY <2>1 DEF PrRow, Keys
  <2> QED BY <2>2
<1>3. IsFiniteSet(js)
  <2>1. IsFiniteSet(1..Len(rows))
    BY <1>1, FS_Interval
  <2>2. js \in SUBSET (1..Len(rows))
    BY <1>1
  <2> HIDE DEF js
  <2> QED BY <2>1, <2>2, FS_Subset
<1>4. Counts(f, js)
  BY <1>2, <1>3 DEF Counts
<1>5. Total(f, is) \in Nat /\ Total(f, js) = Total(f, is) + f[i]
  <2> HIDE DEF f
  <2> QED BY <1>4, TotalMore
<1>6. Total(f, is) = Total(g, is)
  <2>1. \A j \in is : f[j] = g[j]
    OBVIOUS
  <2> HIDE DEF f, g
  <2> QED BY <2>1, TotalSame
<1>7. f[i] = rows[i].lines[p] /\ Asked(rows, js, p) = Total(f, js) /\ Asked(rows, is, p) = Total(g, is)
  BY DEF Asked
<1> HIDE DEF f, g, js
<1>8. Asked(rows, js, p) = Asked(rows, is, p) + rows[i].lines[p] /\ Asked(rows, is, p) \in Nat
  BY <1>5, <1>6, <1>7
<1> QED BY <1>2, <1>8 DEF js

Fulfilled(rows) == {i \in DOMAIN rows : rows[i].status = "Fulfilled"}

\* The credits of a part are what the requisitions in is ask for: at least, and
\* exactly when requests come one at a time.
CreditsCover(p) ==
  LET arrived == Asked(pr, Fulfilled(pr), p)
  IN  credited[p] >= arrived /\ (Alone => credited[p] = arrived)

\* The new requisition is pending, and changes nothing else.
LEMMA InsertSets ==
  ASSUME TypeInv, NEW c \in InFlight, insertPr(c)
  PROVE  /\ Fulfilled(pr') = Fulfilled(pr)
         /\ InPipeline(pr') = InPipeline(pr) \cup {Len(pr) + 1}
         /\ Len(pr) + 1 \notin DOMAIN pr /\ Len(pr) + 1 \in DOMAIN pr'
         /\ pr' \in Seq(PrRow) /\ DOMAIN pr \subseteq DOMAIN pr'
         /\ \A i \in DOMAIN pr : pr'[i] = pr[i]
         /\ pr'[Len(pr) + 1].lines = req[c].lines
<1> DEFINE n == Len(pr)
<1>1. /\ pr' \in Seq(PrRow) /\ Len(pr') = n + 1
      /\ \A i \in DOMAIN pr : pr'[i] = pr[i]
      /\ pr'[n + 1] = [number |-> n + 1, status |-> "Draft", lines |-> req[c].lines]
  BY InsertIsNext
<1>2. DOMAIN pr = 1..n /\ n \in Nat
  BY DEF TypeInv, RowsType
<1>3. DOMAIN pr' = 1..(n + 1)
  BY <1>1
<1>4. pr'[n + 1].status = "Draft" /\ pr'[n + 1].lines = req[c].lines
  BY <1>1
<1>5. n + 1 \notin DOMAIN pr /\ DOMAIN pr' = DOMAIN pr \cup {n + 1}
  BY <1>2, <1>3
<1> HIDE DEF n
<1>6. Fulfilled(pr') = Fulfilled(pr)
  BY <1>1, <1>4, <1>5 DEF Fulfilled
<1>7. InPipeline(pr') = InPipeline(pr) \cup {n + 1}
  BY <1>1, <1>4, <1>5 DEF InPipeline
<1> QED BY <1>1, <1>4, <1>5, <1>6, <1>7 DEF n

LEMMA InsertCredits ==
  ASSUME TypeInv, NEW c \in InFlight, insertPr(c), NEW p \in Parts, CreditsCover(p)
  PROVE  CreditsCover(p)'
<1>1. Fulfilled(pr') = Fulfilled(pr) /\ \A i \in DOMAIN pr : pr'[i] = pr[i]
  BY InsertSets
<1>2. Asked(pr', Fulfilled(pr), p) = Asked(pr, Fulfilled(pr), p)
  <2>1. \A i \in Fulfilled(pr) : pr'[i].lines[p] = pr[i].lines[p]
    BY <1>1 DEF Fulfilled
  <2> QED BY <2>1, AskedSame
<1>3. credited' = credited
  BY DEF insertPr
<1>4. InFlight' = InFlight
  BY Mine DEF insertPr, Done
<1>5. Alone' <=> Alone
  BY <1>4 DEF Alone
<1>6. Asked(pr, Fulfilled(pr), p)' = Asked(pr, Fulfilled(pr), p)
  BY <1>1, <1>2
<1> HIDE DEF Fulfilled
<1> QED BY <1>3, <1>5, <1>6 DEF CreditsCover

LEMMA CommitCredits ==
  ASSUME TypeInv, AloneUpToDate, NEW c \in InFlight, commitStatus(c), NEW p \in Parts, CreditsCover(p)
  PROVE  CreditsCover(p)'
<1> DEFINE r == req[c]
           i == r.pr
           to == r.to
           D == DOMAIN r.wStock
           n == pr[i].lines[p]
           F == Fulfilled(pr)
           arrived == Asked(pr, F, p)
           arrived2 == Asked(pr', Fulfilled(pr'), p)
<1>1. /\ i \in DOMAIN pr /\ pr' = [pr EXCEPT ![i].status = to] /\ Done(c)
      /\ D = ToCredit(i, to) /\ r.op = "status"
      /\ credited' = [q \in Parts |-> credited[q] + IF q \in D THEN pr[i].lines[q] ELSE 0]
  BY DEF TypeInv, commitStatus, At, RequestOK, Credits
<1>2. pr \in Seq(PrRow) /\ pr[i] \in PrRow
  BY <1>1 DEF TypeInv, RowsType
<1>3. /\ DOMAIN pr' = DOMAIN pr /\ pr'[i].status = to
      /\ \A j \in DOMAIN pr : pr'[j].lines = pr[j].lines /\ (j # i => pr'[j].status = pr[j].status)
  <2> DEFINE new == [pr[i] EXCEPT !.status = to]
  <2>1. new.lines = pr[i].lines /\ new.status = to
    BY <1>2 DEF PrRow
  <2>2. pr' = [pr EXCEPT ![i] = new]
    BY <1>1
  <2> HIDE DEF new, r
  <2> QED BY <1>1, <1>2, <2>1, <2>2
<1>4. n \in Nat /\ credited[p] \in Int
  BY <1>1, LinesType DEF TypeInv, RowsType
<1>5. InFlight' = InFlight
  BY <1>1, Mine DEF Done
<1>6. Alone' <=> Alone
  BY <1>5 DEF Alone
<1>7. credited'[p] = credited[p] + IF to = "Fulfilled" THEN n ELSE 0
  BY <1>1, <1>4 DEF ToCredit
<1>8. F \in SUBSET DOMAIN pr /\ arrived \in Nat
  BY AskedType DEF Fulfilled
<1>9. \A is \in SUBSET DOMAIN pr : Asked(pr', is, p) = Asked(pr, is, p)
  <2> TAKE is \in SUBSET DOMAIN pr
  <2>1. \A j \in is : pr'[j].lines[p] = pr[j].lines[p]
    BY <1>3
  <2> QED BY <2>1, AskedSame
<1>10. Fulfilled(pr') = IF to = "Fulfilled" THEN F \cup {i} ELSE F \ {i}
  BY <1>1, <1>3 DEF Fulfilled
<1>11. Alone => i \notin F
  <2> SUFFICES ASSUME Alone PROVE i \notin F
    OBVIOUS
  <2>1. to \in getAllowedNextStatuses(pr[i].status)
    BY <1>1 DEF AloneUpToDate, UpToDate
  <2> QED BY <2>1 DEF getAllowedNextStatuses, Fulfilled
<1>12. i \notin F => Asked(pr, F \cup {i}, p) = arrived + n
  <2> HIDE DEF r, F
  <2> QED BY <1>1, <1>2, <1>8, AskedMore DEF i
<1>13. i \in F => arrived = Asked(pr, F \ {i}, p) + n /\ Asked(pr, F \ {i}, p) \in Nat
  <2> SUFFICES ASSUME i \in F PROVE arrived = Asked(pr, F \ {i}, p) + n /\ Asked(pr, F \ {i}, p) \in Nat
    OBVIOUS
  <2> DEFINE G == F \ {i}
  <2>1. G \in SUBSET DOMAIN pr /\ i \notin G /\ G \cup {i} = F
    BY <1>8
  <2> HIDE DEF r, F, G
  <2>2. Asked(pr, G \cup {i}, p) = Asked(pr, G, p) + n /\ Asked(pr, G, p) \in Nat
    BY <1>1, <1>2, <2>1, AskedMore
  <2> QED BY <2>1, <2>2 DEF G
<1>14. arrived2 = Asked(pr, Fulfilled(pr'), p)
  <2>1. Fulfilled(pr') \in SUBSET DOMAIN pr
    BY <1>3 DEF Fulfilled
  <2> QED BY <1>9, <2>1
<1>15. credited[p] >= arrived /\ (Alone => credited[p] = arrived)
  BY DEF CreditsCover
<1> HIDE DEF F, n, arrived, r
<1>16. credited'[p] >= arrived2 /\ (Alone => credited'[p] = arrived2)
  <2>1. CASE to = "Fulfilled" /\ i \in F
    <3>1. Fulfilled(pr') = F
      BY <1>10, <2>1
    <3>2. arrived2 = arrived /\ ~ Alone
      BY <1>11, <1>14, <2>1, <3>1 DEF arrived
    <3> QED BY <1>4, <1>7, <1>8, <1>15, <2>1, <3>2
  <2>2. CASE to = "Fulfilled" /\ i \notin F
    <3>1. arrived2 = arrived + n
      BY <1>10, <1>12, <1>14, <2>2
    <3> QED BY <1>4, <1>7, <1>8, <1>15, <2>2, <3>1
  <2>3. CASE to # "Fulfilled" /\ i \in F
    <3>1. arrived = arrived2 + n /\ arrived2 \in Nat /\ ~ Alone
      BY <1>10, <1>11, <1>13, <1>14, <2>3
    <3> QED BY <1>4, <1>7, <1>8, <1>15, <2>3, <3>1
  <2>4. CASE to # "Fulfilled" /\ i \notin F
    <3>1. Fulfilled(pr') = F
      BY <1>10, <2>4
    <3>2. arrived2 = arrived
      BY <1>14, <3>1 DEF arrived
    <3> QED BY <1>4, <1>7, <1>8, <1>15, <2>4, <3>2
  <2> QED BY <2>1, <2>2, <2>3, <2>4
<1> QED BY <1>6, <1>16 DEF CreditsCover

\* The requisitions and the credits move with an insert and with the commit of
\* a status change, and with nothing else.
RowsRest == UNCHANGED <<pr, credited>> /\ InFlight' = InFlight

LEMMA RestIs ==
  ASSUME TypeInv, NEW c \in InFlight, NEW r, UNCHANGED <<pr, credited>>,
         req' = [req EXCEPT ![c] = r]
  PROVE  RowsRest
BY Mine DEF RowsRest

LEMMA RequestRests ==
  ASSUME TypeInv, NEW c \in InFlight, Request(c)
  PROVE  RowsRest
<1>1. ASSUME NEW r, Start(c, r) PROVE RowsRest
  BY <1>1, RestIs DEF Start, tables
<1>2. ASSUME NEW o \in Orders,
             createOrder(c, o) \/ closeOrder(c, o) \/ deleteOrderBomSnapshot(c, o)
      PROVE  RowsRest
  BY <1>2 DEF createOrder, closeOrder, deleteOrderBomSnapshot, RowsRest, InFlight
<1>3. ASSUME NEW o \in Orders, recomputeLoad(c, o) PROVE RowsRest
  BY <1>1, <1>3 DEF recomputeLoad
<1>4. ASSUME NEW os, checkLoad(c, os) PROVE RowsRest
  BY <1>1, <1>4 DEF checkLoad
<1>5. CASE generateLoad(c)
  BY <1>1, <1>5 DEF generateLoad
<1>6. ASSUME NEW i, NEW to, updatePrStatusLoad(c, i, to) PROVE RowsRest
  BY <1>1, <1>6 DEF updatePrStatusLoad
<1>7. ASSUME NEW p \in Parts, NEW d, adjustLoad(c, p, d) PROVE RowsRest
  BY <1>1, <1>7 DEF adjustLoad
<1> QED BY <1>2, <1>3, <1>4, <1>5, <1>6, <1>7 DEF Request

LEMMA AdvanceRests ==
  ASSUME TypeInv, NEW c \in InFlight, Advance(c)
  PROVE  insertPr(c) \/ commitStatus(c) \/ RowsRest
<1>1. ASSUME NEW r, Step(c, r) PROVE RowsRest
  BY <1>1, RestIs DEF Step, tables
<1>2. ASSUME NEW o \in Orders, snapshotFound(c, o) \/ snapshotMissing(c, o) PROVE RowsRest
  BY <1>1, <1>2 DEF snapshotFound, snapshotMissing
<1>3. ASSUME NEW o \in Orders, persistSnapshot(c, o) PROVE RowsRest
  <2> DEFINE n == [req[c] EXCEPT !.missing = @ \ {o},
                                 !.copies = Put(@, o, Cardinality(snap[o]) + 1)]
  <2>1. req' = [req EXCEPT ![c] = n] /\ UNCHANGED <<pr, credited>>
    BY <1>3 DEF persistSnapshot
  <2> HIDE DEF n
  <2> QED BY <2>1, RestIs
<1>4. CASE recomputeOrderBomSnapshot(c) \/ commitVerdicts(c) \/ adjustStock(c)
  <2>1. Done(c) /\ UNCHANGED <<pr, credited>>
    BY <1>4 DEF recomputeOrderBomSnapshot, commitVerdicts, adjustStock
  <2> QED BY <2>1, RestIs DEF Done
<1>5. CASE checkReadStock(c) \/ liveEvaluate(c) \/ fetchCurrentStockByPart(c) \/ fetchPending(c)
  BY <1>1, <1>5 DEF checkReadStock, liveEvaluate, fetchCurrentStockByPart, fetchPending
<1>6. CASE netLines(c) \/ nextPrNumber(c) \/ retryInsert(c) \/ allocationExhausted(c)
  BY <1>1, <1>6 DEF netLines, nextPrNumber, retryInsert, allocationExhausted
<1>7. CASE updatePrStatus(c)
  BY <1>1, <1>7 DEF updatePrStatus
<1>8. ASSUME NEW p \in Parts, creditRead(c, p) \/ creditWrite(c, p) PROVE RowsRest
  BY <1>1, <1>8 DEF creditRead, creditWrite
<1>9. CASE Rollback(c)
  BY <1>1, <1>9 DEF Rollback
<1> QED BY <1>2, <1>3, <1>4, <1>5, <1>6, <1>7, <1>8, <1>9 DEF Advance

CreditsAreCovers == \A p \in Parts : CreditsCover(p)

LEMMA RestCredits ==
  ASSUME RowsRest, NEW p \in Parts, CreditsCover(p)
  PROVE  CreditsCover(p)'
<1>1. Asked(pr, Fulfilled(pr), p)' = Asked(pr, Fulfilled(pr), p)
  BY DEF RowsRest, Asked, Fulfilled
<1>2. credited' = credited /\ (Alone' <=> Alone)
  BY DEF RowsRest, Alone
<1> QED BY <1>1, <1>2 DEF CreditsCover

LEMMA NextCredits ==
  TypeInv /\ AloneUpToDate /\ CreditsAreCovers /\ [Next]_vars => CreditsAreCovers'
<1> SUFFICES ASSUME TypeInv, AloneUpToDate, CreditsAreCovers, [Next]_vars, NEW p \in Parts
             PROVE  CreditsCover(p)'
  BY DEF CreditsAreCovers
<1>0. CreditsCover(p)
  BY DEF CreditsAreCovers
<1>1. CASE UNCHANGED vars
  <2>1. RowsRest
    BY <1>1 DEF vars, RowsRest, InFlight
  <2> QED BY <1>0, <2>1, RestCredits
<1>2. ASSUME NEW c \in InFlight, Request(c) \/ Advance(c) PROVE CreditsCover(p)'
  <2>1. insertPr(c) \/ commitStatus(c) \/ RowsRest
    BY <1>2, RequestRests, AdvanceRests
  <2>2. CASE insertPr(c)
    BY <1>0, <2>2, InsertCredits
  <2>3. CASE commitStatus(c)
    BY <1>0, <2>3, CommitCredits
  <2>4. CASE RowsRest
    BY <1>0, <2>4, RestCredits
  <2> QED BY <2>1, <2>2, <2>3, <2>4
<1> QED BY <1>1, <1>2 DEF Next

LEMMA CreditsStart == Init => CreditsAreCovers
<1> SUFFICES ASSUME Init, NEW p \in Parts PROVE CreditsCover(p)
  BY DEF CreditsAreCovers
<1>1. Fulfilled(pr) = {} /\ credited[p] = 0
  BY DEF Init, Fulfilled
<1>2. Asked(pr, {}, p) = 0
  BY TotalNone DEF Asked
<1>3. Asked(pr, Fulfilled(pr), p) = 0
  BY <1>1, <1>2
<1> QED BY <1>1, <1>3 DEF CreditsCover

\* What arrived on a requisition has been credited: exactly once when requests
\* come one at a time, at least once whatever interleaves.
THEOREM CreditsAreCovered == Spec => []FulfilledIsCredited
<1>1. CreditsAreCovers => FulfilledIsCredited
  BY DEF CreditsAreCovers, CreditsCover, FulfilledIsCredited, Fulfilled
<1>2. Init => CreditsAreCovers
  BY CreditsStart
<1> QED BY AlwaysUpToDate, <1>1, <1>2, NextCredits, PTL DEF Spec

-----------------------------------------------------------------------------
(* What a requisition asks for *)

LEMMA OpenNeedType ==
  ASSUME NEW p \in Parts
  PROVE  OpenNeed(p) \in Nat
<1> DEFINE f == [o \in Open |-> Need[o][p]]
<1>1. IsFiniteSet(Open)
  BY FS_Subset, RequisitionAssumption DEF Open
<1>2. \A o \in Open : f[o] \in Nat
  BY RequisitionAssumption DEF Open, Keys
<1>3. Counts(f, Open)
  BY <1>1, <1>2 DEF Counts
<1> HIDE DEF f
<1>4. Total(f, Open) \in Nat
  BY <1>3, UnitsFinite
<1> QED BY <1>4 DEF OpenNeed, f

\* A requisition that one request at a time inserts closes the gap.
LEMMA InsertCovers ==
  ASSUME TypeInv, AloneUpToDate, Alone, NEW c \in InFlight, insertPr(c), NEW p \in Parts
  PROVE  Cover(p)' = Max({Cover(p), OpenNeed(p)})
<1> DEFINE n == Len(pr) + 1
           asked == Asked(pr, InPipeline(pr), p)
           need == OpenNeed(p)
           s == stock[p]
           line == req[c].lines[p]
<1>1. /\ InPipeline(pr') = InPipeline(pr) \cup {n} /\ n \notin DOMAIN pr /\ n \in DOMAIN pr'
      /\ pr' \in Seq(PrRow) /\ DOMAIN pr \subseteq DOMAIN pr'
      /\ \A i \in DOMAIN pr : pr'[i] = pr[i]
      /\ pr'[n].lines = req[c].lines
  BY InsertSets
<1>2. InPipeline(pr) \in SUBSET DOMAIN pr
  BY DEF InPipeline
<1>3. asked \in Nat
  BY <1>2, AskedType
<1>4. Asked(pr', InPipeline(pr), p) = asked
  <2>1. \A i \in InPipeline(pr) : pr'[i].lines[p] = pr[i].lines[p]
    BY <1>1, <1>2
  <2> QED BY <2>1, AskedSame
<1>5. line \in Nat /\ Asked(pr', InPipeline(pr'), p) = asked + line
  <2> DEFINE is == InPipeline(pr)
  <2>1. is \in SUBSET DOMAIN pr' /\ n \notin is
    BY <1>1, <1>2
  <2> HIDE DEF is, n
  <2>2. PICK rows : rows = pr'
    OBVIOUS
  <2>3. /\ rows[n].lines[p] \in Nat
        /\ Asked(rows, is \cup {n}, p) = Asked(rows, is, p) + rows[n].lines[p]
    BY <1>1, <2>1, <2>2, AskedMore
  <2> QED BY <1>1, <1>4, <2>2, <2>3 DEF is
<1>6. line = Shortfall(p)
  BY DEF AloneUpToDate, UpToDate, insertPr, At
<1>7. s \in Int /\ need \in Nat
  BY OpenNeedType DEF TypeInv, RowsType
<1>8. Cover(p) = s + asked /\ stock' = stock
  BY DEF Cover, insertPr
<1>9. Cover(p)' = s + Asked(pr', InPipeline(pr'), p)
  BY <1>8 DEF Cover
<1>10. line = Max({0, need - s - asked})
  BY <1>6 DEF Shortfall
<1> HIDE DEF asked, need, s, line, n
<1>11. line = IF need - s - asked > 0 THEN need - s - asked ELSE 0
  <2>1. need - s - asked \in Int
    BY <1>3, <1>7
  <2> QED BY <1>10, <2>1, MaxOfZero
<1>12. Max({s + asked, need}) = IF s + asked >= need THEN s + asked ELSE need
  <2>1. s + asked \in Int /\ need \in Int
    BY <1>3, <1>7
  <2> QED BY <2>1, MaxOfTwo
<1>13. s + (asked + line) = Max({s + asked, need})
  BY <1>3, <1>5, <1>7, <1>11, <1>12
<1> QED BY <1>5, <1>8, <1>9, <1>13 DEF need

\* With one request at a time, a requisition lifts stock and pending quantity
\* of every part to what the open orders need, and no further.
THEOREM AsksExactly == Spec => AsksForShortfall
<1>1. ASSUME TypeInv, AloneUpToDate, [Next]_vars, Alone, Len(pr') > Len(pr), NEW p \in Parts
      PROVE  Cover(p)' = Max({Cover(p), OpenNeed(p)})
  <2>0. Len(pr) \in Nat
    BY <1>1 DEF TypeInv, RowsType
  <2>1. CASE pr' = pr
    BY <1>1, <2>0, <2>1
  <2>2. ASSUME NEW c \in InFlight, Request(c) \/ Advance(c)
        PROVE  Cover(p)' = Max({Cover(p), OpenNeed(p)})
    <3>1. insertPr(c) \/ commitStatus(c) \/ RowsRest
      BY <1>1, <2>2, RequestRests, AdvanceRests
    <3>2. CASE commitStatus(c)
      <4> DEFINE i == req[c].pr
                 new == [pr[i] EXCEPT !.status = req[c].to]
      <4>1. pr' = [pr EXCEPT ![i] = new] /\ i \in DOMAIN pr /\ pr \in Seq(PrRow)
        BY <1>1, <3>2 DEF commitStatus, At, TypeInv, RequestOK, Credits, RowsType
      <4> HIDE DEF i, new
      <4>2. Len(pr') = Len(pr)
        BY <4>1
      <4> QED BY <1>1, <2>0, <4>2
    <3>3. CASE RowsRest
      BY <2>1, <3>3 DEF RowsRest
    <3>4. CASE insertPr(c)
      BY <1>1, <3>4, InsertCovers
    <3> QED BY <3>1, <3>2, <3>3, <3>4
  <2>3. CASE UNCHANGED vars
    BY <2>1, <2>3 DEF vars
  <2> QED BY <1>1, <2>2, <2>3 DEF Next
<1>2. TypeInv /\ AloneUpToDate /\ [Next]_vars =>
        [Alone /\ Len(pr') > Len(pr) =>
           \A p \in Parts : Cover(p)' = Max({Cover(p), OpenNeed(p)})]_vars
  BY <1>1
<1> QED BY AlwaysUpToDate, <1>2, PTL DEF Spec, AsksForShortfall

-----------------------------------------------------------------------------
(* The numbering of SequentialId *)

\* What SequentialId sees of the requisitions and of a request.
ShownIds == [i \in DOMAIN pr |-> pr[i].number]
Numbering(r) == r.pc \in {"number", "insert"}
ShownRequest(r) ==
  IF Numbering(r) THEN [pc |-> r.pc, id |-> r.id, tries |-> r.tries, from |-> r.from, others |-> 0]
  ELSE Numbers!Resting
ShownLoop == [c \in Clients |->
  IF c \in InFlight /\ req[c].pc \in {"number", "insert"}
  THEN [pc |-> req[c].pc, id |-> req[c].id, tries |-> req[c].tries, from |-> req[c].from, others |-> 0]
  ELSE [pc |-> "idle", id |-> 0, tries |-> 0, from |-> 0, others |-> 0]]

LEMMA RestingIs ==
  /\ Numbers!Resting = [pc |-> "idle", id |-> 0, tries |-> 0, from |-> 0, others |-> 0]
  /\ ShownRequest(Idle) = Numbers!Resting
BY DEF Numbers!Resting, ShownRequest, Numbering, Idle

\* What SequentialId makes of what a request has shown.
Begun(x, n) == [x EXCEPT !.pc = "number", !.from = n]
Numbered(x, i) == [x EXCEPT !.pc = "insert", !.id = i]
Retried(x, t) == [x EXCEPT !.pc = "number", !.tries = t]

LEMMA ShownWith ==
  ASSUME NEW a, NEW b, NEW d, NEW e, NEW f, NEW w, NEW x,
         x = [pc |-> a, id |-> b, tries |-> d, from |-> e, others |-> f]
  PROVE  /\ Begun(x, w) = [pc |-> "number", id |-> b, tries |-> d, from |-> w, others |-> f]
         /\ Numbered(x, w) = [pc |-> "insert", id |-> w, tries |-> d, from |-> e, others |-> f]
         /\ Retried(x, w) = [pc |-> "number", id |-> b, tries |-> w, from |-> e, others |-> f]
<1> DEFINE y == [x EXCEPT !.pc = "number"]
           z == [x EXCEPT !.pc = "insert"]
<1>1. /\ Begun(x, w) = [y EXCEPT !.from = w]
      /\ Numbered(x, w) = [z EXCEPT !.id = w]
      /\ Retried(x, w) = [y EXCEPT !.tries = w]
  BY DEF Begun, Numbered, Retried
<1>2. y = [pc |-> "number", id |-> b, tries |-> d, from |-> e, others |-> f]
  OBVIOUS
<1>3. z = [pc |-> "insert", id |-> b, tries |-> d, from |-> e, others |-> f]
  OBVIOUS
<1> HIDE DEF y, z
<1>4. [y EXCEPT !.from = w] = [pc |-> "number", id |-> b, tries |-> d, from |-> w, others |-> f]
  BY <1>2
<1>5. [z EXCEPT !.id = w] = [pc |-> "insert", id |-> w, tries |-> d, from |-> e, others |-> f]
  BY <1>3
<1>6. [y EXCEPT !.tries = w] = [pc |-> "number", id |-> b, tries |-> w, from |-> e, others |-> f]
  BY <1>2
<1> QED BY <1>1, <1>4, <1>5, <1>6

LEMMA LoopIs ==
  ShownLoop = [c \in Clients |->
    IF c \in InFlight THEN ShownRequest(req[c]) ELSE Numbers!Resting]
BY RestingIs DEF ShownLoop, ShownRequest, Numbering

LEMMA NumbersStart == Init => Numbers!Init
<1> SUFFICES ASSUME Init PROVE Numbers!Init
  OBVIOUS
<1>1. ShownIds = << >>
  BY DEF Init, ShownIds
<1>2. \A c \in InFlight : req[c] = Idle
  BY DEF Init, InFlight
<1>3. ShownLoop = [c \in Clients |-> Numbers!Resting]
  BY <1>2, RestingIs, LoopIs
<1> QED BY <1>1, <1>3 DEF Numbers!Init, ShownIds, ShownLoop

\* The requisitions carry the numbers from one up.
LEMMA IdsAre ==
  ASSUME TypeInv
  PROVE  /\ ShownIds = [i \in 1..Len(pr) |-> i] /\ Len(ShownIds) = Len(pr) /\ Len(pr) \in Nat
         /\ Numbers!Used(ShownIds) = 1..Len(pr)
         /\ Numbers!nextSequentialId(ShownIds) = Len(pr) + 1
<1>1. DOMAIN pr = 1..Len(pr) /\ Len(pr) \in Nat /\ \A i \in DOMAIN pr : pr[i].number = i
  BY DEF TypeInv, RowsType
<1>2. ShownIds = [i \in 1..Len(pr) |-> i]
  BY <1>1 DEF ShownIds
<1>3. Len(ShownIds) = Len(pr)
  BY <1>1, <1>2
<1>4. Numbers!Used(ShownIds) = 1..Len(pr)
  BY <1>2 DEF Numbers!Used
<1>5. Numbers!nextSequentialId(ShownIds) = Len(pr) + 1
  <2> DEFINE S == {0} \cup (1..Len(pr))
             top == CHOOSE m \in S : \A k \in 1..Len(pr) : k <= m
  <2>1. Len(pr) \in S /\ \A k \in 1..Len(pr) : k <= Len(pr)
    BY <1>1
  <2>2. top \in S /\ \A k \in 1..Len(pr) : k <= top
    BY <2>1
  <2>3. Numbers!nextSequentialId(ShownIds) = 1 + top
    BY <1>4 DEF Numbers!nextSequentialId
  <2> HIDE DEF top
  <2>4. Len(pr) # 0 => Len(pr) \in 1..Len(pr)
    BY <1>1
  <2>5. Len(pr) # 0 => Len(pr) <= top
    BY <2>2, <2>4
  <2>6. top \in Int /\ 0 <= top /\ top <= Len(pr)
    BY <1>1, <2>2
  <2> QED BY <1>1, <2>3, <2>5, <2>6
<1> QED BY <1>1, <1>2, <1>3, <1>4, <1>5

\* A request that goes on is shown with what it has read.
LEMMA ShownStep ==
  ASSUME TypeInv, NEW c \in InFlight, NEW r, req' = [req EXCEPT ![c] = r]
  PROVE  /\ c \in Clients /\ ShownLoop[c] = ShownRequest(req[c])
         /\ ShownLoop' = [ShownLoop EXCEPT ![c] = ShownRequest(r)]
<1>1. InFlight' = InFlight /\ req'[c] = r /\ \A d \in InFlight : d # c => req'[d] = req[d]
  BY Mine
<1>2. c \in Clients /\ InFlight \subseteq Clients
  BY DEF TypeInv
<1>3. ShownLoop' = [d \in Clients |-> IF d \in InFlight THEN ShownRequest(req'[d]) ELSE Numbers!Resting]
  BY <1>1, RestingIs DEF ShownLoop, ShownRequest, Numbering
<1> QED BY <1>1, <1>2, <1>3, LoopIs

NumbersStep == [Numbers!Next]_(Numbers!vars)

\* Steps that SequentialId does not see.
LEMMA ShownSame ==
  ASSUME ShownIds' = ShownIds, ShownLoop' = ShownLoop
  PROVE  NumbersStep
<1>1. UNCHANGED Numbers!vars
  BY DEF Numbers!vars, ShownIds, ShownLoop
<1> QED BY <1>1 DEF NumbersStep

LEMMA UnseenStep ==
  ASSUME TypeInv, NEW c \in InFlight, NEW r, req' = [req EXCEPT ![c] = r], ShownIds' = ShownIds,
         ~ Numbering(req[c]), ~ Numbering(r)
  PROVE  NumbersStep
<1>1. ShownRequest(r) = ShownRequest(req[c])
  BY DEF ShownRequest
<1>2. ShownLoop' = ShownLoop
  <2>1. ShownLoop' = [ShownLoop EXCEPT ![c] = ShownLoop[c]]
    BY <1>1, ShownStep
  <2> QED BY <2>1 DEF ShownLoop
<1> QED BY <1>2, ShownSame

LEMMA SameIds == pr' = pr => ShownIds' = ShownIds
BY DEF ShownIds

\* A request takes a number: the steps of generateWithRetry.
LEMMA NumbersNetLines ==
  ASSUME TypeInv, NEW c \in InFlight, netLines(c)
  PROVE  NumbersStep
<1> DEFINE l == NetLines(c)
           n == [Idle EXCEPT !.op = "generate", !.pc = "number", !.lines = l, !.from = Len(pr)]
<1>1. (Step(c, Idle) \/ Step(c, n)) /\ req[c].pc = "read"
  BY DEF netLines, AllRead
<1>2. pr' = pr /\ ShownIds' = ShownIds
  BY <1>1, SameIds DEF Step, tables
<1>3. CASE Step(c, Idle)
  <2>1. ~ Numbering(req[c]) /\ ~ Numbering(Idle)
    BY <1>1 DEF Numbering, Idle
  <2> QED BY <1>2, <1>3, <2>1, UnseenStep DEF Step
<1>4. CASE Step(c, n)
  <2> DEFINE new == [Numbers!Resting EXCEPT !.pc = "number", !.from = Len(ShownIds)]
  <2> HIDE DEF l
  <2>1. n.pc = "number" /\ n.id = 0 /\ n.tries = 0 /\ n.from = Len(pr)
    BY DEF Idle
  <2>2. req' = [req EXCEPT ![c] = n]
    BY <1>4 DEF Step
  <2> HIDE DEF n
  <2>3. ShownRequest(n) = [pc |-> "number", id |-> 0, tries |-> 0, from |-> Len(pr), others |-> 0]
    BY <2>1 DEF ShownRequest, Numbering
  <2>a. Len(ShownIds) = Len(pr) /\ Numbers!Resting = [pc |-> "idle", id |-> 0, tries |-> 0, from |-> 0, others |-> 0]
    BY IdsAre, RestingIs
  <2>c. Begun(Numbers!Resting, Len(pr)) = [pc |-> "number", id |-> 0, tries |-> 0, from |-> Len(pr), others |-> 0]
    BY <2>a, ShownWith
  <2>4. new = [pc |-> "number", id |-> 0, tries |-> 0, from |-> Len(pr), others |-> 0]
    BY <2>a, <2>c DEF Begun
  <2> HIDE DEF new
  <2>b. Numbers!Resting.pc = "idle"
    BY <2>a
  <2>5. ShownRequest(req[c]) = Numbers!Resting
    BY <1>1 DEF ShownRequest, Numbering
  <2>6. c \in Clients /\ ShownLoop[c].pc = "idle" /\ ShownLoop' = [ShownLoop EXCEPT ![c] = new]
    BY <2>2, <2>3, <2>4, <2>5, <2>b, ShownStep
  <2>7. Numbers!Ask(c)
    BY <1>2, <2>6 DEF new, Numbers!Ask, ShownIds, ShownLoop
  <2> QED BY <2>6, <2>7 DEF NumbersStep, Numbers!Next
<1> QED BY <1>1, <1>3, <1>4

LEMMA NumbersNext ==
  ASSUME TypeInv, NEW c \in InFlight, nextPrNumber(c)
  PROVE  NumbersStep
<1> DEFINE r == req[c]
           n == [r EXCEPT !.pc = "insert", !.id = NextNumber]
           next == Numbers!nextSequentialId(ShownIds)
<1>1. Step(c, n) /\ r.pc = "number" /\ r \in RequestRow
  BY DEF nextPrNumber, At, TypeInv, RequestOK
<1>2. pr' = pr /\ ShownIds' = ShownIds /\ req' = [req EXCEPT ![c] = n]
  BY <1>1, SameIds DEF Step, tables
<1>3. NextNumber = next
  BY IdsAre, NextNumberIs
<1> HIDE DEF r
<1>4. n.pc = "insert" /\ n.id = NextNumber /\ n.tries = r.tries /\ n.from = r.from
  BY <1>1 DEF RequestRow
<1> HIDE DEF n, next
<1>5. ShownRequest(r) = [pc |-> "number", id |-> r.id, tries |-> r.tries, from |-> r.from, others |-> 0]
  BY <1>1 DEF ShownRequest, Numbering
<1>6. ShownRequest(n) = Numbered(ShownRequest(r), next)
  <2>1. ShownRequest(n) = [pc |-> "insert", id |-> next, tries |-> r.tries, from |-> r.from, others |-> 0]
    BY <1>3, <1>4 DEF ShownRequest, Numbering
  <2> QED BY <1>5, <2>1, ShownWith
<1>7. /\ c \in Clients /\ ShownLoop[c] = ShownRequest(r)
      /\ ShownLoop' = [ShownLoop EXCEPT ![c] = ShownRequest(n)]
  BY <1>2, ShownStep DEF r
<1>8. /\ ShownLoop[c].pc = "number"
      /\ ShownLoop' = [ShownLoop EXCEPT ![c] = Numbered(ShownLoop[c], next)]
  BY <1>5, <1>6, <1>7
<1>9. ShownLoop' = [ShownLoop EXCEPT ![c].pc = "insert", ![c].id = next]
  BY <1>7, <1>8 DEF ShownLoop, Numbered
<1>10. Numbers!NextId(c)
  BY <1>2, <1>8, <1>9 DEF Numbers!NextId, ShownIds, ShownLoop, next
<1> QED BY <1>7, <1>10 DEF NumbersStep, Numbers!Next

\* A request that inserts is shown as inserting.
LEMMA ShownInsert ==
  ASSUME NEW r, r.pc = "insert"
  PROVE  ShownRequest(r) = [pc |-> "insert", id |-> r.id, tries |-> r.tries, from |-> r.from, others |-> 0]
BY DEF ShownRequest, Numbering

LEMMA TakenIs ==
  ASSUME NEW n
  PROVE  Taken(n) <=> n \in Numbers!Used(ShownIds)
BY DEF Taken, Numbers!Used, ShownIds

LEMMA NumbersInsert ==
  ASSUME TypeInv, NEW c \in InFlight, insertPr(c)
  PROVE  NumbersStep
<1> DEFINE r == req[c]
<1>1. r.pc = "insert" /\ ~ Taken(r.id) /\ req' = [req EXCEPT ![c] = Idle]
  BY DEF insertPr, At, MayInsert, Done
<1>2. /\ r.id = Len(pr) + 1 /\ pr' \in Seq(PrRow) /\ Len(pr') = Len(pr) + 1
      /\ \A i \in DOMAIN pr : pr'[i] = pr[i]
      /\ pr'[Len(pr) + 1] = [number |-> Len(pr) + 1, status |-> "Draft", lines |-> r.lines]
  BY InsertIsNext
<1>3. ShownIds' = Append(ShownIds, r.id)
  <2>1. Len(pr) \in Nat /\ Len(ShownIds) = Len(pr) /\ ShownIds = [i \in 1..Len(pr) |-> i]
    BY IdsAre
  <2>2. TypeInv'
    BY InsertType
  <2>3. DOMAIN pr' = 1..Len(pr') /\ \A i \in DOMAIN pr' : pr'[i].number = i
    BY <2>2 DEF TypeInv, RowsType
  <2>4. ShownIds' = [i \in 1..(Len(pr) + 1) |-> i]
    BY <1>2, <2>3 DEF ShownIds
  <2>5. Append(ShownIds, r.id) = [i \in 1..(Len(pr) + 1) |-> i]
    BY <1>2, <2>1
  <2> QED BY <2>4, <2>5
<1>4. ShownRequest(r) = [pc |-> "insert", id |-> r.id, tries |-> r.tries, from |-> r.from, others |-> 0]
  BY <1>1, ShownInsert
<1>5. /\ c \in Clients /\ ShownLoop[c] = ShownRequest(r)
      /\ ShownLoop' = [ShownLoop EXCEPT ![c] = Numbers!Resting]
  BY <1>1, ShownStep, RestingIs
<1> HIDE DEF r
<1>6. /\ ShownLoop[c].pc = "insert" /\ ShownLoop[c].id \notin Numbers!Used(ShownIds)
      /\ ShownIds' = Append(ShownIds, ShownLoop[c].id)
  BY <1>1, <1>3, <1>4, <1>5, TakenIs
<1>7. Numbers!Insert(c)
  BY <1>5, <1>6 DEF Numbers!Insert, ShownIds, ShownLoop
<1> QED BY <1>5, <1>7 DEF NumbersStep, Numbers!Next

LEMMA NumbersRetry ==
  ASSUME TypeInv, NEW c \in InFlight, retryInsert(c) \/ allocationExhausted(c)
  PROVE  NumbersStep
<1> DEFINE r == req[c]
           n == [r EXCEPT !.pc = "number", !.tries = r.tries + 1]
<1>1. r.pc = "insert" /\ Taken(r.id) /\ UNCHANGED tables /\ r \in RequestRow
  BY DEF retryInsert, allocationExhausted, At, Step, TypeInv, RequestOK
<1>2. ShownIds' = ShownIds
  BY <1>1, SameIds DEF tables
<1>3. ShownRequest(r) = [pc |-> "insert", id |-> r.id, tries |-> r.tries, from |-> r.from, others |-> 0]
  BY <1>1, ShownInsert
<1>4. CASE retryInsert(c)
  <2>1. req' = [req EXCEPT ![c] = n] /\ r.tries + 1 < MaxAttempts
    BY <1>4 DEF retryInsert, Step
  <2>2. /\ c \in Clients /\ ShownLoop[c] = ShownRequest(r)
        /\ ShownLoop' = [ShownLoop EXCEPT ![c] = ShownRequest(n)]
    BY <2>1, ShownStep
  <2> HIDE DEF r
  <2>3. n.pc = "number" /\ n.id = r.id /\ n.tries = r.tries + 1 /\ n.from = r.from
    BY <1>1 DEF RequestRow
  <2> HIDE DEF n
  <2>4. ShownRequest(n) = [pc |-> "number", id |-> r.id, tries |-> r.tries + 1, from |-> r.from, others |-> 0]
    BY <2>3 DEF ShownRequest, Numbering
  <2>a. ShownLoop[c] = [pc |-> "insert", id |-> r.id, tries |-> r.tries, from |-> r.from, others |-> 0]
    BY <1>3, <2>2
  <2>5. ShownRequest(n) = Retried(ShownLoop[c], ShownLoop[c].tries + 1)
    <3>1. ShownLoop[c].tries = r.tries
      BY <2>a
    <3> QED BY <2>4, <2>a, <3>1, ShownWith
  <2>6. /\ ShownLoop[c].pc = "insert" /\ ShownLoop[c].id \in Numbers!Used(ShownIds)
        /\ ShownLoop[c].tries + 1 < MaxAttempts
    BY <1>1, <1>3, <2>1, <2>2, TakenIs
  <2>7. ShownLoop' = [ShownLoop EXCEPT ![c].pc = "number", ![c].tries = @ + 1]
    BY <2>2, <2>5 DEF ShownLoop, Retried
  <2>8. Numbers!Collide(c)
    BY <1>2, <2>6, <2>7 DEF Numbers!Collide, ShownIds, ShownLoop
  <2> QED BY <2>2, <2>8 DEF NumbersStep, Numbers!Next
<1>5. CASE allocationExhausted(c)
  <2>1. req' = [req EXCEPT ![c] = Idle] /\ r.tries + 1 >= MaxAttempts
    BY <1>5 DEF allocationExhausted, Step
  <2>2. /\ c \in Clients /\ ShownLoop[c] = ShownRequest(r)
        /\ ShownLoop' = [ShownLoop EXCEPT ![c] = Numbers!Resting]
    BY <2>1, ShownStep, RestingIs
  <2> HIDE DEF r
  <2>3. /\ ShownLoop[c].pc = "insert" /\ ShownLoop[c].id \in Numbers!Used(ShownIds)
        /\ ShownLoop[c].tries + 1 >= MaxAttempts
    BY <1>1, <1>3, <2>1, <2>2, TakenIs
  <2>4. Numbers!GiveUp(c)
    BY <1>2, <2>2, <2>3 DEF Numbers!GiveUp, ShownIds, ShownLoop
  <2> QED BY <2>2, <2>4 DEF NumbersStep, Numbers!Next
<1> QED BY <1>4, <1>5

LEMMA NumbersAbandon ==
  ASSUME TypeInv, NEW c \in InFlight, Rollback(c)
  PROVE  NumbersStep
<1>1. req' = [req EXCEPT ![c] = Idle] /\ ShownIds' = ShownIds
  BY SameIds DEF Rollback, Step, tables
<1>2. CASE Numbering(req[c])
  <2>1. /\ c \in Clients /\ ShownLoop[c] = ShownRequest(req[c])
        /\ ShownLoop' = [ShownLoop EXCEPT ![c] = Numbers!Resting]
    BY <1>1, ShownStep, RestingIs
  <2>2. ShownLoop[c].pc # "idle"
    BY <1>2, <2>1 DEF ShownRequest, Numbering
  <2>3. Numbers!Abandon(c)
    BY <1>1, <2>1, <2>2 DEF Numbers!Abandon, ShownIds, ShownLoop
  <2> QED BY <2>1, <2>3 DEF NumbersStep, Numbers!Next
<1>3. CASE ~ Numbering(req[c])
  <2>1. ~ Numbering(Idle)
    BY DEF Numbering, Idle
  <2> QED BY <1>1, <1>3, <2>1, UnseenStep
<1> QED BY <1>2, <1>3

LEMMA UnseenGoesOn ==
  ASSUME TypeInv, NEW c \in InFlight, GoesOn(c)
  PROVE  NumbersStep
<1>1. PICK n : /\ req' = [req EXCEPT ![c] = n] /\ pr' = pr
               /\ Unnumbered(req[c].pc) /\ Unnumbered(n.pc)
  BY DEF GoesOn
<1> QED BY <1>1, SameIds, UnseenStep DEF Numbering, Unnumbered

LEMMA UnseenDone ==
  ASSUME TypeInv, NEW c \in InFlight,
         recomputeOrderBomSnapshot(c) \/ commitVerdicts(c) \/ adjustStock(c) \/ commitStatus(c)
  PROVE  NumbersStep
<1>1. req' = [req EXCEPT ![c] = Idle] /\ ~ Numbering(req[c]) /\ ~ Numbering(Idle)
  BY DEF recomputeOrderBomSnapshot, commitVerdicts, adjustStock, commitStatus, Done, At, Numbering, Idle
<1>2. ShownIds' = ShownIds
  <2>1. CASE ~ commitStatus(c)
    BY <2>1, SameIds DEF recomputeOrderBomSnapshot, commitVerdicts, adjustStock
  <2>2. CASE commitStatus(c)
    <3> DEFINE i == req[c].pr
               new == [pr[i] EXCEPT !.status = req[c].to]
    <3>1. pr' = [pr EXCEPT ![i] = new] /\ i \in DOMAIN pr /\ pr \in Seq(PrRow) /\ pr[i] \in PrRow
      BY <2>2 DEF commitStatus, At, TypeInv, RequestOK, Credits, RowsType
    <3>2. new.number = pr[i].number
      BY <3>1 DEF PrRow
    <3> HIDE DEF i, new
    <3>3. DOMAIN pr' = DOMAIN pr /\ \A j \in DOMAIN pr : pr'[j].number = pr[j].number
      BY <3>1, <3>2
    <3> QED BY <3>3 DEF ShownIds
  <2> QED BY <2>1, <2>2
<1> QED BY <1>1, <1>2, UnseenStep

LEMMA UnseenEvaluate ==
  ASSUME TypeInv, NEW c \in InFlight, liveEvaluate(c)
  PROVE  NumbersStep
<1> DEFINE r == req[c]
           n == [r EXCEPT !.pc = "written", !.gone = {x \in short : x.order \in r.os}]
<1>1. Step(c, n) /\ r.pc = "judge" /\ r \in RequestRow
  BY DEF liveEvaluate, At, TypeInv, RequestOK
<1>2. n.pc = "written"
  BY <1>1 DEF RequestRow
<1> HIDE DEF n
<1>3. req' = [req EXCEPT ![c] = n] /\ ShownIds' = ShownIds
  BY <1>1, SameIds DEF Step, tables
<1> QED BY <1>1, <1>2, <1>3, UnseenStep DEF Numbering

LEMMA NumbersNextStep == TypeInv /\ [Next]_vars => NumbersStep
<1>1. ASSUME UNCHANGED vars PROVE NumbersStep
  <2>1. ShownIds' = ShownIds /\ ShownLoop' = ShownLoop
    BY <1>1 DEF vars, ShownIds, ShownLoop, InFlight
  <2> QED BY <2>1, ShownSame
<1>2. ASSUME TypeInv, NEW c \in InFlight, Request(c) PROVE NumbersStep
  BY <1>2, RequestGoesOn, UnseenGoesOn
<1>3. ASSUME TypeInv, NEW c \in InFlight, Advance(c) PROVE NumbersStep
  BY <1>3, UnseenDone, UnseenEvaluate, AdvanceGoesOn, UnseenGoesOn, NumbersNetLines, NumbersNext, NumbersInsert, NumbersRetry,
     NumbersAbandon DEF Advance
<1> QED BY <1>1, <1>2, <1>3 DEF Next

\* Requisitions are numbered as SequentialId numbers rows, whatever else runs:
\* the retry of generatePurchaseRequisition is generateWithRetry.
THEOREM NumbersRows == Spec => ImplementsNumbering
<1>1. Init => Numbers!Init
  BY NumbersStart
<1>2. TypeInv /\ [Next]_vars => [Numbers!Next]_(Numbers!vars)
  BY NumbersNextStep DEF NumbersStep
<1> QED BY AlwaysTypeInv, <1>1, <1>2, PTL DEF Spec, ImplementsNumbering, Numbers!Spec

-----------------------------------------------------------------------------
(* SequentialId by itself: any requests for numbers of any kind of document  *)

CONSTANTS Askers, Attempts
VARIABLES ids, loop
Ids == INSTANCE SequentialId WITH Clients <- Askers, MaxAttempts <- Attempts,
                                  ids <- ids, loop <- loop

IdRequest == [pc : {"idle", "number", "insert"}, id : Nat, tries : Nat, from : Nat,
              others : Nat]

\* What a request that is trying knows: of the attempts it failed no more than
\* all were on another column, for each of the rest the table has grown by a row
\* since it came, and the number it is about to insert was free after them.
Trying(c) ==
  /\ loop[c].pc # "idle" => /\ loop[c].others <= loop[c].tries
                            /\ Len(ids) >= loop[c].from + (loop[c].tries - loop[c].others)
  /\ loop[c].pc = "insert" =>
       /\ loop[c].id \in 1..(Len(ids) + 1)
       /\ loop[c].id >= loop[c].from + (loop[c].tries - loop[c].others) + 1

NumberInv ==
  /\ ids \in Seq(Nat) /\ loop \in [Askers -> IdRequest]
  /\ Ids!GapFree
  /\ \A c \in Askers : Trying(c)

-----------------------------------------------------------------------------
\* In a table without gaps the numbers in use are those up to its length.
LEMMA UsedUpTo ==
  ASSUME ids \in Seq(Nat), Ids!GapFree
  PROVE  Ids!Used(ids) = 1..Len(ids)
BY DEF Ids!GapFree, Ids!Used

\* There the next number is one more than the rows.
LEMMA NextIsFresh ==
  ASSUME ids \in Seq(Nat), Ids!GapFree
  PROVE  Ids!nextSequentialId(ids) = Len(ids) + 1
<1> DEFINE P(m) == \A k \in Ids!Used(ids) : k <= m
           S == {0} \cup Ids!Used(ids)
<1>1. Ids!Used(ids) = 1..Len(ids) /\ Len(ids) \in Nat
  BY UsedUpTo
<1>2. Len(ids) \in S /\ P(Len(ids))
  BY <1>1
<1>3. ASSUME NEW m \in S, P(m) PROVE m = Len(ids)
  <2>1. S = 0..Len(ids)
    BY <1>1
  <2>2. CASE Len(ids) = 0
    BY <2>1, <2>2
  <2>3. CASE Len(ids) # 0
    <3>1. Len(ids) <= m
      BY <1>1, <1>3, <2>3
    <3> QED BY <1>1, <2>1, <3>1
  <2> QED BY <2>2, <2>3
<1>4. (CHOOSE m \in S : P(m)) = Len(ids)
  <2> HIDE DEF P, S
  <2> QED BY <1>2, <1>3
<1> QED BY <1>4, <1>1 DEF Ids!nextSequentialId

LEMMA IdRequestFacts ==
  ASSUME NumberInv, NEW c \in Askers
  PROVE  /\ loop[c] \in IdRequest /\ Len(ids) \in Nat
         /\ loop[c] = [pc |-> loop[c].pc, id |-> loop[c].id,
                       tries |-> loop[c].tries, from |-> loop[c].from, others |-> loop[c].others]
         /\ loop[c].others \in Nat /\ loop[c].id \in Nat /\ loop[c].tries \in Nat /\ loop[c].from \in Nat
<1>1. loop[c] \in IdRequest /\ Len(ids) \in Nat
  BY DEF NumberInv
<1> QED BY <1>1 DEF IdRequest

LEMMA NumbersBegin == Ids!Init => NumberInv
BY DEF Ids!Init, NumberInv, Ids!GapFree, Trying, Ids!Resting, IdRequest

\* A request that rests, or that nothing happened to, keeps what it knows when
\* the table only grows.
LEMMA OthersKeepTrying ==
  ASSUME NumberInv, NEW c \in Askers, loop' \in [Askers -> IdRequest], ids' \in Seq(Nat),
         Len(ids') >= Len(ids), \A d \in Askers \ {c} : loop'[d] = loop[d],
         Trying(c)'
  PROVE  \A d \in Askers : Trying(d)'
<1> TAKE d \in Askers
<1>1. CASE d = c
  BY <1>1
<1>2. CASE d # c
  BY <1>2 DEF NumberInv, Trying, IdRequest
<1> QED BY <1>1, <1>2

\* A request that starts another attempt.
LEMMA TriesOn ==
  ASSUME NumberInv, NEW c \in Askers, NEW n, n \in IdRequest, n.pc = "number",
         n.others <= n.tries, Len(ids) >= n.from + (n.tries - n.others),
         loop' = [loop EXCEPT ![c] = n], ids' = ids
  PROVE  NumberInv'
<1>1. /\ loop' \in [Askers -> IdRequest] /\ loop'[c] = n
      /\ \A d \in Askers \ {c} : loop'[d] = loop[d]
  BY DEF NumberInv
<1>2. Len(ids) \in Nat /\ ids' \in Seq(Nat)
  BY DEF NumberInv
<1>3. Trying(c)'
  BY <1>1 DEF Trying
<1>4. \A d \in Askers : Trying(d)'
  BY <1>1, <1>2, <1>3, OthersKeepTrying
<1> QED BY <1>1, <1>2, <1>4 DEF NumberInv, Ids!GapFree

\* A request after a failed attempt, on its number or on another column.
Again(r, t) == [r EXCEPT !.pc = "number", !.tries = t]
AgainElsewhere(r, t, o) == [r EXCEPT !.pc = "number", !.tries = t, !.others = o]

LEMMA AgainIs ==
  ASSUME NEW r \in IdRequest, NEW t \in Nat
  PROVE  /\ Again(r, t) \in IdRequest
         /\ Again(r, t).pc = "number" /\ Again(r, t).from = r.from
         /\ Again(r, t).tries = t /\ Again(r, t).others = r.others
BY DEF IdRequest, Again

LEMMA AgainElsewhereIs ==
  ASSUME NEW r \in IdRequest, NEW t \in Nat, NEW o \in Nat
  PROVE  /\ AgainElsewhere(r, t, o) \in IdRequest
         /\ AgainElsewhere(r, t, o).pc = "number" /\ AgainElsewhere(r, t, o).from = r.from
         /\ AgainElsewhere(r, t, o).tries = t /\ AgainElsewhere(r, t, o).others = o
BY DEF IdRequest, AgainElsewhere

LEMMA NumbersGoOn == NumberInv /\ [Ids!Next]_(Ids!vars) => NumberInv'
<1> SUFFICES ASSUME NumberInv, [Ids!Next]_(Ids!vars) PROVE NumberInv'
  OBVIOUS
<1>0. Ids!Resting \in IdRequest
  BY DEF Ids!Resting, IdRequest
<1>1. ASSUME NEW c \in Askers, Ids!Ask(c) PROVE NumberInv'
  <2>0. Len(ids) \in Nat /\ ids' = ids
    BY <1>1 DEF NumberInv, Ids!Ask
  <2>a. loop'[c] = [pc |-> "number", id |-> 0, tries |-> 0, from |-> Len(ids), others |-> 0]
    BY <1>1 DEF NumberInv, Ids!Ask, Ids!Resting
  <2>b. loop'[c] \in IdRequest
    BY <2>0, <2>a DEF IdRequest
  <2>1. loop' \in [Askers -> IdRequest] /\ Trying(c)' /\ ids' = ids
    <3>1. loop' \in [Askers -> IdRequest]
      BY <1>1, <2>b DEF NumberInv, Ids!Ask
    <3>2. Trying(c)'
      BY <2>0, <2>a DEF Trying
    <3> QED BY <2>0, <3>1, <3>2
  <2>2. \A d \in Askers : Trying(d)'
    BY <2>1, <1>1, OthersKeepTrying DEF NumberInv, Ids!Ask
  <2> QED BY <2>1, <2>2 DEF NumberInv, Ids!GapFree
<1>2. ASSUME NEW c \in Askers, Ids!NextId(c) PROVE NumberInv'
  <2>0. Ids!nextSequentialId(ids) = Len(ids) + 1 /\ Len(ids) \in Nat
    BY NextIsFresh DEF NumberInv
  <2>1. loop' \in [Askers -> IdRequest] /\ Trying(c)' /\ ids' = ids
    <3>0. /\ loop[c] \in IdRequest /\ Len(ids) \in Nat
          /\ loop[c].id \in Nat /\ loop[c].tries \in Nat /\ loop[c].from \in Nat
          /\ loop[c].others \in Nat
      BY IdRequestFacts
    <3>1. loop'[c] = [loop[c] EXCEPT !.pc = "insert", !.id = Len(ids) + 1]
      BY <1>2, <2>0 DEF NumberInv, Ids!NextId
    <3>a. loop'[c] = [pc |-> "insert", id |-> Len(ids) + 1,
                      tries |-> loop[c].tries, from |-> loop[c].from,
                      others |-> loop[c].others]
      BY <3>0, <3>1 DEF IdRequest
    <3>2. loop'[c] \in IdRequest /\ loop'[c].from = loop[c].from
          /\ loop'[c].tries = loop[c].tries /\ loop'[c].id = Len(ids) + 1
          /\ loop'[c].others = loop[c].others
      BY <2>0, <3>0, <3>a DEF IdRequest
    <3>3. /\ loop[c].others <= loop[c].tries
          /\ Len(ids) >= loop[c].from + (loop[c].tries - loop[c].others)
      BY <1>2 DEF NumberInv, Ids!NextId, Trying
    <3> QED BY <1>2, <2>0, <3>0, <3>2, <3>3 DEF NumberInv, Ids!NextId, Trying
  <2>2. \A d \in Askers : Trying(d)'
    BY <2>1, <1>2, OthersKeepTrying DEF NumberInv, Ids!NextId
  <2> QED BY <2>1, <2>2 DEF NumberInv, Ids!GapFree
<1>3. ASSUME NEW c \in Askers, Ids!Insert(c) PROVE NumberInv'
  <2>0. loop[c].id = Len(ids) + 1 /\ Len(ids) \in Nat
    <3>1. loop[c].id \in 1..(Len(ids) + 1) /\ Len(ids) \in Nat
      BY <1>3 DEF NumberInv, Ids!Insert, Trying
    <3>2. loop[c].id \notin 1..Len(ids)
      BY <1>3, UsedUpTo DEF NumberInv, Ids!Insert
    <3> QED BY <3>1, <3>2
  <2>1. ids' \in Seq(Nat) /\ Len(ids') = Len(ids) + 1 /\ Ids!GapFree'
    BY <1>3, <2>0 DEF NumberInv, Ids!Insert, Ids!GapFree
  <2>2. loop' \in [Askers -> IdRequest] /\ Trying(c)'
    BY <1>3, <1>0 DEF NumberInv, Ids!Insert, Ids!Resting, Trying
  <2>3. \A d \in Askers : Trying(d)'
    BY <2>0, <2>1, <2>2, <1>3, OthersKeepTrying DEF NumberInv, Ids!Insert
  <2> QED BY <2>1, <2>2, <2>3 DEF NumberInv
<1>4. ASSUME NEW c \in Askers, Ids!Collide(c) PROVE NumberInv'
  <2> DEFINE r == loop[c]
             t == r.tries + 1
  <2>0. PICK n : n = Again(r, t)
    OBVIOUS
  <2>1. loop' = [loop EXCEPT ![c] = n] /\ ids' = ids
    BY <1>4, <2>0 DEF NumberInv, Again, Ids!Collide
  <2>2. /\ r \in IdRequest /\ Len(ids) \in Nat
        /\ r.tries \in Nat /\ r.from \in Nat /\ r.others \in Nat
    BY IdRequestFacts
  <2>3. r.id \in 1..Len(ids) /\ r.others <= r.tries /\ r.id >= r.from + (r.tries - r.others) + 1
    BY <1>4, UsedUpTo DEF NumberInv, Ids!Collide, Trying
  <2>4. r.others <= r.tries /\ Len(ids) >= r.from + (r.tries - r.others) + 1
    BY <2>2, <2>3
  <2> HIDE DEF r
  <2>5. t \in Nat
    BY <2>2
  <2> HIDE DEF t
  <2>6. /\ n \in IdRequest /\ n.pc = "number" /\ n.from = r.from
        /\ n.tries = t /\ n.others = r.others
    BY <2>0, <2>2, <2>5, AgainIs
  <2>7. n.others <= n.tries /\ Len(ids) >= n.from + (n.tries - n.others)
    BY <2>2, <2>4, <2>6 DEF t
  <2> QED BY <2>1, <2>6, <2>7, TriesOn
<1>7. ASSUME NEW c \in Askers, Ids!CollideElsewhere(c) PROVE NumberInv'
  <2> DEFINE r == loop[c]
             t == r.tries + 1
             o == r.others + 1
  <2>0. PICK n : n = AgainElsewhere(r, t, o)
    OBVIOUS
  <2>1. loop' = [loop EXCEPT ![c] = n] /\ ids' = ids
    BY <1>7, <2>0 DEF NumberInv, AgainElsewhere, Ids!CollideElsewhere
  <2>2. /\ r \in IdRequest /\ Len(ids) \in Nat
        /\ r.tries \in Nat /\ r.from \in Nat /\ r.others \in Nat
    BY IdRequestFacts
  <2>3. r.others <= r.tries /\ Len(ids) >= r.from + (r.tries - r.others)
    BY <1>7 DEF NumberInv, Ids!CollideElsewhere, Trying
  <2> HIDE DEF r
  <2>4. t \in Nat /\ o \in Nat
    BY <2>2
  <2> HIDE DEF t, o
  <2>5. /\ n \in IdRequest /\ n.pc = "number" /\ n.from = r.from
        /\ n.tries = t /\ n.others = o
    <3>1. r \in IdRequest
      BY <2>2
    <3>2. /\ AgainElsewhere(r, t, o) \in IdRequest
          /\ AgainElsewhere(r, t, o).pc = "number" /\ AgainElsewhere(r, t, o).from = r.from
          /\ AgainElsewhere(r, t, o).tries = t /\ AgainElsewhere(r, t, o).others = o
      BY <2>4, <3>1, AgainElsewhereIs
    <3> QED BY <2>0, <3>2
  <2>6. n.others <= n.tries /\ Len(ids) >= n.from + (n.tries - n.others)
    BY <2>2, <2>3, <2>5 DEF t, o
  <2> QED BY <2>1, <2>5, <2>6, TriesOn
<1>5. ASSUME NEW c \in Askers, Ids!GiveUp(c) \/ Ids!GiveUpElsewhere(c) \/ Ids!Abandon(c)
      PROVE  NumberInv'
  <2>1. loop' \in [Askers -> IdRequest] /\ Trying(c)' /\ ids' = ids
    BY <1>5, <1>0 DEF NumberInv, Ids!GiveUp, Ids!GiveUpElsewhere, Ids!Abandon, Ids!Resting, Trying
  <2>2. \A d \in Askers : Trying(d)'
    BY <2>1, <1>5, OthersKeepTrying DEF NumberInv, Ids!GiveUp, Ids!GiveUpElsewhere, Ids!Abandon
  <2> QED BY <2>1, <2>2 DEF NumberInv, Ids!GapFree
<1>6. CASE UNCHANGED Ids!vars
  BY <1>6 DEF NumberInv, Ids!vars, Ids!GapFree, Trying
<1> QED BY <1>1, <1>2, <1>3, <1>4, <1>5, <1>6, <1>7 DEF Ids!Next

LEMMA AlwaysNumbered == Ids!Spec => []NumberInv
BY NumbersBegin, NumbersGoOn, PTL DEF Ids!Spec

-----------------------------------------------------------------------------
\* However many requests race, identifiers are given out in order, without a
\* gap and never twice.
THEOREM IdsAreGapFree == Ids!Spec => []Ids!GapFree
<1>1. NumberInv => Ids!GapFree
  BY DEF NumberInv
<1> QED BY <1>1, AlwaysNumbered, PTL

\* generateWithRetry answers 409 only to a request whose attempts all have a
\* reason: each failed on another unique column, or a row of others overtook it.
THEOREM GivingUpIsExplained ==
  ASSUME Attempts \in Nat
  PROVE  Ids!Spec => Ids!GivesUpForAReason
<1> DEFINE Explained(c) ==
      /\ Ids!GiveUp(c) => Len(ids) >= loop[c].from + (Attempts - loop[c].others)
      /\ Ids!GiveUpElsewhere(c) => Len(ids) >= loop[c].from + (Attempts - 1 - loop[c].others)
<1>1. ASSUME NumberInv, NEW c \in Askers, Ids!GiveUp(c)
      PROVE  Len(ids) >= loop[c].from + (Attempts - loop[c].others)
  <2>1. loop[c].id \in 1..Len(ids) /\ Len(ids) \in Nat
    BY <1>1, UsedUpTo DEF NumberInv, Ids!GiveUp
  <2>2. /\ loop[c].id >= loop[c].from + (loop[c].tries - loop[c].others) + 1
        /\ loop[c].tries + 1 >= Attempts
    BY <1>1 DEF NumberInv, Ids!GiveUp, Trying
  <2>3. /\ loop[c] \in IdRequest /\ Len(ids) \in Nat
        /\ loop[c].id \in Nat /\ loop[c].tries \in Nat /\ loop[c].from \in Nat
        /\ loop[c].others \in Nat
    BY <1>1, IdRequestFacts
  <2>4. loop[c].id <= Len(ids) /\ loop[c].id >= loop[c].from + (Attempts - loop[c].others)
    <3>1. loop[c].id <= Len(ids)
      BY <2>1
    <3>2. loop[c].id >= loop[c].from + (Attempts - loop[c].others)
      BY <2>2, <2>3
    <3> QED BY <3>1, <3>2
  <2> QED BY <2>3, <2>4
<1>2. ASSUME NumberInv, NEW c \in Askers, Ids!GiveUpElsewhere(c)
      PROVE  Len(ids) >= loop[c].from + (Attempts - 1 - loop[c].others)
  <2>1. /\ Len(ids) >= loop[c].from + (loop[c].tries - loop[c].others)
        /\ loop[c].tries + 1 >= Attempts
    BY <1>2 DEF NumberInv, Ids!GiveUpElsewhere, Trying
  <2>2. /\ loop[c] \in IdRequest /\ Len(ids) \in Nat
        /\ loop[c].id \in Nat /\ loop[c].tries \in Nat /\ loop[c].from \in Nat
        /\ loop[c].others \in Nat
    BY <1>2, IdRequestFacts
  <2> QED BY <2>1, <2>2
<1>3. NumberInv => [\A c \in Askers : Explained(c)]_(Ids!vars)
  BY <1>1, <1>2
<1> QED BY <1>3, AlwaysNumbered, PTL DEF Ids!GivesUpForAReason

=============================================================================
