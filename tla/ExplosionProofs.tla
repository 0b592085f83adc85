---------------------------- MODULE ExplosionProofs ----------------------------
(* What explodeBom answers and refuses, and how deep it goes, on every BOM,  *)
(* however it is linked.                                                      *)
EXTENDS Explosion, TLAPS, SequenceTheorems, FiniteSetTheorems, WellFoundedInduction

Call == [sku : Products, qty : Int, path : Seq(Products)]
Frame == [sku : Products, qty : Int, i : Nat \ {0}, path : Seq(Products)]

\* What is read is rows of BOMs, the root's among them once the walk begins.
ReadInv ==
  /\ bom \in [Products -> Seq(Rows)]
  /\ DOMAIN tree \subseteq Products /\ tree \in [DOMAIN tree -> Seq(Rows)]
  /\ frontier \subseteq Products
  /\ outcome = "fetching" => depth \in Nat /\ (depth = 0 => frontier = {Root})
  /\ outcome # "fetching" \/ depth # 0 => Root \in DOMAIN tree

WalkType ==
  /\ call \in Call /\ stack \in Seq(Frame)
  /\ call # NoCall => call.sku \in DOMAIN tree
  /\ \A k \in 1..Len(stack) : stack[k].sku \in DOMAIN tree

\* A path of n walks is that of the first n that are open.
PathOf(path, n) == Len(path) = n /\ \A j \in 1..n : path[j] = stack[j].sku

\* Each open walk knows the SKUs down to its own, and a call is given those of
\* all open walks: the path the guards look at is the recursion itself.
PathsInv ==
  /\ \A k \in 1..Len(stack) : PathOf(stack[k].path, k)
  /\ call # NoCall => PathOf(call.path, Len(stack))
  /\ outcome = "fetching" => stack = << >> /\ call = NoCall

Inv == ReadInv /\ WalkType /\ PathsInv /\ RecursionIsBounded

-----------------------------------------------------------------------------
\* A rounded product of quantities is one.
LEMMA RoundType ==
  ASSUME NEW a \in Int, NEW b \in Nat
  PROVE  round3(a * b) \in Int
<1>1. Unit \in Nat \ {0}
  BY ExplosionAssumption
<1>2. a * b \in Int
  OBVIOUS
<1>3. \A n \in Int : round3(n) \in Int
  BY <1>1 DEF round3
<1> QED BY <1>2, <1>3

LEMMA InitInv == Init => Inv
<1> SUFFICES ASSUME Init PROVE Inv
  OBVIOUS
<1> USE ExplosionAssumption
<1>1. bom \in [Products -> Seq(Rows)]
  BY DEF Init
<1>2. tree = << >> /\ DOMAIN tree = {}
  BY DEF Init
<1>3. ReadInv
  BY <1>1, <1>2 DEF Init, ReadInv
<1>4. NoCall \in Call /\ call = NoCall /\ stack = << >>
  BY DEF Init, NoCall, Call
<1>5. WalkType /\ PathsInv /\ RecursionIsBounded
  BY <1>4 DEF Init, WalkType, PathsInv, RecursionIsBounded
<1> QED BY <1>3, <1>5 DEF Inv

LEMMA FetchStep == Inv /\ FetchLevel => Inv'
<1> SUFFICES ASSUME Inv, FetchLevel PROVE Inv'
  OBVIOUS
<1> USE ExplosionAssumption DEF Inv, FetchLevel
<1>1. DOMAIN tree' = DOMAIN tree \cup frontier /\ DOMAIN tree' \subseteq Products
  BY DEF ReadInv
<1>2. tree' \in [DOMAIN tree' -> Seq(Rows)]
  BY <1>1 DEF ReadInv
<1>3. frontier' \subseteq Products
  OBVIOUS
<1>4. depth' \in Nat /\ depth' # 0
  BY DEF ReadInv
<1>5. Root \in DOMAIN tree'
  BY <1>1 DEF ReadInv
<1>6. ReadInv'
  BY <1>1, <1>2, <1>3, <1>4, <1>5 DEF ReadInv
<1>7. WalkType' /\ PathsInv' /\ RecursionIsBounded'
  BY <1>1 DEF WalkType, PathsInv, PathOf, RecursionIsBounded, NoCall
<1> QED BY <1>6, <1>7

LEMMA FetchedStep == Inv /\ Fetched => Inv'
<1> SUFFICES ASSUME Inv, Fetched PROVE Inv'
  OBVIOUS
<1> USE ExplosionAssumption DEF Inv, Fetched
<1>1. Root \in DOMAIN tree
  <2>1. CASE depth = 0
    <3>1. Root \in frontier
      BY <2>1 DEF ReadInv
    <3>2. GoesOn(depth)
      BY <2>1 DEF GoesOn
    <3> QED BY <3>1, <3>2
  <2>2. CASE depth # 0
    BY <2>2 DEF ReadInv
  <2> QED BY <2>1, <2>2
<1>2. ReadInv'
  BY <1>1 DEF ReadInv
<1>3. stack = << >> /\ stack' = << >>
  BY DEF PathsInv
<1>4. call' \in Call /\ call'.sku \in DOMAIN tree /\ call'.path = << >>
  BY <1>1 DEF Call
<1>5. WalkType' /\ PathsInv' /\ RecursionIsBounded'
  BY <1>3, <1>4 DEF WalkType, PathsInv, PathOf, RecursionIsBounded
<1> QED BY <1>2, <1>5

\* The guards look at the SKUs of all open walks, so a walk that is entered is
\* of another SKU than these, and there are fewer than MaxDepth of them.
LEMMA EnterStep == Inv /\ Enter => Inv'
<1> SUFFICES ASSUME Inv, Enter PROVE Inv'
  OBVIOUS
<1> USE ExplosionAssumption DEF Inv, Enter
<1> DEFINE n == Len(stack)
           f == [sku |-> call.sku, qty |-> call.qty, i |-> 1, path |-> nextPath(call.path, call.sku)]
<1>1. /\ call.sku \in Products /\ call.sku \in DOMAIN tree /\ call.qty \in Int
      /\ call.path \in Seq(Products) /\ Len(call.path) = n
      /\ \A j \in 1..n : call.path[j] = stack[j].sku
  BY DEF WalkType, PathsInv, PathOf, Call
<1>2. /\ f \in Frame /\ f.sku = call.sku /\ Len(f.path) = n + 1
      /\ \A j \in 1..n : f.path[j] = stack[j].sku
      /\ f.path[n + 1] = call.sku
  <2>1. nextPath(call.path, call.sku) = Append(call.path, call.sku)
    BY DEF nextPath
  <2>2. /\ f.path \in Seq(Products) /\ Len(f.path) = n + 1 /\ f.path[n + 1] = call.sku
        /\ \A j \in 1..n : f.path[j] = call.path[j]
    BY <1>1, <2>1
  <2>3. f \in Frame
    BY <1>1, <2>2 DEF Frame
  <2> QED BY <1>1, <2>2, <2>3
<1>3. /\ stack \in Seq(Frame) /\ n \in Nat /\ stack' \in Seq(Frame) /\ Len(stack') = n + 1
      /\ \A k \in 1..n : stack'[k] = stack[k]
      /\ stack'[n + 1] = f
  BY <1>2 DEF WalkType
<1> HIDE DEF f
<1>4. ReadInv'
  BY DEF ReadInv
<1>5. NoCall \in Call
  BY DEF NoCall, Call
<1>6. WalkType'
  BY <1>1, <1>2, <1>3, <1>5 DEF WalkType
<1>7. PathsInv'
  <2>1. ASSUME NEW k \in 1..(n + 1) PROVE PathOf(stack[k].path, k)'
    <3>1. CASE k = n + 1
      BY <3>1, <1>2, <1>3 DEF PathOf
    <3>2. CASE k # n + 1
      <4>1. k \in 1..n /\ stack'[k] = stack[k] /\ PathOf(stack[k].path, k)
        BY <3>2, <1>3 DEF PathsInv
      <4>2. \A j \in 1..k : stack'[j] = stack[j]
        BY <4>1, <1>3
      <4> QED BY <4>1, <4>2 DEF PathOf
    <3> QED BY <3>1, <3>2
  <2> QED BY <2>1, <1>3 DEF PathsInv
<1>8. RecursionIsBounded'
  <2>1. n + 1 <= MaxDepth
    BY <1>1, <1>3
  <2>2. \A j \in 1..n : stack[j].sku # call.sku
    BY <1>1 DEF Cyclic, On
  <2>3. \A j, k \in 1..(n + 1) : stack'[j].sku = stack'[k].sku => j = k
    <3>1. \A j, k \in 1..n : stack[j].sku = stack[k].sku => j = k
      BY <1>3 DEF RecursionIsBounded
    <3> QED BY <3>1, <2>2, <1>2, <1>3
  <2> QED BY <2>1, <2>3, <1>3 DEF RecursionIsBounded
<1> QED BY <1>4, <1>6, <1>7, <1>8

LEMMA RejectStep == Inv /\ Reject => Inv'
BY DEF Inv, Reject, ReadInv, WalkType, PathsInv, PathOf, RecursionIsBounded

\* A call made from a row is given the path of the walk that makes it, which is
\* the innermost one.
LEMMA RowStep == Inv /\ Row => Inv'
<1> SUFFICES ASSUME Inv, Row PROVE Inv'
  OBVIOUS
<1> USE ExplosionAssumption DEF Inv
<1> DEFINE n == Len(stack)
           top == stack[n]
           row == tree[top.sku][top.i]
           qty == round3(top.qty * row.qtyPerUnit)
<1>1. /\ stack \in Seq(Frame) /\ n \in Nat \ {0} /\ top \in Frame
      /\ top.sku \in DOMAIN tree
  BY DEF Row, WalkType
<1>2. /\ outcome = "walking" /\ call = NoCall /\ outcome' = outcome
      /\ top.i <= Len(tree[top.sku])
      /\ stack' = [stack EXCEPT ![n].i = @ + 1]
      /\ call' = IF row.part \in DOMAIN tree
                 THEN [sku |-> row.part, qty |-> qty, path |-> top.path] ELSE NoCall
      /\ UNCHANGED <<bom, tree, frontier, depth>>
  BY DEF Row
<1>3. /\ stack' \in Seq(Frame) /\ Len(stack') = n
      /\ \A k \in 1..n : stack'[k].sku = stack[k].sku /\ stack'[k].path = stack[k].path
  <2>1. top.i + 1 \in Nat \ {0} /\ n \in DOMAIN stack
    BY <1>1 DEF Frame
  <2>2. stack' = [stack EXCEPT ![n] = [top EXCEPT !.i = top.i + 1]]
    BY <1>1, <1>2, <2>1
  <2>3. [top EXCEPT !.i = top.i + 1] \in Frame
    BY <1>1, <2>1 DEF Frame
  <2>4. /\ [top EXCEPT !.i = top.i + 1].sku = top.sku
        /\ [top EXCEPT !.i = top.i + 1].path = top.path
    BY <1>1 DEF Frame
  <2>5. stack' \in Seq(Frame) /\ Len(stack') = n
    BY <1>1, <2>2, <2>3
  <2> QED BY <1>1, <2>2, <2>4, <2>5
<1>4. ReadInv'
  BY <1>2 DEF ReadInv
<1>5. call' \in Call /\ (call' # NoCall => call'.sku \in DOMAIN tree /\ call'.path = top.path)
  <2>1. row \in Rows
    <3>1. tree[top.sku] \in Seq(Rows) /\ top.i \in 1..Len(tree[top.sku])
      BY <1>1, <1>2 DEF ReadInv, Frame
    <3> QED BY <3>1
  <2>2. top.qty \in Int /\ row.qtyPerUnit \in Nat
    BY <1>1, <2>1 DEF Frame
  <2>3. qty \in Int
    BY <2>2, RoundType
  <2>4. CASE row.part \in DOMAIN tree
    <3>1. row.part \in Products /\ top.path \in Seq(Products)
      BY <1>1, <2>4 DEF ReadInv, Frame
    <3> HIDE DEF row, qty, top
    <3> QED BY <1>2, <2>3, <2>4, <3>1 DEF Call
  <2>5. CASE row.part \notin DOMAIN tree
    BY <1>2, <2>5 DEF NoCall, Call
  <2> QED BY <2>4, <2>5
<1>6. WalkType'
  BY <1>1, <1>2, <1>3, <1>5 DEF WalkType
<1>7. PathsInv'
  <2>1. \A path, k : k \in 0..n => (PathOf(path, k)' <=> PathOf(path, k))
    BY <1>1, <1>3 DEF PathOf
  <2>2. PathOf(top.path, n)
    BY <1>1 DEF PathsInv
  <2> QED BY <2>1, <2>2, <1>1, <1>2, <1>3, <1>5 DEF PathsInv
<1>8. RecursionIsBounded'
  BY <1>1, <1>3 DEF RecursionIsBounded
<1> QED BY <1>4, <1>6, <1>7, <1>8

LEMMA ReturnStep == Inv /\ Return => Inv'
<1> SUFFICES ASSUME Inv, Return PROVE Inv'
  OBVIOUS
<1> USE ExplosionAssumption DEF Inv
<1> DEFINE n == Len(stack)
<1>1. /\ stack \in Seq(Frame) /\ n \in Nat \ {0}
      /\ outcome = "walking" /\ outcome' # "fetching" /\ call = NoCall
      /\ stack' = SubSeq(stack, 1, n - 1)
      /\ UNCHANGED <<bom, tree, frontier, depth, call>>
  BY DEF Return, WalkType
<1>2. /\ stack' \in Seq(Frame) /\ Len(stack') = n - 1
      /\ \A k \in 1..(n - 1) : stack'[k] = stack[k]
  <2> DEFINE m == n - 1
  <2>1. m \in Nat /\ m \in Int /\ 1 \in Int /\ \A k \in 1..m : stack[k] \in Frame
    BY <1>1
  <2> HIDE DEF m
  <2>2. /\ SubSeq(stack, 1, m) \in Seq(Frame)
        /\ Len(SubSeq(stack, 1, m)) = IF 1 <= m THEN m - 1 + 1 ELSE 0
        /\ \A k \in 1..(m - 1 + 1) : SubSeq(stack, 1, m)[k] = stack[1 + k - 1]
    BY <2>1, SubSeqProperties
  <2>3. Len(SubSeq(stack, 1, m)) = m /\ \A k \in 1..m : SubSeq(stack, 1, m)[k] = stack[k]
    BY <2>1, <2>2
  <2> QED BY <1>1, <2>2, <2>3 DEF m
<1>3. ReadInv' /\ WalkType'
  BY <1>1, <1>2 DEF ReadInv, WalkType, NoCall
<1>4. PathsInv'
  BY <1>1, <1>2 DEF PathsInv, PathOf, NoCall
<1>5. RecursionIsBounded'
  BY <1>1, <1>2 DEF RecursionIsBounded
<1> QED BY <1>3, <1>4, <1>5

LEMMA InvNext == Inv /\ [Next]_vars => Inv'
<1> SUFFICES ASSUME Inv, [Next]_vars PROVE Inv'
  OBVIOUS
<1>1. CASE UNCHANGED vars
  BY <1>1 DEF vars, Inv, ReadInv, WalkType, PathsInv, PathOf, RecursionIsBounded
<1>2. CASE Next
  BY <1>2, FetchStep, FetchedStep, EnterStep, RejectStep, RowStep, ReturnStep DEF Next
<1> QED BY <1>1, <1>2

\* The guards of explodeBom bound its recursion on every BOM: at most MaxDepth
\* walks are open, no two of one SKU, for any products, rows and quantities.
THEOREM RecursionBounded == Spec => []RecursionIsBounded
<1>1. Inv => RecursionIsBounded
  BY DEF Inv
<1> QED BY InitInv, InvNext, <1>1, PTL DEF Spec

-----------------------------------------------------------------------------
(* Chains of parts *)

\* Every set of natural numbers that has an element has a least one, and Min
\* is it.
LEMMA MinIsLeast ==
  ASSUME NEW S \in SUBSET Nat, S # {}
  PROVE  Min(S) \in S /\ \A k \in S : Min(S) <= k
<1> DEFINE R == OpToRel(<, Nat)
<1>1. IsWellFoundedOn(R, Nat)
  BY NatLessThanWellFounded
<1>2. \A x, y \in Nat : x < y => <<x, y>> \in R
  BY DEF OpToRel
<1> HIDE DEF R
<1>3. PICK m \in S : \A k \in S : ~ (<<k, m>> \in R)
  BY <1>1, WFMin
<1>4. ASSUME NEW k \in S PROVE m <= k
  <2>1. ~(k < m)
    BY <1>2, <1>3
  <2>2. k \in Nat /\ m \in Nat
    OBVIOUS
  <2> QED BY <2>1, <2>2
<1>5. m \in S /\ \A k \in S : m =< k
  BY <1>4
<1> QED BY <1>5 DEF Min


\* A row with part t is among those of s in the BOM b.
IsPart(b, s, t) == \E i \in DOMAIN b[s] : b[s][i].part = t

\* A part of one of the SKUs is among their parts.
LEMMA PartIn ==
  ASSUME NEW S, NEW s \in S, NEW t, bom[s] \in Seq(Rows), IsPart(bom, s, t)
  PROVE  t \in PartsOf(S)
<1>1. PICK i \in DOMAIN bom[s] : bom[s][i].part = t
  BY DEF IsPart
<1>2. bom[s][i] \in On(bom[s])
  BY DEF On
<1>3. bom[s][i] \in UNION {On(bom[x]) : x \in S}
  BY <1>2
<1> QED BY <1>1, <1>3 DEF PartsOf

\* The recursive definition of Below(s, n): what m parts lead to, for m up to n.
IsBelow(g, s, n) ==
  /\ DOMAIN g = 0..n /\ g[0] = {s}
  /\ \A m \in 1..n : g[m] = PartsOf(g[m - 1]) \cap Products

\* It has a solution: of the n without one there would be a least one.
LEMMA BelowExists ==
  ASSUME NEW s, NEW n \in Nat
  PROVE  \E g : IsBelow(g, s, n)
<1> DEFINE Has(k) == \E g : IsBelow(g, s, k)
           Bad == {k \in Nat : ~Has(k)}
<1>1. SUFFICES ASSUME ~Has(n) PROVE FALSE
  OBVIOUS
<1>2. Bad \in SUBSET Nat /\ Bad # {}
  <2> HIDE DEF Has
  <2> QED BY <1>1
<1>3. Min(Bad) \in Bad /\ \A k \in Bad : Min(Bad) <= k
  <2> HIDE DEF Bad
  <2> QED BY <1>2, MinIsLeast
<1> DEFINE m == Min(Bad)
<1>4. m \in Nat /\ ~Has(m) /\ \A k \in Bad : m <= k
  <2> HIDE DEF Has
  <2> QED BY <1>3
<1> HIDE DEF m
<1>5. CASE m = 0
  <2> DEFINE g == [i \in 0..0 |-> {s}]
  <2>1. DOMAIN g = 0..0 /\ g[0] = {s}
    OBVIOUS
  <2>2. IsBelow(g, s, 0)
    <3> HIDE DEF g
    <3> QED BY <2>1 DEF IsBelow
  <2> QED BY <1>4, <1>5, <2>2
<1>6. CASE m # 0
  <2>1. m - 1 \in Nat /\ m - 1 < m
    BY <1>4, <1>6
  <2>2. m - 1 \notin Bad
    <3> HIDE DEF Bad
    <3> QED BY <1>4, <2>1
  <2>3. Has(m - 1)
    <3> HIDE DEF Has
    <3> QED BY <2>1, <2>2
  <2>4. PICK h : IsBelow(h, s, m - 1)
    BY <2>3
  <2> DEFINE g == [i \in 0..m |-> IF i < m THEN h[i] ELSE PartsOf(h[m - 1]) \cap Products]
  <2>5. /\ DOMAIN g = 0..m /\ g[m] = PartsOf(h[m - 1]) \cap Products
        /\ \A i \in 0..(m - 1) : g[i] = h[i]
    BY <1>4, <1>6
  <2> HIDE DEF g
  <2>6. g[0] = {s}
    BY <2>1, <2>4, <2>5 DEF IsBelow
  <2>7. ASSUME NEW i \in 1..m PROVE g[i] = PartsOf(g[i - 1]) \cap Products
    <3>1. CASE i = m
      <4>1. g[m - 1] = h[m - 1]
        BY <2>1, <2>5
      <4> QED BY <2>5, <3>1, <4>1
    <3>2. CASE i # m
      <4>1. i \in 1..(m - 1) /\ i \in 0..(m - 1) /\ i - 1 \in 0..(m - 1)
        BY <1>4, <3>2
      <4>2. h[i] = PartsOf(h[i - 1]) \cap Products
        BY <2>4, <4>1 DEF IsBelow
      <4> QED BY <2>5, <4>1, <4>2
    <3> QED BY <3>1, <3>2
  <2>8. IsBelow(g, s, m)
    BY <2>5, <2>6, <2>7 DEF IsBelow
  <2> QED BY <1>4, <2>8
<1> QED BY <1>5, <1>6

\* So Below(s, n) is the last value of one.
LEMMA BelowUnfolds ==
  ASSUME NEW s, NEW n \in Nat
  PROVE  \E g : IsBelow(g, s, n) /\ Below(s, n) = g[n]
<1> DEFINE Solves(f) == f = [i \in 0..n |-> IF i = 0 THEN {s} ELSE PartsOf(f[i - 1]) \cap Products]
           f == CHOOSE f : Solves(f)
<1>1. Below(s, n) = f[n]
  BY DEF Below
<1>2. PICK h : IsBelow(h, s, n)
  BY BelowExists
<1> DEFINE g == [i \in 0..n |-> h[i]]
<1>3. Solves(g)
  <2>1. ASSUME NEW i \in 0..n
        PROVE  g[i] = IF i = 0 THEN {s} ELSE PartsOf(g[i - 1]) \cap Products
    <3>1. CASE i = 0
      BY <1>2, <3>1 DEF IsBelow
    <3>2. CASE i # 0
      <4>1. i \in 1..n /\ i - 1 \in 0..n
        BY <3>2
      <4>2. h[i] = PartsOf(h[i - 1]) \cap Products
        BY <1>2, <4>1 DEF IsBelow
      <4>3. g[i] = h[i] /\ g[i - 1] = h[i - 1]
        BY <4>1
      <4> QED BY <3>2, <4>2, <4>3
    <3> QED BY <3>1, <3>2
  <2> QED BY <2>1
<1>4. Solves(f)
  <2> HIDE DEF Solves, g
  <2> QED BY <1>3
<1>5. f = [i \in 0..n |-> IF i = 0 THEN {s} ELSE PartsOf(f[i - 1]) \cap Products]
  BY <1>4
<1> HIDE DEF f
<1>6. /\ DOMAIN f = 0..n
      /\ \A i \in 0..n : f[i] = IF i = 0 THEN {s} ELSE PartsOf(f[i - 1]) \cap Products
  BY <1>5
<1>7. f[0] = {s}
  BY <1>6
<1>8. ASSUME NEW i \in 1..n PROVE f[i] = PartsOf(f[i - 1]) \cap Products
  <2>1. i \in 0..n /\ i # 0
    OBVIOUS
  <2> QED BY <1>6, <2>1
<1>9. IsBelow(f, s, n)
  BY <1>6, <1>7, <1>8 DEF IsBelow
<1> QED BY <1>1, <1>9

\* What a chain of n parts leads to is below its first SKU.
LEMMA ChainIsBelow ==
  ASSUME NEW n \in Nat, NEW c, bom \in [Products -> Seq(Rows)],
         \A m \in 0..n : c[m] \in Products,
         \A m \in 1..n : IsPart(bom, c[m - 1], c[m])
  PROVE  c[n] \in Below(c[0], n)
<1>1. PICK g : IsBelow(g, c[0], n) /\ Below(c[0], n) = g[n]
  BY BelowUnfolds
<1> DEFINE Bad == {m \in 0..n : c[m] \notin g[m]}
<1>2. CASE Bad = {}
  <2>1. n \in 0..n
    OBVIOUS
  <2> QED BY <1>1, <1>2, <2>1
<1>3. CASE Bad # {}
  <2>1. Bad \in SUBSET Nat
    OBVIOUS
  <2>2. Min(Bad) \in Bad /\ \A k \in Bad : Min(Bad) <= k
    <3> HIDE DEF Bad
    <3> QED BY <1>3, <2>1, MinIsLeast
  <2> DEFINE m == Min(Bad)
  <2>3. m \in 0..n /\ c[m] \notin g[m] /\ \A k \in Bad : m <= k
    BY <2>2
  <2> HIDE DEF m
  <2>4. m # 0
    BY <1>1, <2>3 DEF IsBelow
  <2>5. m \in 1..n /\ m - 1 \in 0..n /\ m - 1 < m
    BY <2>3, <2>4
  <2>6. m - 1 \notin Bad
    <3> HIDE DEF Bad
    <3> QED BY <2>3, <2>5
  <2>7. c[m - 1] \in g[m - 1] /\ c[m] \in Products /\ bom[c[m - 1]] \in Seq(Rows)
        /\ IsPart(bom, c[m - 1], c[m])
    BY <2>5, <2>6
  <2>8. c[m] \in PartsOf(g[m - 1])
    BY <2>7, PartIn
  <2>9. g[m] = PartsOf(g[m - 1]) \cap Products
    BY <1>1, <2>5 DEF IsBelow
  <2> QED BY <2>3, <2>7, <2>8, <2>9
<1> QED BY <1>2, <1>3

-----------------------------------------------------------------------------
(* What links the open walks *)

\* Walk f is in a row that leads to g, a walk or a call.
Leads(b, f, g) ==
  /\ f.i - 1 \in DOMAIN b[f.sku]
  /\ b[f.sku][f.i - 1].part = g.sku
  /\ g.qty = round3(f.qty * b[f.sku][f.i - 1].qtyPerUnit)

\* The open walks are a chain of rows from the root, to the call if there is one.
Chained(b, st, c) ==
  /\ \A k \in 1..Len(st) : st[k].qty \in Nat
  /\ Len(st) > 0 => st[1].sku = Root /\ st[1].qty = Qty
  /\ \A k \in 1..(Len(st) - 1) : Leads(b, st[k], st[k + 1])
  /\ c # NoCall => /\ c.qty \in Nat
                   /\ Len(st) = 0 => c.sku = Root /\ c.qty = Qty
                   /\ Len(st) > 0 => Leads(b, st[Len(st)], c)

\* A call that was refused is still there.
Refused ==
  /\ outcome \in {"cycle", "too deep"} => call # NoCall
  /\ outcome = "cycle" => Cyclic(call.sku, call.path)
  /\ outcome = "too deep" => Len(call.path) >= MaxDepth

Links == (\A s \in DOMAIN tree : tree[s] = bom[s]) /\ Chained(bom, stack, call) /\ Refused

\* A rounded product of natural quantities is one.
LEMMA RoundNat ==
  ASSUME NEW a \in Nat, NEW b \in Nat
  PROVE  round3(a * b) \in Nat
<1>1. Unit \in Nat \ {0}
  BY ExplosionAssumption
<1>2. a * b \in Nat
  OBVIOUS
<1>3. \A n \in Nat : round3(n) \in Nat
  BY <1>1 DEF round3
<1> QED BY <1>2, <1>3

\* What a step of the walk does to the stack: one walk more,
LEMMA EnterShape ==
  ASSUME Inv, Enter
  PROVE  /\ Len(stack) \in Nat /\ Len(stack') = Len(stack) + 1
         /\ \A k \in 1..Len(stack) : stack'[k] = stack[k]
         /\ stack'[Len(stack) + 1].sku = call.sku /\ stack'[Len(stack) + 1].qty = call.qty
         /\ stack'[Len(stack) + 1].i = 1
         /\ call # NoCall /\ call' = NoCall /\ Len(stack) < MaxDepth
         /\ outcome = "walking" /\ UNCHANGED <<bom, tree, frontier, depth, lines, outcome>>
<1>1. stack \in Seq(Frame) /\ PathOf(call.path, Len(stack))
  BY DEF Inv, WalkType, PathsInv, Enter
<1>2. Len(call.path) = Len(stack)
  BY <1>1 DEF PathOf
<1> QED BY <1>1, <1>2 DEF Enter

\* the innermost walk one row further, with a call if the part has been read,
LEMMA RowShape ==
  ASSUME Inv, Links, Row
  PROVE  LET n == Len(stack)
             row == bom[stack[n].sku][stack[n].i]
             qty == round3(stack[n].qty * row.qtyPerUnit) IN
         /\ n \in Nat \ {0} /\ stack[n] \in Frame /\ stack[n].sku \in DOMAIN tree
         /\ stack[n].i \in DOMAIN bom[stack[n].sku] /\ row \in Rows /\ qty \in Nat
         /\ Len(stack') = n
         /\ \A k \in 1..n : stack'[k].sku = stack[k].sku /\ stack'[k].qty = stack[k].qty
         /\ \A k \in 1..(n - 1) : stack'[k] = stack[k]
         /\ stack'[n].i = stack[n].i + 1
         /\ row.part \in DOMAIN tree => call' # NoCall /\ call'.sku = row.part /\ call'.qty = qty
         /\ row.part \notin DOMAIN tree => call' = NoCall
         /\ lines' = Aggregated(row, qty, stack[n].sku, n - 1)
         /\ call = NoCall /\ outcome = "walking" /\ UNCHANGED <<bom, tree, frontier, depth, outcome>>
<1> DEFINE n == Len(stack)
           top == stack[n]
           row == bom[top.sku][top.i]
           qty == round3(top.qty * row.qtyPerUnit)
<1>1. /\ stack \in Seq(Frame) /\ n \in Nat \ {0} /\ top \in Frame
      /\ top.sku \in DOMAIN tree /\ tree[top.sku] = bom[top.sku]
  BY DEF Row, Inv, WalkType, Links
<1>2. /\ outcome = "walking" /\ call = NoCall
      /\ top.i <= Len(bom[top.sku])
      /\ stack' = [stack EXCEPT ![n].i = @ + 1]
      /\ call' = IF row.part \in DOMAIN tree
                 THEN [sku |-> row.part, qty |-> qty, path |-> top.path] ELSE NoCall
      /\ lines' = Aggregated(row, qty, top.sku, n - 1)
      /\ UNCHANGED <<bom, tree, frontier, depth, outcome>>
  BY <1>1 DEF Row
<1>3. bom[top.sku] \in Seq(Rows) /\ top.i \in DOMAIN bom[top.sku] /\ row \in Rows
  <2>1. bom[top.sku] \in Seq(Rows)
    BY <1>1 DEF Inv, ReadInv
  <2>2. top.i \in 1..Len(bom[top.sku])
    BY <1>1, <1>2, <2>1 DEF Frame
  <2> QED BY <2>1, <2>2
<1>4. qty \in Nat
  <2>1. top.qty \in Nat /\ row.qtyPerUnit \in Nat
    BY <1>1, <1>3, ExplosionAssumption DEF Links, Chained
  <2> QED BY <2>1, RoundNat
<1>5. /\ Len(stack') = n
      /\ \A k \in 1..n : stack'[k].sku = stack[k].sku /\ stack'[k].qty = stack[k].qty
      /\ \A k \in 1..(n - 1) : stack'[k] = stack[k]
      /\ stack'[n].i = top.i + 1
  <2>1. top.i + 1 \in Nat \ {0} /\ n \in DOMAIN stack
    BY <1>1 DEF Frame
  <2>2. PICK f : f = [top EXCEPT !.i = top.i + 1]
    OBVIOUS
  <2>3. f.sku = top.sku /\ f.qty = top.qty /\ f.i = top.i + 1
    BY <1>1, <2>2 DEF Frame
  <2>4. stack' = [stack EXCEPT ![n] = f]
    BY <1>1, <1>2, <2>1, <2>2
  <2>5. Len(stack') = n /\ stack'[n] = f /\ \A k \in 1..(n - 1) : stack'[k] = stack[k]
    BY <1>1, <2>1, <2>4
  <2>6. ASSUME NEW k \in 1..n PROVE stack'[k].sku = stack[k].sku /\ stack'[k].qty = stack[k].qty
    <3>1. k = n \/ k \in 1..(n - 1)
      BY <1>1
    <3> QED BY <2>3, <2>5, <3>1
  <2> QED BY <2>3, <2>5, <2>6
<1>6. row.part \in DOMAIN tree => call' # NoCall /\ call'.sku = row.part /\ call'.qty = qty
  <2> SUFFICES ASSUME row.part \in DOMAIN tree PROVE call' # NoCall /\ call'.sku = row.part /\ call'.qty = qty
    OBVIOUS
  <2>1. call' = [sku |-> row.part, qty |-> qty, path |-> top.path]
    BY <1>2
  <2>2. NoCall.qty = -1
    BY DEF NoCall
  <2> HIDE DEF qty, row, top
  <2>3. call'.sku = row.part /\ call'.qty = qty
    BY <2>1
  <2> QED BY <1>4, <2>2, <2>3
<1> QED BY <1>1, <1>2, <1>3, <1>4, <1>5, <1>6

\* or one walk less.
LEMMA ReturnShape ==
  ASSUME Inv, Links, Return
  PROVE  /\ Len(stack) \in Nat \ {0} /\ stack \in Seq(Frame) /\ stack[Len(stack)].sku \in DOMAIN tree
         /\ stack[Len(stack)].i > Len(bom[stack[Len(stack)].sku])
         /\ Len(stack') = Len(stack) - 1
         /\ \A k \in 1..(Len(stack) - 1) : stack'[k] = stack[k]
         /\ call = NoCall /\ call' = NoCall /\ outcome = "walking"
         /\ outcome' = IF Len(stack) = 1 THEN "done" ELSE outcome
         /\ UNCHANGED <<bom, tree, frontier, depth, lines>>
<1> DEFINE n == Len(stack)
           m == n - 1
<1>1. /\ stack \in Seq(Frame) /\ n \in Nat \ {0} /\ stack[n].sku \in DOMAIN tree
      /\ tree[stack[n].sku] = bom[stack[n].sku]
      /\ outcome = "walking" /\ call = NoCall
      /\ stack' = SubSeq(stack, 1, m)
  BY DEF Return, Inv, WalkType, Links
<1>2. m \in Nat /\ m \in Int /\ 1 \in Int /\ \A k \in 1..m : stack[k] \in Frame
  BY <1>1
<1>3. Len(stack') = m /\ \A k \in 1..m : stack'[k] = stack[k]
  <2> HIDE DEF m
  <2>1. /\ Len(SubSeq(stack, 1, m)) = IF 1 <= m THEN m - 1 + 1 ELSE 0
        /\ \A k \in 1..(m - 1 + 1) : SubSeq(stack, 1, m)[k] = stack[1 + k - 1]
    BY <1>2, SubSeqProperties
  <2> QED BY <1>1, <1>2, <2>1
<1> QED BY <1>1, <1>3 DEF Return

\* The walks stay chained: a call names the part of the row it is made from, and a
\* walk that is entered is that call.
LEMMA LinksInit == Init => Links
<1> SUFFICES ASSUME Init PROVE Links
  OBVIOUS
<1>1. DOMAIN tree = {} /\ Len(stack) = 0 /\ call = NoCall /\ outcome = "fetching"
  BY DEF Init
<1> QED BY <1>1 DEF Links, Chained, Refused

LEMMA LinksFetch == ASSUME Inv, Links, FetchLevel \/ Fetched PROVE Links'
<1>1. CASE FetchLevel
  <2>1. \A s \in DOMAIN tree' : tree'[s] = bom'[s]
    BY <1>1 DEF FetchLevel
  <2>2. Chained(bom, stack, call)' /\ Refused'
    BY <1>1 DEF FetchLevel, Links, Chained, Refused
  <2> QED BY <2>1, <2>2 DEF Links
<1>2. CASE Fetched
  <2>1. stack' = << >> /\ Len(stack') = 0
    BY <1>2 DEF Fetched, Inv, PathsInv
  <2>2. call' = [sku |-> Root, qty |-> Qty, path |-> << >>] /\ Qty \in Nat
        /\ outcome' = "walking" /\ UNCHANGED <<bom, tree>>
    BY <1>2, ExplosionAssumption DEF Fetched
  <2>3. Chained(bom, stack, call)'
    BY <2>1, <2>2 DEF Chained
  <2>4. Refused'
    BY <2>2 DEF Refused
  <2> QED BY <2>2, <2>3, <2>4 DEF Links
<1> QED BY <1>1, <1>2

LEMMA LinksEnter == ASSUME Inv, Links, Enter PROVE Links'
<1> DEFINE n == Len(stack)
<1>1. /\ n \in Nat /\ Len(stack') = n + 1
      /\ \A k \in 1..n : stack'[k] = stack[k]
      /\ stack'[n + 1].sku = call.sku /\ stack'[n + 1].qty = call.qty
      /\ call # NoCall /\ call' = NoCall /\ outcome' = "walking"
      /\ UNCHANGED <<bom, tree>>
  BY EnterShape
<1>2. Chained(bom, stack, call)
  BY DEF Links
<1>3. \A k \in 1..(n + 1) : stack'[k].qty \in Nat
  BY <1>1, <1>2 DEF Chained
<1>4. stack'[1].sku = Root /\ stack'[1].qty = Qty
  BY <1>1, <1>2 DEF Chained
<1>5. ASSUME NEW k \in 1..n PROVE Leads(bom, stack'[k], stack'[k + 1])
  <2>1. CASE k = n
    BY <2>1, <1>1, <1>2 DEF Chained, Leads
  <2>2. CASE k # n
    <3>1. k \in 1..(n - 1) /\ k + 1 \in 1..n /\ k \in 1..n
      BY <1>1, <2>2
    <3>2. Leads(bom, stack[k], stack[k + 1])
      BY <1>2, <3>1 DEF Chained
    <3> QED BY <1>1, <3>1, <3>2
  <2> QED BY <2>1, <2>2
<1>6. Chained(bom, stack, call)'
  <2> HIDE DEF n
  <2> QED BY <1>1, <1>3, <1>4, <1>5 DEF Chained
<1> QED BY <1>1, <1>6 DEF Links, Refused

LEMMA LinksRow == ASSUME Inv, Links, Row PROVE Links'
<1> DEFINE n == Len(stack)
           row == bom[stack[n].sku][stack[n].i]
           qty == round3(stack[n].qty * row.qtyPerUnit)
<1>1. /\ n \in Nat \ {0} /\ stack[n] \in Frame /\ qty \in Nat
      /\ stack[n].i \in DOMAIN bom[stack[n].sku]
      /\ Len(stack') = n
      /\ \A k \in 1..n : stack'[k].sku = stack[k].sku /\ stack'[k].qty = stack[k].qty
      /\ \A k \in 1..(n - 1) : stack'[k] = stack[k]
      /\ stack'[n].i = stack[n].i + 1
      /\ row.part \in DOMAIN tree => call' # NoCall /\ call'.sku = row.part /\ call'.qty = qty
      /\ row.part \notin DOMAIN tree => call' = NoCall
      /\ outcome' = "walking" /\ UNCHANGED <<bom, tree>>
  BY RowShape
<1>2. Chained(bom, stack, call)
  BY DEF Links
<1>3. \A k \in 1..n : stack'[k].qty \in Nat
  BY <1>1, <1>2 DEF Chained
<1>4. stack'[1].sku = Root /\ stack'[1].qty = Qty
  BY <1>1, <1>2 DEF Chained
<1>5. ASSUME NEW k \in 1..(n - 1) PROVE Leads(bom, stack'[k], stack'[k + 1])
  <2>1. Leads(bom, stack[k], stack[k + 1])
    BY <1>2 DEF Chained
  <2>2. stack'[k] = stack[k] /\ k + 1 \in 1..n
    BY <1>1
  <2>3. stack'[k + 1].sku = stack[k + 1].sku /\ stack'[k + 1].qty = stack[k + 1].qty
    BY <1>1, <2>2
  <2> QED BY <2>1, <2>2, <2>3 DEF Leads
<1>6. call' # NoCall => call'.qty \in Nat /\ Leads(bom, stack'[n], call')
  <2> SUFFICES ASSUME call' # NoCall PROVE call'.qty \in Nat /\ Leads(bom, stack'[n], call')
    OBVIOUS
  <2>1. call'.sku = row.part /\ call'.qty = qty
    BY <1>1
  <2>2. stack'[n].i - 1 = stack[n].i
    BY <1>1 DEF Frame
  <2>3. n \in 1..n
    BY <1>1
  <2>4. stack'[n].sku = stack[n].sku /\ stack'[n].qty = stack[n].qty
    BY <1>1, <2>3
  <2> QED BY <1>1, <2>1, <2>2, <2>4 DEF Leads
<1>7. Chained(bom, stack, call)'
  <2> HIDE DEF n, row, qty
  <2> QED BY <1>1, <1>3, <1>4, <1>5, <1>6 DEF Chained
<1> QED BY <1>1, <1>7 DEF Links, Refused

LEMMA LinksReturn == ASSUME Inv, Links, Return PROVE Links'
<1> DEFINE n == Len(stack)
<1>1. /\ n \in Nat \ {0} /\ Len(stack') = n - 1
      /\ \A k \in 1..(n - 1) : stack'[k] = stack[k]
      /\ call' = NoCall /\ outcome' \in {"walking", "done"}
      /\ UNCHANGED <<bom, tree>>
  BY ReturnShape
<1>2. Chained(bom, stack, call)
  BY DEF Links
<1>3. Chained(bom, stack, call)'
  <2>1. \A k \in 1..(n - 2) : Leads(bom, stack'[k], stack'[k + 1])
    BY <1>1, <1>2 DEF Chained
  <2> QED BY <1>1, <1>2, <2>1 DEF Chained
<1> QED BY <1>1, <1>3 DEF Links, Refused

LEMMA LinksNext == Inv /\ Links /\ [Next]_vars => Links'
<1> SUFFICES ASSUME Inv, Links, [Next]_vars PROVE Links'
  OBVIOUS
<1>1. CASE UNCHANGED vars
  BY <1>1 DEF vars, Links, Chained, Refused
<1>2. CASE Reject
  <2>1. call # NoCall /\ UNCHANGED <<bom, tree, call, stack>>
    BY <1>2 DEF Reject
  <2>2. Refused'
    BY <1>2, <2>1 DEF Reject, Refused, Cyclic
  <2> QED BY <2>1, <2>2 DEF Links, Chained
<1>3. CASE Next /\ ~Reject
  BY <1>3, LinksFetch, LinksEnter, LinksRow, LinksReturn DEF Next
<1> QED BY <1>1, <1>2, <1>3

-----------------------------------------------------------------------------
(* What is refused *)

\* The part that a row in use leads to.
LEMMA LeadsToPart ==
  ASSUME NEW f, NEW g, Leads(bom, f, g)
  PROVE  IsPart(bom, f.sku, g.sku)
BY DEF Leads, IsPart

\* The SKUs of the open walks and of the call: each one a part of the one before.
LEMMA OpenChain ==
  ASSUME Inv, Links, call # NoCall
  PROVE  LET n == Len(stack)
             c == [k \in 1..(n + 1) |-> IF k = n + 1 THEN call.sku ELSE stack[k].sku] IN
         /\ n \in Nat /\ c[1] = Root
         /\ \A k \in 1..(n + 1) : c[k] \in Products
         /\ \A k \in 1..n : IsPart(bom, c[k], c[k + 1])
<1> DEFINE n == Len(stack)
           c == [k \in 1..(n + 1) |-> IF k = n + 1 THEN call.sku ELSE stack[k].sku]
<1>1. stack \in Seq(Frame) /\ n \in Nat /\ call \in Call /\ Chained(bom, stack, call)
  BY DEF Inv, WalkType, Links
<1>2. \A k \in 1..n : stack[k] \in Frame /\ stack[k].sku \in Products
  <2>1. \A k \in 1..n : stack[k] \in Frame
    BY <1>1
  <2> QED BY <2>1 DEF Frame
<1>3. c[n + 1] = call.sku /\ \A k \in 1..n : c[k] = stack[k].sku
  BY <1>1
<1> HIDE DEF c
<1>4. c[1] = Root
  BY <1>1, <1>3 DEF Chained
<1>5. \A k \in 1..(n + 1) : c[k] \in Products
  BY <1>1, <1>2, <1>3 DEF Call
<1>6. ASSUME NEW k \in 1..n PROVE IsPart(bom, c[k], c[k + 1])
  <2>1. CASE k = n
    <3>1. Leads(bom, stack[n], call)
      BY <1>1, <2>1 DEF Chained
    <3> QED BY <1>3, <2>1, <3>1, LeadsToPart
  <2>2. CASE k # n
    <3>1. k \in 1..(n - 1) /\ k + 1 \in 1..n
      BY <1>1, <2>2
    <3>2. Leads(bom, stack[k], stack[k + 1])
      BY <1>1, <3>1 DEF Chained
    <3> QED BY <1>3, <3>1, <3>2, LeadsToPart
  <2> QED BY <2>1, <2>2
<1> QED BY <1>1, <1>4, <1>5, <1>6 DEF c

\* A part of such a chain.
LEMMA Within ==
  ASSUME NEW e \in Nat, NEW c, NEW i \in 1..e, NEW j \in i..e, bom \in [Products -> Seq(Rows)],
         \A k \in 1..e : c[k] \in Products,
         \A k \in 1..(e - 1) : IsPart(bom, c[k], c[k + 1])
  PROVE  \A m : m = j - i => c[j] \in Below(c[i], m)
<1> DEFINE d == [m \in 0..(j - i) |-> c[i + m]]
<1>1. j - i \in Nat
  OBVIOUS
<1>2. d[0] = c[i] /\ d[j - i] = c[j]
  OBVIOUS
<1>3. \A m \in 0..(j - i) : d[m] \in Products
  OBVIOUS
<1>4. ASSUME NEW m \in 1..(j - i) PROVE IsPart(bom, d[m - 1], d[m])
  <2>1. i + m - 1 \in 1..(e - 1) /\ m - 1 \in 0..(j - i) /\ m \in 0..(j - i)
    OBVIOUS
  <2>2. d[m - 1] = c[i + m - 1] /\ d[m] = c[(i + m - 1) + 1]
    BY <2>1
  <2> QED BY <2>1, <2>2
<1> HIDE DEF d
<1>5. d[j - i] \in Below(d[0], j - i)
  BY <1>1, <1>3, <1>4, ChainIsBelow
<1>6. c[j] \in Below(c[i], j - i)
  BY <1>2, <1>5
<1> QED BY <1>6

\* A refused call closes the chain, or is one SKU too many.
LEMMA RefusedIsBad == ASSUME Inv, Links PROVE RejectsOnlyBadBoms
<1> DEFINE n == Len(stack)
           c == [k \in 1..(n + 1) |-> IF k = n + 1 THEN call.sku ELSE stack[k].sku]
<1>1. SUFFICES ASSUME outcome \in {"cycle", "too deep"}
               PROVE  /\ outcome = "cycle" => \E m \in 0..MaxDepth : \E s \in Below(Root, m) : Cycles(s)
                      /\ outcome = "too deep" => Below(Root, MaxDepth) # {}
  BY DEF RejectsOnlyBadBoms
<1>2. call # NoCall
  BY <1>1 DEF Links, Refused
<1>3. /\ n \in Nat /\ c[1] = Root
      /\ \A k \in 1..(n + 1) : c[k] \in Products
      /\ \A k \in 1..n : IsPart(bom, c[k], c[k + 1])
  BY <1>2, OpenChain
<1>4. c[n + 1] = call.sku /\ \A k \in 1..n : c[k] = stack[k].sku
  BY <1>3
<1> HIDE DEF c
<1>5. n <= MaxDepth /\ PathOf(call.path, n) /\ bom \in [Products -> Seq(Rows)] /\ MaxDepth \in Nat
  BY <1>2, ExplosionAssumption DEF Inv, RecursionIsBounded, PathsInv, ReadInv
<1> DEFINE e == n + 1
<1>6. /\ e \in Nat /\ e - 1 = n /\ \A i \in 1..n : i \in 1..e /\ e \in i..e
      /\ \A k \in 1..e : c[k] \in Products
      /\ \A k \in 1..(e - 1) : IsPart(bom, c[k], c[k + 1])
      /\ 1 \in 1..e /\ e \in 1..e /\ c[e] = call.sku /\ e = n + 1
  BY <1>3, <1>4
<1> HIDE DEF e, n
<1>7. CASE outcome = "cycle"
  <2>1. PICK i \in 1..n : call.path[i] = call.sku
    <3>1. Cyclic(call.sku, call.path) /\ call.path \in Seq(Products)
      BY <1>7 DEF Links, Refused, Inv, WalkType, Call
    <3>2. DOMAIN call.path = 1..n
      BY <1>5, <3>1 DEF PathOf
    <3> QED BY <3>1, <3>2 DEF Cyclic, On
  <2>2. c[i] = call.sku
    BY <1>4, <1>5, <2>1 DEF PathOf
  <2>3. c[i] \in Below(c[1], i - 1)
    <3>1. \A m : m = i - 1 => c[i] \in Below(c[1], m)
      BY <1>5, <1>6, Within
    <3> QED BY <3>1
  <2>4. c[e] \in Below(c[i], e - i)
    <3>1. \A m : m = e - i => c[e] \in Below(c[i], m)
      BY <1>5, <1>6, Within
    <3> QED BY <3>1
  <2>5. e - i \in 1..Cardinality(Products)
    <3> DEFINE S == [k \in 1..n |-> stack[k].sku]
    <3>1. S \in Injection(1..n, Products)
      <4>1. S \in [1..n -> Products]
        BY <1>3, <1>4
      <4>2. stack \in Seq(Frame) /\ DOMAIN stack = 1..n
        BY DEF Inv, WalkType, n
      <4>3. \A k, l \in 1..n : S[k] = S[l] => k = l
        BY <4>2 DEF Inv, RecursionIsBounded
      <4>4. IsInjective(S)
        <5>1. DOMAIN S = 1..n
          OBVIOUS
        <5> HIDE DEF S
        <5> QED BY <4>3, <5>1 DEF IsInjective
      <4> HIDE DEF S
      <4> QED BY <4>1, <4>4 DEF Injection
    <3>2. IsFiniteSet(Products)
      BY ExplosionAssumption
    <3>3. Cardinality(1..n) <= Cardinality(Products)
      <4> HIDE DEF S
      <4> QED BY <3>1, <3>2, FS_Injection
    <3>4. Cardinality(1..n) = n
      <4>1. 1 \in Int /\ n \in Int
        BY <1>3
      <4>2. Cardinality(1..n) = IF 1 > n THEN 0 ELSE n - 1 + 1
        BY <4>1, FS_Interval
      <4> QED BY <1>3, <4>2
    <3>5. Cardinality(Products) \in Nat
      BY <3>2, FS_CardinalityType
    <3> QED BY <1>3, <1>6, <3>3, <3>4, <3>5
  <2>6. Cycles(c[i])
    <3>1. c[i] = c[e]
      BY <1>6, <2>2
    <3> QED BY <2>4, <2>5, <3>1 DEF Cycles
  <2>7. i - 1 \in 0..MaxDepth
    BY <1>3, <1>5
  <2>8. c[i] \in Below(Root, i - 1)
    BY <1>3, <2>3
  <2> QED BY <1>7, <2>6, <2>7, <2>8
<1>8. CASE outcome = "too deep"
  <2>1. n = MaxDepth
    <3>1. Len(call.path) >= MaxDepth
      BY <1>8 DEF Links, Refused
    <3>2. Len(call.path) = n
      BY <1>5 DEF PathOf
    <3> QED BY <1>3, <1>5, <3>1, <3>2
  <2>2. \A m : m = e - 1 => c[e] \in Below(c[1], m)
    BY <1>5, <1>6, Within
  <2> QED BY <1>3, <1>8, <1>6, <2>1, <2>2
<1> QED BY <1>1, <1>7, <1>8

\* An explosion is refused only for a BOM with a SKU inside itself below the
\* root, or with a chain of more than MaxDepth SKUs from it: a call is made with
\* the SKUs of the open walks, each of which is a part of the one before.
THEOREM OnlyBadBomsAreRefused == Spec => []RejectsOnlyBadBoms
<1>1. Init => Inv /\ Links
  BY InitInv, LinksInit
<1>2. (Inv /\ Links) /\ [Next]_vars => (Inv /\ Links)'
  BY InvNext, LinksNext
<1>3. Inv /\ Links => RejectsOnlyBadBoms
  BY RefusedIsBad
<1> QED BY <1>1, <1>2, <1>3, PTL DEF Spec

-----------------------------------------------------------------------------
(* Ways down, and which of them a walk has counted *)

BomType(b) == b \in [Products -> Seq(Rows)]

\* The rows of w, each of the SKU that is the part of the row before it.
IsPath(b, w) ==
  /\ Len(w) \in Nat \ {0} /\ Len(w) <= MaxDepth + 1 /\ DOMAIN w = 1..Len(w)
  /\ w[1].sku = Root
  /\ \A j \in 1..(Len(w) - 1) : w[j + 1].sku = RowAt(b, w[j]).part
  /\ \A j \in 1..Len(w) : /\ w[j] = [sku |-> w[j].sku, i |-> w[j].i]
                          /\ w[j].sku \in Products /\ w[j].i \in DOMAIN b[w[j].sku]
                          /\ w[j].i \in Nat \ {0}

\* A way down is a path of rows,
LEMMA WayIs ==
  ASSUME NEW b, BomType(b), NEW w \in AllWays(b)
  PROVE  IsPath(b, w)
<1>1. PICK n \in 1..(MaxDepth + 1) : w \in Ways(b, n)
  BY DEF AllWays
<1>2. n \in Nat /\ w \in [1..n -> Addresses(b)] /\ w[1].sku = Root
      /\ \A j \in 1..(n - 1) : w[j + 1].sku = RowAt(b, w[j]).part
  BY <1>1, ExplosionAssumption DEF Ways
<1>3. Len(w) = n /\ DOMAIN w = 1..n
  BY <1>2
<1>4. ASSUME NEW j \in 1..n
      PROVE  /\ w[j] = [sku |-> w[j].sku, i |-> w[j].i]
             /\ w[j].sku \in Products /\ w[j].i \in DOMAIN b[w[j].sku]
             /\ w[j].i \in Nat \ {0}
  <2>1. w[j] \in Addresses(b)
    BY <1>2
  <2>2. PICK s \in Products : \E i \in DOMAIN b[s] : w[j] = [sku |-> s, i |-> i]
    BY <2>1 DEF Addresses
  <2> PICK i \in DOMAIN b[s] : w[j] = [sku |-> s, i |-> i]
    BY <2>2
  <2>3. w[j] = [sku |-> s, i |-> i] /\ w[j].sku = s /\ w[j].i = i
    OBVIOUS
  <2>4. i \in 1..Len(b[s]) /\ Len(b[s]) \in Nat
    BY DEF BomType
  <2> QED BY <2>3, <2>4
<1> QED BY <1>1, <1>2, <1>3, <1>4, ExplosionAssumption DEF IsPath

\* and a path of rows is a way down.
LEMMA IsWay ==
  ASSUME NEW b, NEW n \in 1..(MaxDepth + 1), NEW w \in [1..n -> Addresses(b)],
         w[1].sku = Root, \A j \in 1..(n - 1) : w[j + 1].sku = RowAt(b, w[j]).part
  PROVE  w \in AllWays(b)
<1>1. w \in Ways(b, n)
  BY DEF Ways
<1> QED BY <1>1 DEF AllWays

\* The walk st, about to make the call c, has counted way w: it is past a row of w
\* at some depth, or at a row of w that is the last one, or the innermost one and
\* nothing is called from it.
Counted(w, st, c) == \E j \in 1..Len(st) :
  /\ j <= Len(w)
  /\ \A l \in 1..(j - 1) : w[l].i = st[l].i - 1
  /\ \/ w[j].i < st[j].i - 1
     \/ w[j].i = st[j].i - 1 /\ (j = Len(w) \/ (j = Len(st) /\ c = NoCall))

CountedWays(b, st, c) == {w \in AllWays(b) : Counted(w, st, c)}

\* The way down to the row that the innermost walk is in.
Here(st) == [j \in 1..Len(st) |-> [sku |-> st[j].sku, i |-> st[j].i - 1]]

\* A chain of walks.
Walk(b, st) ==
  /\ Len(st) \in Nat
  /\ \A k \in 1..Len(st) : st[k].sku \in Products /\ st[k].i \in Nat \ {0}
  /\ Len(st) > 0 => st[1].sku = Root
  /\ \A k \in 1..(Len(st) - 1) : Leads(b, st[k], st[k + 1])

\* A way in the same rows is of the same SKUs.
LEMMA SameSkus ==
  ASSUME NEW b, BomType(b), NEW w \in AllWays(b), NEW st, Walk(b, st),
         NEW j \in 1..Len(st), j <= Len(w), \A l \in 1..(j - 1) : w[l].i = st[l].i - 1
  PROVE  \A l \in 1..j : w[l].sku = st[l].sku
<1> DEFINE Bad == {l \in 1..j : w[l].sku # st[l].sku}
<1>1. SUFFICES ASSUME Bad # {} PROVE FALSE
  OBVIOUS
<1>0. IsPath(b, w)
  BY WayIs
<1>2. Len(st) \in Nat /\ Len(w) \in Nat
  BY <1>0 DEF Walk, IsPath
<1>3. Bad \in SUBSET Nat
  OBVIOUS
<1>4. Min(Bad) \in Bad /\ \A l \in Bad : Min(Bad) <= l
  <2> HIDE DEF Bad
  <2> QED BY <1>1, <1>3, MinIsLeast
<1> DEFINE m == Min(Bad)
<1>5. m \in 1..j /\ w[m].sku # st[m].sku /\ \A l \in Bad : m <= l
  BY <1>4
<1> HIDE DEF m
<1>6. CASE m = 1
  <2>1. w[1].sku = Root
    BY <1>0 DEF IsPath
  <2>2. st[1].sku = Root
    BY <1>2 DEF Walk
  <2> QED BY <1>5, <1>6, <2>1, <2>2
<1>7. CASE m # 1
  <2>1. m - 1 \in 1..j /\ m - 1 \in 1..(j - 1) /\ m - 1 < m /\ (m - 1) + 1 = m
        /\ m - 1 \in 1..(Len(w) - 1) /\ m - 1 \in 1..(Len(st) - 1)
    BY <1>2, <1>5, <1>7
  <2>2. m - 1 \notin Bad
    <3> HIDE DEF Bad
    <3> QED BY <1>5, <2>1
  <2>3. w[m - 1].sku = st[m - 1].sku /\ w[m - 1].i = st[m - 1].i - 1
    BY <2>1, <2>2
  <2>4. w[m].sku = b[w[m - 1].sku][w[m - 1].i].part
    <3>1. w[(m - 1) + 1].sku = RowAt(b, w[m - 1]).part
      BY <1>0, <2>1 DEF IsPath
    <3> QED BY <2>1, <3>1 DEF RowAt
  <2>5. Leads(b, st[m - 1], st[(m - 1) + 1])
    BY <2>1 DEF Walk
  <2>6. b[st[m - 1].sku][st[m - 1].i - 1].part = st[m].sku
    BY <2>1, <2>5 DEF Leads
  <2> QED BY <1>5, <2>3, <2>4, <2>6
<1> QED BY <1>6, <1>7

\* Nothing is counted before the first walk.
LEMMA NoneCounted ==
  ASSUME NEW b, NEW st, NEW c, Len(st) = 0
  PROVE  CountedWays(b, st, c) = {}
BY DEF CountedWays, Counted

\* Entering a walk counts nothing.
LEMMA EnterCounts ==
  ASSUME NEW b, BomType(b), NEW st, NEW st2, NEW c, c # NoCall,
         Len(st) \in Nat, Len(st2) = Len(st) + 1,
         \A k \in 1..Len(st) : st2[k] = st[k],
         \A k \in 1..Len(st) : st[k].i \in Nat,
         st2[Len(st) + 1].i = 1
  PROVE  CountedWays(b, st2, NoCall) = CountedWays(b, st, c)
<1> DEFINE n == Len(st)
<1>1. ASSUME NEW w \in AllWays(b), Counted(w, st, c) PROVE Counted(w, st2, NoCall)
  <2>1. PICK j \in 1..n :
          /\ j <= Len(w)
          /\ \A l \in 1..(j - 1) : w[l].i = st[l].i - 1
          /\ \/ w[j].i < st[j].i - 1
             \/ w[j].i = st[j].i - 1 /\ (j = Len(w) \/ (j = n /\ c = NoCall))
    BY <1>1 DEF Counted
  <2>2. j \in 1..Len(st2) /\ st2[j] = st[j] /\ \A l \in 1..(j - 1) : st2[l] = st[l]
    OBVIOUS
  <2> QED BY <2>1, <2>2 DEF Counted
<1>2. ASSUME NEW w \in AllWays(b), Counted(w, st2, NoCall) PROVE Counted(w, st, c)
  <2>1. PICK j \in 1..(n + 1) :
          /\ j <= Len(w)
          /\ \A l \in 1..(j - 1) : w[l].i = st2[l].i - 1
          /\ \/ w[j].i < st2[j].i - 1
             \/ w[j].i = st2[j].i - 1 /\ (j = Len(w) \/ j = n + 1)
    BY <1>2 DEF Counted
  <2>2. j # n + 1
    <3>1. Len(w) \in Nat /\ \A l \in 1..Len(w) : w[l].i \in Nat \ {0}
      BY WayIs DEF IsPath
    <3> QED BY <2>1, <3>1
  <2>3. j \in 1..n /\ st2[j] = st[j] /\ \A l \in 1..(j - 1) : st2[l] = st[l]
    BY <2>2
  <2> QED BY <2>1, <2>2, <2>3 DEF Counted
<1> QED BY <1>1, <1>2 DEF CountedWays

\* A walk that is past its rows has counted the ways through them: returning
\* counts nothing.
LEMMA ReturnCounts ==
  ASSUME NEW b, BomType(b), NEW st, NEW st2, NEW n \in Nat, n > 1, Len(st) = n,
         Walk(b, st), st[n].i > Len(b[st[n].sku]),
         Len(st2) = n - 1, \A k \in 1..(n - 1) : st2[k] = st[k]
  PROVE  CountedWays(b, st2, NoCall) = CountedWays(b, st, NoCall)
<1>1. ASSUME NEW w \in AllWays(b), Counted(w, st, NoCall) PROVE Counted(w, st2, NoCall)
  <2>1. PICK j \in 1..n :
          /\ j <= Len(w)
          /\ \A l \in 1..(j - 1) : w[l].i = st[l].i - 1
          /\ \/ w[j].i < st[j].i - 1
             \/ w[j].i = st[j].i - 1 /\ (j = Len(w) \/ j = n)
    BY <1>1 DEF Counted
  <2>2. CASE j = n
    <3>1. /\ n - 1 \in 1..Len(st2) /\ n - 1 <= Len(w) /\ n - 1 = Len(st2)
          /\ \A l \in 1..(n - 1 - 1) : w[l].i = st2[l].i - 1
          /\ w[n - 1].i = st2[n - 1].i - 1
      <4>1. Len(w) \in Nat
        BY WayIs DEF IsPath
      <4> QED BY <2>1, <2>2, <4>1
    <3> QED BY <3>1 DEF Counted
  <2>3. CASE j # n
    <3>1. j \in 1..Len(st2) /\ st2[j] = st[j] /\ \A l \in 1..(j - 1) : st2[l] = st[l]
      BY <2>3
    <3> QED BY <2>1, <2>3, <3>1 DEF Counted
  <2> QED BY <2>2, <2>3
<1>2. ASSUME NEW w \in AllWays(b), Counted(w, st2, NoCall) PROVE Counted(w, st, NoCall)
  <2>1. PICK j \in 1..(n - 1) :
          /\ j <= Len(w)
          /\ \A l \in 1..(j - 1) : w[l].i = st2[l].i - 1
          /\ \/ w[j].i < st2[j].i - 1
             \/ w[j].i = st2[j].i - 1 /\ (j = Len(w) \/ j = n - 1)
    BY <1>2 DEF Counted
  <2>2. j \in 1..Len(st) /\ st2[j] = st[j] /\ \A l \in 1..(j - 1) : st2[l] = st[l]
    BY <2>1
  <2>3. CASE w[j].i < st2[j].i - 1 \/ j = Len(w)
    BY <2>1, <2>2, <2>3 DEF Counted
  <2>4. CASE w[j].i = st2[j].i - 1 /\ j = n - 1 /\ j # Len(w)
    <3>1. IsPath(b, w)
      BY WayIs
    <3>2. n <= Len(w) /\ n \in 1..Len(st) /\ \A l \in 1..(n - 1) : w[l].i = st[l].i - 1
      BY <2>1, <2>2, <2>4, <3>1 DEF IsPath
    <3>3. w[n].sku = st[n].sku
      <4>1. \A l \in 1..n : w[l].sku = st[l].sku
        BY <3>2, SameSkus
      <4> QED BY <4>1
    <3>4. w[n].i \in 1..Len(b[st[n].sku]) /\ Len(b[st[n].sku]) \in Nat
      <4>1. w[n].i \in DOMAIN b[w[n].sku] /\ w[n].sku \in Products
        BY <3>1, <3>2 DEF IsPath
      <4>2. b[w[n].sku] \in Seq(Rows)
        BY <4>1 DEF BomType
      <4> QED BY <3>3, <4>1, <4>2
    <3>5. st[n].i \in Nat
      BY <3>2 DEF Walk
    <3>6. w[n].i < st[n].i - 1 \/ w[n].i = st[n].i - 1
      BY <3>4, <3>5
    <3> QED BY <3>2, <3>6 DEF Counted
  <2> QED BY <2>1, <2>3, <2>4
<1> QED BY <1>1, <1>2 DEF CountedWays

\* The walk of the root, past its rows, has counted all ways.
LEMMA AllCounted ==
  ASSUME NEW b, BomType(b), NEW st, Len(st) = 1, Walk(b, st), st[1].i > Len(b[st[1].sku])
  PROVE  CountedWays(b, st, NoCall) = AllWays(b)
<1> SUFFICES ASSUME NEW w \in AllWays(b) PROVE Counted(w, st, NoCall)
  BY DEF CountedWays
<1>1. IsPath(b, w)
  BY WayIs
<1>2. w[1].sku = st[1].sku /\ st[1].i \in Nat
  BY <1>1 DEF IsPath, Walk
<1>3. w[1].i \in 1..Len(b[st[1].sku]) /\ Len(b[st[1].sku]) \in Nat
  <2>1. 1 \in 1..Len(w)
    BY <1>1 DEF IsPath
  <2>2. w[1].i \in DOMAIN b[w[1].sku] /\ w[1].sku \in Products
    BY <1>1, <2>1 DEF IsPath
  <2>3. b[w[1].sku] \in Seq(Rows)
    BY <2>2 DEF BomType
  <2> QED BY <1>2, <2>2, <2>3
<1>4. w[1].i < st[1].i - 1 \/ w[1].i = st[1].i - 1
  BY <1>2, <1>3
<1>5. 1 <= Len(w)
  BY <1>1 DEF IsPath
<1> QED BY <1>4, <1>5 DEF Counted

\* A row counts one way, the one that leads to it, once.
LEMMA RowCounts ==
  ASSUME NEW b, BomType(b), NEW st, NEW st2, NEW c2, NEW n \in Nat \ {0}, n <= MaxDepth,
         Len(st) = n, Len(st2) = n, Walk(b, st), Walk(b, st2),
         \A k \in 1..n : st2[k].sku = st[k].sku,
         \A k \in 1..(n - 1) : st2[k] = st[k],
         st2[n].i = st[n].i + 1, st[n].i \in DOMAIN b[st[n].sku],
         c2 = NoCall => b[st[n].sku][st[n].i].part \notin Products
  PROVE  /\ Here(st2) \in AllWays(b) /\ Len(Here(st2)) = n
         /\ Here(st2) \notin CountedWays(b, st, NoCall)
         /\ CountedWays(b, st2, c2) = CountedWays(b, st, NoCall) \cup {Here(st2)}
<1> DEFINE h == Here(st2)
<1>1. /\ h = [j \in 1..n |-> [sku |-> st2[j].sku, i |-> st2[j].i - 1]]
      /\ Len(h) = n /\ \A j \in 1..n : h[j].sku = st2[j].sku /\ h[j].i = st2[j].i - 1
  BY DEF Here
<1>2. h[n].i = st[n].i /\ h[n].sku = st[n].sku /\ st[n].i \in Nat \ {0}
      /\ \A k \in 1..n : st2[k].i \in Nat \ {0} /\ st2[k].sku \in Products /\ st[k].i \in Nat \ {0}
  BY <1>1 DEF Walk
<1>3. ASSUME NEW j \in 1..n PROVE st2[j].i - 1 \in DOMAIN b[st2[j].sku]
  <2>1. CASE j = n
    BY <2>1, <1>1, <1>2
  <2>2. CASE j # n
    <3>1. j \in 1..(n - 1)
      BY <2>2
    <3>2. Leads(b, st2[j], st2[j + 1])
      BY <3>1 DEF Walk
    <3> QED BY <3>2 DEF Leads
  <2> QED BY <2>1, <2>2
<1>4. h \in AllWays(b)
  <2>1. h \in [1..n -> Addresses(b)]
    <3>1. ASSUME NEW j \in 1..n
          PROVE  [sku |-> st2[j].sku, i |-> st2[j].i - 1] \in Addresses(b)
      BY <1>2, <1>3 DEF Addresses
    <3> QED BY <1>1, <3>1
  <2>2. h[1].sku = Root
    BY <1>1 DEF Walk
  <2>3. ASSUME NEW j \in 1..(n - 1) PROVE h[j + 1].sku = RowAt(b, h[j]).part
    <3>1. Leads(b, st2[j], st2[j + 1]) /\ j \in 1..n /\ j + 1 \in 1..n
      BY DEF Walk
    <3> QED BY <1>1, <3>1 DEF Leads, RowAt
  <2>4. n \in 1..(MaxDepth + 1)
    BY ExplosionAssumption
  <2> HIDE DEF h
  <2> QED BY <2>1, <2>2, <2>3, <2>4, IsWay
<1>5. ~Counted(h, st, NoCall)
  <2> SUFFICES ASSUME Counted(h, st, NoCall) PROVE FALSE
    OBVIOUS
  <2>1. PICK j \in 1..n :
          \/ h[j].i < st[j].i - 1
          \/ h[j].i = st[j].i - 1 /\ (j = Len(h) \/ j = n)
    BY DEF Counted
  <2>2. CASE j = n
    BY <1>2, <2>1, <2>2
  <2>3. CASE j # n
    <3>1. st2[j] = st[j] /\ j \in 1..n
      BY <2>3
    <3>2. h[j].i = st[j].i - 1 /\ st[j].i \in Nat
      BY <1>1, <1>2, <3>1
    <3> HIDE DEF h
    <3> QED BY <1>1, <2>1, <2>3, <3>2
  <2> QED BY <2>2, <2>3
<1> HIDE DEF h
<1>6. ASSUME NEW w \in AllWays(b), Counted(w, st, NoCall) PROVE Counted(w, st2, c2)
  <2>1. PICK j \in 1..n :
          /\ j <= Len(w)
          /\ \A l \in 1..(j - 1) : w[l].i = st[l].i - 1
          /\ \/ w[j].i < st[j].i - 1
             \/ w[j].i = st[j].i - 1 /\ (j = Len(w) \/ j = n)
    BY <1>6 DEF Counted
  <2>2. \A l \in 1..(j - 1) : w[l].i = st2[l].i - 1
    BY <2>1
  <2>3. CASE j = n
    <3>1. w[n].i < st2[n].i - 1
      <4>0. IsPath(b, w) /\ n <= Len(w)
        BY <2>1, <2>3, WayIs
      <4>2. n \in 1..Len(w)
        BY <4>0 DEF IsPath
      <4>1. w[n].i \in Nat
        BY <4>0, <4>2 DEF IsPath
      <4> QED BY <1>2, <2>1, <2>3, <4>1
    <3> QED BY <2>1, <2>2, <2>3, <3>1 DEF Counted
  <2>4. CASE j # n
    <3>1. st2[j] = st[j]
      BY <2>4
    <3> QED BY <2>1, <2>2, <2>4, <3>1 DEF Counted
  <2> QED BY <2>3, <2>4
<1>7. Counted(h, st2, c2)
  <2>1. /\ n \in 1..Len(st2) /\ n <= Len(h) /\ n = Len(h)
        /\ \A l \in 1..(n - 1) : h[l].i = st2[l].i - 1
        /\ h[n].i = st2[n].i - 1
    BY <1>1
  <2> QED BY <2>1 DEF Counted
<1>8. ASSUME NEW w \in AllWays(b), Counted(w, st2, c2), w # h PROVE Counted(w, st, NoCall)
  <2>1. PICK j \in 1..n :
          /\ j <= Len(w)
          /\ \A l \in 1..(j - 1) : w[l].i = st2[l].i - 1
          /\ \/ w[j].i < st2[j].i - 1
             \/ w[j].i = st2[j].i - 1 /\ (j = Len(w) \/ (j = n /\ c2 = NoCall))
    BY <1>8 DEF Counted
  <2>2. \A l \in 1..(j - 1) : w[l].i = st[l].i - 1
    BY <2>1
  <2>3. IsPath(b, w)
    BY WayIs
  <2>4. CASE j # n
    <3>1. st2[j] = st[j]
      BY <2>4
    <3> QED BY <2>1, <2>2, <2>4, <3>1 DEF Counted
  <2>5. CASE j = n /\ w[n].i < st2[n].i - 1
    <3>0. n <= Len(w)
      BY <2>1, <2>5
    <3>3. n \in 1..Len(w)
      BY <2>3, <3>0 DEF IsPath
    <3>1. w[n].i \in Nat
      BY <2>3, <3>3 DEF IsPath
    <3>2. w[n].i < st[n].i - 1 \/ w[n].i = st[n].i - 1
      BY <1>2, <2>5, <3>1
    <3> QED BY <2>1, <2>2, <2>5, <3>2 DEF Counted
  <2>6. CASE j = n /\ w[n].i = st2[n].i - 1
    <3>1. \A l \in 1..n : w[l].i = st2[l].i - 1
      BY <2>1, <2>6
    <3>2. \A l \in 1..n : w[l].sku = st2[l].sku
      <4>1. n \in 1..Len(st2) /\ n <= Len(w) /\ \A l \in 1..(n - 1) : w[l].i = st2[l].i - 1
        BY <2>1, <2>6
      <4> QED BY <4>1, SameSkus
    <3>3. CASE Len(w) = n
      <4>1. w = [j2 \in 1..n |-> w[j2]]
        <5>1. Len(w) = n /\ DOMAIN w = 1..n
          BY <2>3, <3>3 DEF IsPath
        <5>2. w \in UNION {[1..k -> Addresses(b)] : k \in 1..(MaxDepth + 1)}
          BY DEF AllWays, Ways
        <5> QED BY <5>1, <5>2
      <4>2. \A j2 \in 1..n : w[j2] = [sku |-> st2[j2].sku, i |-> st2[j2].i - 1]
        BY <2>3, <3>1, <3>2, <3>3 DEF IsPath
      <4>3. w = [j2 \in 1..n |-> [sku |-> st2[j2].sku, i |-> st2[j2].i - 1]]
        BY <4>1, <4>2
      <4> QED BY <1>1, <1>8, <4>3
    <3>4. CASE Len(w) # n
      <4>0. ~(w[n].i < st2[n].i - 1) /\ n <= Len(w)
        BY <1>2, <2>1, <2>6
      <4>1. c2 = NoCall
        BY <2>1, <2>6, <3>4, <4>0
      <4>2. n \in 1..(Len(w) - 1) /\ n + 1 \in 1..Len(w)
        <5>1. Len(w) \in Nat
          BY <2>3 DEF IsPath
        <5> QED BY <3>4, <4>0, <5>1
      <4>3. w[n + 1].sku = RowAt(b, w[n]).part /\ w[n + 1].sku \in Products
        BY <2>3, <4>2 DEF IsPath
      <4>4. w[n].sku = st[n].sku /\ w[n].i = st[n].i
        <5>1. n \in 1..n
          OBVIOUS
        <5>2. w[n].i = st2[n].i - 1 /\ w[n].sku = st2[n].sku /\ st2[n].sku = st[n].sku
          BY <3>1, <3>2, <5>1
        <5> QED BY <1>2, <5>2
      <4> QED BY <4>1, <4>3, <4>4 DEF RowAt
    <3> QED BY <3>3, <3>4
  <2> QED BY <2>1, <2>4, <2>5, <2>6
<1>9. CountedWays(b, st2, c2) = CountedWays(b, st, NoCall) \cup {h}
  BY <1>4, <1>6, <1>7, <1>8 DEF CountedWays
<1>10. h \notin CountedWays(b, st, NoCall)
  BY <1>5 DEF CountedWays
<1> QED BY <1>1, <1>4, <1>9, <1>10 DEF h

-----------------------------------------------------------------------------
(* Sums as numbers of units *)

Units(f, ids) == UNION {{i} \X (1..f[i]) : i \in ids}

LEMMA UnitsIn ==
  ASSUME NEW f, NEW ids
  PROVE  \A i, n : <<i, n>> \in Units(f, ids) <=> i \in ids /\ n \in 1..f[i]
BY DEF Units

\* Finitely many summands, each a natural number.
Counts(f, ids) == IsFiniteSet(ids) /\ \A i \in ids : f[i] \in Nat

\* So there are finitely many units.
LEMMA UnitsFinite ==
  ASSUME NEW f, NEW ids, Counts(f, ids)
  PROVE  /\ IsFiniteSet(Units(f, ids))
         /\ Total(f, ids) = Cardinality(Units(f, ids)) /\ Total(f, ids) \in Nat
<1> DEFINE G == [i \in ids |-> {i} \X (1..f[i])]
           T == {{i} \X (1..f[i]) : i \in ids}
<1>1. G \in Surjection(ids, T)
  BY DEF Surjection
<1>2. IsFiniteSet(T)
  <2> HIDE DEF G, T
  <2> QED BY <1>1, FS_Surjection DEF Counts
<1>3. ASSUME NEW i \in ids PROVE IsFiniteSet({i} \X (1..f[i]))
  <2>1. IsFiniteSet(1..f[i])
    BY FS_Interval DEF Counts
  <2>2. IsFiniteSet({i})
    BY FS_Singleton
  <2> QED BY <2>1, <2>2, FS_Product
<1>4. \A X \in T : IsFiniteSet(X)
  BY <1>3
<1>5. IsFiniteSet(UNION T)
  <2> HIDE DEF T
  <2> QED BY <1>2, <1>4, FS_UNION
<1> QED BY <1>5, FS_CardinalityType DEF Units, Total

\* One summand less.
LEMMA TotalLess ==
  ASSUME NEW f, NEW ids, Counts(f, ids), NEW i \in ids
  PROVE  /\ Counts(f, ids \ {i}) /\ Total(f, ids \ {i}) \in Nat
         /\ Total(f, ids) = Total(f, ids \ {i}) + f[i]
<1> DEFINE q == f[i]
           U == Units(f, ids \ {i})
           V == {i} \X (1..q)
<1>1. Units(f, ids) = U \cup V /\ U \cap V = {}
  BY DEF Units
<1>2. q \in Nat
  BY DEF Counts
<1>0. Counts(f, ids \ {i})
  BY FS_Subset DEF Counts
<1> HIDE DEF q
<1>3. IsFiniteSet(1..q) /\ Cardinality(1..q) = q
  <2>1. Cardinality(1..q) = IF 1 > q THEN 0 ELSE q - 1 + 1
    BY <1>2, FS_Interval
  <2>2. IsFiniteSet(1..q)
    BY <1>2, FS_Interval
  <2> QED BY <1>2, <2>1, <2>2
<1>4. IsFiniteSet({i}) /\ Cardinality({i}) = 1
  BY FS_Singleton
<1>5. IsFiniteSet(V) /\ Cardinality(V) = 1 * q
  BY <1>3, <1>4, FS_Product
<1>6. Cardinality(V) = q
  BY <1>2, <1>5
<1>7. Total(f, ids) = Cardinality(U \cup V)
  BY <1>1 DEF Total, Units
<1>8. IsFiniteSet(U) /\ Total(f, ids \ {i}) = Cardinality(U) /\ Cardinality(U) \in Nat
  BY <1>0, UnitsFinite
<1> HIDE DEF U, V
<1>9. Cardinality(U \cup V) = Cardinality(U) + Cardinality(V) - Cardinality({})
  BY <1>1, <1>5, <1>8, FS_Union
<1>10. Cardinality({}) = 0
  BY FS_EmptySet
<1>11. Cardinality(U \cup V) = Cardinality(U) + q
  BY <1>2, <1>6, <1>8, <1>9, <1>10
<1> QED BY <1>0, <1>7, <1>8, <1>11 DEF q

\* No summands.
LEMMA TotalNone ==
  ASSUME NEW f
  PROVE  Total(f, {}) = 0
<1>1. Units(f, {}) = {}
  BY DEF Units
<1> QED BY <1>1, FS_EmptySet DEF Total, Units

\* One summand more.
LEMMA TotalMore ==
  ASSUME NEW f, NEW ids, NEW i, i \notin ids, Counts(f, ids \cup {i})
  PROVE  /\ Total(f, ids) \in Nat
         /\ Total(f, ids \cup {i}) = Total(f, ids) + f[i]
<1>1. (ids \cup {i}) \ {i} = ids
  OBVIOUS
<1> QED BY <1>1, TotalLess

-----------------------------------------------------------------------------
(* What a way down requires *)

\* The quantities v, multiplied and rounded row by row along way w.
IsProduct(b, w, v) ==
  /\ v[0] = Qty
  /\ \A j \in 1..Len(w) : v[j] = round3(v[j - 1] * RowAt(b, w[j]).qtyPerUnit)

\* The recursive definition of what a way requires has one solution.
LEMMA RequiredIs ==
  ASSUME NEW b, NEW w, NEW v, NEW n \in Nat, Len(w) = n, IsProduct(b, w, v)
  PROVE  RequiredOn(b, w) = v[n]
<1> DEFINE Solves(q) == q = [j \in 0..n |->
             IF j = 0 THEN Qty ELSE round3(q[j - 1] * RowAt(b, w[j]).qtyPerUnit)]
           q == CHOOSE q : Solves(q)
           g == [j \in 0..n |-> v[j]]
<1>1. RequiredOn(b, w) = q[n]
  BY DEF RequiredOn
<1>2. Solves(g)
  <2>1. ASSUME NEW j \in 0..n
        PROVE  g[j] = IF j = 0 THEN Qty ELSE round3(g[j - 1] * RowAt(b, w[j]).qtyPerUnit)
    <3>1. CASE j = 0
      BY <3>1 DEF IsProduct
    <3>2. CASE j # 0
      <4>1. j \in 1..n /\ j - 1 \in 0..n
        BY <3>2
      <4>2. v[j] = round3(v[j - 1] * RowAt(b, w[j]).qtyPerUnit)
        BY <4>1 DEF IsProduct
      <4>3. g[j] = v[j] /\ g[j - 1] = v[j - 1]
        BY <4>1
      <4> QED BY <3>2, <4>2, <4>3
    <3> QED BY <3>1, <3>2
  <2> QED BY <2>1
<1>3. Solves(q)
  <2> HIDE DEF Solves, g
  <2> QED BY <1>2
<1>4. q = [j \in 0..n |-> IF j = 0 THEN Qty ELSE round3(q[j - 1] * RowAt(b, w[j]).qtyPerUnit)]
  BY <1>3
<1> HIDE DEF q
<1>5. \A j \in 0..n : q[j] = IF j = 0 THEN Qty ELSE round3(q[j - 1] * RowAt(b, w[j]).qtyPerUnit)
  BY <1>4
<1> DEFINE Bad == {j \in 0..n : q[j] # v[j]}
<1>6. Bad = {}
  <2> SUFFICES ASSUME Bad # {} PROVE FALSE
    OBVIOUS
  <2>1. Bad \in SUBSET Nat
    OBVIOUS
  <2>2. Min(Bad) \in Bad /\ \A j \in Bad : Min(Bad) <= j
    <3> HIDE DEF Bad
    <3> QED BY <2>1, MinIsLeast
  <2> DEFINE m == Min(Bad)
  <2>3. m \in 0..n /\ q[m] # v[m] /\ \A j \in Bad : m <= j
    BY <2>2
  <2> HIDE DEF m
  <2>4. m # 0
    <3>1. q[0] = Qty
      BY <1>5
    <3> QED BY <2>3, <3>1 DEF IsProduct
  <2>5. m \in 1..n /\ m - 1 \in 0..n /\ m - 1 < m
    BY <2>3, <2>4
  <2>6. m - 1 \notin Bad
    <3> HIDE DEF Bad
    <3> QED BY <2>3, <2>5
  <2>7. q[m - 1] = v[m - 1]
    BY <2>5, <2>6
  <2>8. q[m] = round3(q[m - 1] * RowAt(b, w[m]).qtyPerUnit)
    BY <1>5, <2>3, <2>4
  <2>9. v[m] = round3(v[m - 1] * RowAt(b, w[m]).qtyPerUnit)
    BY <2>5 DEF IsProduct
  <2> QED BY <2>3, <2>7, <2>8, <2>9
<1>7. n \in 0..n
  OBVIOUS
<1>8. q[n] = v[n]
  BY <1>6, <1>7
<1> QED BY <1>1, <1>8

\* The way to the row that the innermost walk is in requires what that row
\* requires of the quantity the walk was entered with.
LEMMA HereRequires ==
  ASSUME NEW b, NEW st, NEW n \in Nat \ {0}, Len(st) = n,
         st[1].qty = Qty, \A k \in 1..(n - 1) : Leads(b, st[k], st[k + 1])
  PROVE  RequiredOn(b, Here(st)) = round3(st[n].qty * b[st[n].sku][st[n].i - 1].qtyPerUnit)
<1> DEFINE h == Here(st)
           last == round3(st[n].qty * b[st[n].sku][st[n].i - 1].qtyPerUnit)
           v == [j \in 0..n |-> IF j < n THEN st[j + 1].qty ELSE last]
<1>1. Len(h) = n /\ \A j \in 1..n : h[j] = [sku |-> st[j].sku, i |-> st[j].i - 1]
  BY DEF Here
<1>2. \A j \in 1..n : RowAt(b, h[j]) = b[st[j].sku][st[j].i - 1]
  BY <1>1 DEF RowAt
<1>3. v[n] = last /\ v[0] = Qty /\ \A j \in 0..(n - 1) : v[j] = st[j + 1].qty
  OBVIOUS
<1> HIDE DEF v, h
<1>4. ASSUME NEW j \in 1..n PROVE v[j] = round3(v[j - 1] * RowAt(b, h[j]).qtyPerUnit)
  <2>1. v[j - 1] = st[j].qty
    <3>1. j - 1 \in 0..(n - 1) /\ (j - 1) + 1 = j
      OBVIOUS
    <3> QED BY <1>3, <3>1
  <2>2. CASE j = n
    BY <1>2, <1>3, <2>1, <2>2
  <2>3. CASE j # n
    <3>1. j \in 1..(n - 1) /\ j \in 0..(n - 1)
      BY <2>3
    <3>2. Leads(b, st[j], st[j + 1]) /\ v[j] = st[j + 1].qty
      BY <1>3, <3>1
    <3> QED BY <1>2, <2>1, <3>2 DEF Leads
  <2> QED BY <2>2, <2>3
<1>5. IsProduct(b, h, v)
  BY <1>1, <1>3, <1>4 DEF IsProduct
<1>6. RequiredOn(b, h) = v[n]
  <2>1. n \in Nat /\ Len(h) = n
    BY <1>1
  <2> QED BY <1>5, <2>1, RequiredIs
<1> QED BY <1>3, <1>6 DEF h

-----------------------------------------------------------------------------
(* What the fetch leaves out *)

\* Every SKU that is read or next has a level, one more at most than that of
\* a SKU it is a part of: those next are of the level that would be read next.
LevelsOK(t, f, d, b, lv) ==
  /\ lv \in [t \cup f -> Nat] /\ Root \in t \cup f /\ lv[Root] = 0
  /\ \A s \in t : \A p \in Products : IsPart(b, s, p) => p \in t \cup f /\ lv[p] <= lv[s] + 1
  /\ \A s \in f : lv[s] = d
  /\ \A s \in t : lv[s] <= d
  /\ t \cap f = {}

\* The open walks are no deeper than the levels of their SKUs.
LevelsOpen(lv, st, c) ==
  /\ \A k \in 1..Len(st) : lv[st[k].sku] < k
  /\ c # NoCall => lv[c.sku] <= Len(st)

Levels == \E lv :
  /\ LevelsOK(DOMAIN tree, frontier, depth, bom, lv)
  /\ depth \in Nat
  /\ outcome # "fetching" => frontier = {} \/ depth > MaxDepth
  /\ LevelsOpen(lv, stack, call)

\* The levels grow with the fetch, and a walk goes one level down at most.
LEMMA LevelsInit == Init => Levels
<1> SUFFICES ASSUME Init PROVE Levels
  OBVIOUS
<1> DEFINE lv == [s \in {Root} |-> 0]
<1>1. DOMAIN tree = {} /\ frontier = {Root} /\ depth = 0 /\ stack = << >> /\ call = NoCall
      /\ outcome = "fetching"
  BY DEF Init
<1>2. lv \in [{} \cup {Root} -> Nat] /\ lv[Root] = 0
  OBVIOUS
<1> HIDE DEF lv
<1>3. LevelsOK(DOMAIN tree, frontier, depth, bom, lv)
  BY <1>1, <1>2 DEF LevelsOK
<1>4. LevelsOpen(lv, stack, call)
  BY <1>1 DEF LevelsOpen
<1> QED BY <1>1, <1>3, <1>4 DEF Levels

LEMMA LevelsFetch == ASSUME Inv, Levels, FetchLevel PROVE Levels'
<1>1. PICK lv : LevelsOK(DOMAIN tree, frontier, depth, bom, lv) /\ depth \in Nat
  BY DEF Levels
<1> DEFINE t == DOMAIN tree
           lv2 == [s \in t \cup frontier \cup frontier' |->
                     IF s \in t \cup frontier THEN lv[s] ELSE depth + 1]
<1>2. /\ DOMAIN tree' = t \cup frontier
      /\ frontier' = (PartsOf(frontier) \cap Products) \ (t \cup frontier)
      /\ depth' = depth + 1 /\ outcome' = "fetching"
      /\ UNCHANGED <<bom, call, stack>> /\ stack = << >> /\ call = NoCall
  BY DEF FetchLevel, Inv, PathsInv
<1>3. /\ lv2 \in [t \cup frontier \cup frontier' -> Nat]
      /\ \A s \in t \cup frontier : lv2[s] = lv[s]
      /\ \A s \in frontier' : lv2[s] = depth + 1
  BY <1>1, <1>2 DEF LevelsOK
<1> HIDE DEF lv2
<1>4. ASSUME NEW s \in t \cup frontier, NEW p \in Products, IsPart(bom, s, p)
      PROVE  p \in t \cup frontier \cup frontier' /\ lv2[p] <= lv2[s] + 1
  <2>1. CASE s \in t
    <3>1. p \in t \cup frontier /\ lv[p] <= lv[s] + 1
      BY <1>1, <1>4, <2>1 DEF LevelsOK
    <3> QED BY <1>3, <3>1
  <2>2. CASE s \in frontier /\ p \in t \cup frontier
    <3>1. lv[s] = depth /\ lv[p] <= depth /\ lv[p] \in Nat
      BY <1>1, <2>2 DEF LevelsOK
    <3> QED BY <1>1, <1>3, <2>2, <3>1
  <2>3. CASE s \in frontier /\ p \notin t \cup frontier
    <3>1. bom[s] \in Seq(Rows)
      BY <2>3 DEF Inv, ReadInv
    <3>2. p \in frontier'
      BY <1>2, <1>4, <2>3, <3>1, PartIn
    <3>3. lv[s] = depth
      BY <1>1, <2>3 DEF LevelsOK
    <3> QED BY <1>1, <1>3, <2>3, <3>2, <3>3
  <2> QED BY <2>1, <2>2, <2>3
<1>5. LevelsOK(DOMAIN tree', frontier', depth', bom', lv2)
  <2>1. \A s \in t \cup frontier : lv[s] <= depth + 1 /\ lv[s] \in Nat
    BY <1>1 DEF LevelsOK
  <2>2. Root \in t \cup frontier /\ lv2[Root] = 0
    BY <1>1, <1>3 DEF LevelsOK
  <2>3. (t \cup frontier) \cap frontier' = {}
    BY <1>2
  <2> HIDE DEF t
  <2> QED BY <1>2, <1>3, <1>4, <2>1, <2>2, <2>3 DEF LevelsOK
<1>6. LevelsOpen(lv2, stack', call')
  BY <1>2 DEF LevelsOpen
<1>7. depth' \in Nat
  BY <1>1, <1>2
<1> QED BY <1>2, <1>5, <1>6, <1>7 DEF Levels

LEMMA LevelsFetched == ASSUME Inv, Levels, Fetched PROVE Levels'
<1>1. PICK lv : LevelsOK(DOMAIN tree, frontier, depth, bom, lv) /\ depth \in Nat
  BY DEF Levels
<1>2. /\ UNCHANGED <<bom, tree, frontier, depth, stack>> /\ stack = << >>
      /\ call'.sku = Root /\ (frontier = {} \/ depth > MaxDepth)
  BY <1>1, ExplosionAssumption DEF Fetched, Inv, PathsInv, GoesOn
<1>3. LevelsOpen(lv, stack', call')
  BY <1>1, <1>2 DEF LevelsOpen, LevelsOK
<1> QED BY <1>1, <1>2, <1>3 DEF Levels

LEMMA LevelsEnter == ASSUME Inv, Levels, Enter PROVE Levels'
<1> DEFINE n == Len(stack)
<1>1. PICK lv : /\ LevelsOK(DOMAIN tree, frontier, depth, bom, lv) /\ depth \in Nat
                /\ outcome # "fetching" => frontier = {} \/ depth > MaxDepth
                /\ LevelsOpen(lv, stack, call)
  BY DEF Levels
<1>2. /\ n \in Nat /\ Len(stack') = n + 1
      /\ \A k \in 1..n : stack'[k] = stack[k]
      /\ stack'[n + 1].sku = call.sku /\ call # NoCall /\ call' = NoCall
      /\ UNCHANGED <<bom, tree, frontier, depth, outcome>>
  BY EnterShape
<1>3. lv[call.sku] <= n /\ lv[call.sku] \in Nat
  <2>1. call.sku \in DOMAIN tree
    BY <1>2 DEF Inv, WalkType
  <2> QED BY <1>1, <1>2, <2>1 DEF LevelsOpen, LevelsOK
<1>4. LevelsOpen(lv, stack', call')
  <2>1. ASSUME NEW k \in 1..(n + 1) PROVE lv[stack'[k].sku] < k
    <3>1. CASE k = n + 1
      BY <1>2, <1>3, <3>1
    <3>2. CASE k # n + 1
      <4>1. k \in 1..n
        BY <1>2, <3>2
      <4>2. lv[stack[k].sku] < k /\ stack'[k] = stack[k]
        BY <1>1, <1>2, <4>1 DEF LevelsOpen
      <4> QED BY <4>2
    <3> QED BY <3>1, <3>2
  <2> QED BY <1>2, <2>1 DEF LevelsOpen
<1> QED BY <1>1, <1>2, <1>4 DEF Levels

\* The parts of an open walk that are SKUs have been read: the fetch stops no
\* earlier than the recursion.
LEMMA LevelsRow ==
  ASSUME Inv, Links, Levels, Row
  PROVE  /\ Levels'
         /\ call' = NoCall => bom[stack[Len(stack)].sku][stack[Len(stack)].i].part \notin Products
<1> DEFINE n == Len(stack)
           row == bom[stack[n].sku][stack[n].i]
<1>1. PICK lv : /\ LevelsOK(DOMAIN tree, frontier, depth, bom, lv) /\ depth \in Nat
                /\ outcome # "fetching" => frontier = {} \/ depth > MaxDepth
                /\ LevelsOpen(lv, stack, call)
  BY DEF Levels
<1>2. /\ n \in Nat \ {0} /\ stack[n].sku \in DOMAIN tree
      /\ stack[n].i \in DOMAIN bom[stack[n].sku]
      /\ Len(stack') = n
      /\ \A k \in 1..n : stack'[k].sku = stack[k].sku
      /\ row.part \in DOMAIN tree => call' # NoCall /\ call'.sku = row.part
      /\ row.part \notin DOMAIN tree => call' = NoCall
      /\ outcome = "walking" /\ UNCHANGED <<bom, tree, frontier, depth, outcome>>
  BY RowShape
<1>3. lv[stack[n].sku] < n /\ lv[stack[n].sku] \in Nat
  <2>1. n \in 1..n
    BY <1>2
  <2> QED BY <1>1, <1>2, <2>1 DEF LevelsOpen, LevelsOK
<1>4. IsPart(bom, stack[n].sku, row.part)
  BY <1>2 DEF IsPart
<1>5. row.part \in Products => row.part \in DOMAIN tree \cup frontier
                               /\ lv[row.part] <= lv[stack[n].sku] + 1 /\ lv[row.part] \in Nat
  BY <1>1, <1>2, <1>4 DEF LevelsOK
<1>6. DOMAIN tree \subseteq Products /\ n <= MaxDepth /\ MaxDepth \in Nat
  BY ExplosionAssumption DEF Inv, ReadInv, RecursionIsBounded
<1> HIDE DEF row, n
<1>7. row.part \in Products => row.part \in DOMAIN tree
  <2> SUFFICES ASSUME row.part \in Products, row.part \in frontier PROVE FALSE
    BY <1>5
  <2>1. lv[row.part] = depth
    BY <1>1 DEF LevelsOK
  <2>2. depth > MaxDepth
    BY <1>1, <1>2
  <2> QED BY <1>1, <1>2, <1>3, <1>5, <1>6, <2>1, <2>2
<1>8. LevelsOpen(lv, stack', call')
  <2>1. \A k \in 1..n : lv[stack'[k].sku] < k
    BY <1>1, <1>2 DEF LevelsOpen, n
  <2>2. call' # NoCall => lv[call'.sku] <= n
    BY <1>2, <1>3, <1>5, <1>6
  <2> QED BY <1>2, <2>1, <2>2 DEF LevelsOpen
<1>9. Levels'
  BY <1>1, <1>2, <1>8 DEF Levels
<1>10. call' = NoCall => row.part \notin Products
  BY <1>2, <1>7
<1> QED BY <1>9, <1>10 DEF row, n

LEMMA LevelsReturn == ASSUME Inv, Links, Levels, Return PROVE Levels'
<1> DEFINE n == Len(stack)
<1>1. PICK lv : /\ LevelsOK(DOMAIN tree, frontier, depth, bom, lv) /\ depth \in Nat
                /\ outcome # "fetching" => frontier = {} \/ depth > MaxDepth
                /\ LevelsOpen(lv, stack, call)
  BY DEF Levels
<1>2. /\ n \in Nat \ {0} /\ Len(stack') = n - 1
      /\ \A k \in 1..(n - 1) : stack'[k] = stack[k]
      /\ call' = NoCall /\ outcome = "walking"
      /\ UNCHANGED <<bom, tree, frontier, depth>>
  BY ReturnShape
<1>3. LevelsOpen(lv, stack', call')
  BY <1>1, <1>2 DEF LevelsOpen
<1> QED BY <1>1, <1>2, <1>3 DEF Levels

LEMMA LevelsNext == Inv /\ Links /\ Levels /\ [Next]_vars => Levels'
<1> SUFFICES ASSUME Inv, Links, Levels, [Next]_vars PROVE Levels'
  OBVIOUS
<1>1. CASE UNCHANGED vars
  BY <1>1 DEF vars, Levels
<1>2. CASE Reject
  <2>1. outcome # "fetching" /\ UNCHANGED <<bom, tree, frontier, depth, call, stack>>
    BY <1>2 DEF Reject
  <2> QED BY <2>1 DEF Levels
<1>3. CASE Next /\ ~Reject
  BY <1>3, LevelsFetch, LevelsFetched, LevelsEnter, LevelsRow, LevelsReturn DEF Next
<1> QED BY <1>1, <1>2, <1>3

-----------------------------------------------------------------------------
(* The lines *)

Line == [qtyPerUnit : Nat, requiredQty : Nat, sourceSku : Products, level : Nat]

\* The key of the row that a way leads to.
KeyOf(b, w) == dedupeKey(RowAt(b, w[Len(w)]))
WithKey(b, C, k) == {w \in C : KeyOf(b, w) = k}

\* The lines ls are those of the ways C.
LinesOK(b, ls, C) ==
  /\ Counts(Required(b), C)
  /\ \A k \in DOMAIN ls : ls[k] \in Line
  /\ \A w \in C : KeyOf(b, w) \in DOMAIN ls
  /\ \A k \in DOMAIN ls : ls[k].requiredQty = Total(Required(b), WithKey(b, C, k))

LineSum ==
  /\ outcome = "fetching" => lines = << >>
  /\ outcome # "done" => LinesOK(bom, lines, CountedWays(bom, stack, call))
  /\ outcome = "done" => LinesOK(bom, lines, AllWays(bom))

\* No lines for no ways.
LEMMA NoLines ==
  ASSUME NEW b
  PROVE  LinesOK(b, << >>, {})
<1>1. DOMAIN << >> = {}
  OBVIOUS
<1>2. Counts(Required(b), {})
  BY FS_EmptySet DEF Counts
<1> QED BY <1>1, <1>2 DEF LinesOK

\* One way more, and what it requires added to the line of its key.
LEMMA LineMore ==
  ASSUME NEW b, NEW ls, NEW ls2, NEW C, NEW h, h \in AllWays(b), h \notin C, LinesOK(b, ls, C),
         NEW key, key = KeyOf(b, h), NEW qty \in Nat, RequiredOn(b, h) = qty, NEW line \in Line,
         line.requiredQty = qty,
         ls2 = [k \in DOMAIN ls \cup {key} |->
                  IF k # key THEN ls[k]
                  ELSE IF k \in DOMAIN ls THEN [ls[k] EXCEPT !.requiredQty = @ + qty] ELSE line]
  PROVE  LinesOK(b, ls2, C \cup {h})
<1> DEFINE R == Required(b)
           D == C \cup {h}
<1>1. R[h] = qty
  BY DEF Required
<1>2. Counts(R, C) /\ Counts(R, D)
  <2>1. IsFiniteSet(D)
    BY FS_AddElement DEF LinesOK, Counts
  <2> HIDE DEF R
  <2> QED BY <1>1, <2>1 DEF LinesOK, Counts, R
<1> HIDE DEF R
<1>3. DOMAIN ls2 = DOMAIN ls \cup {key}
  OBVIOUS
<1>4. \A w \in D : KeyOf(b, w) \in DOMAIN ls2
  BY <1>3 DEF LinesOK
<1>5. ASSUME NEW k \in DOMAIN ls2
      PROVE  ls2[k] \in Line /\ ls2[k].requiredQty = Total(R, WithKey(b, D, k))
  <2>1. CASE k # key
    <3>1. ls2[k] = ls[k] /\ k \in DOMAIN ls
      BY <1>3, <2>1
    <3>2. WithKey(b, D, k) = WithKey(b, C, k)
      BY <2>1 DEF WithKey
    <3> QED BY <3>1, <3>2 DEF LinesOK, R
  <2>2. CASE k = key
    <3> DEFINE S == WithKey(b, C, key)
    <3>1. WithKey(b, D, key) = S \cup {h} /\ h \notin S
      BY DEF WithKey
    <3>2. Counts(R, S \cup {h})
      <4>1. S \cup {h} \in SUBSET D
        BY DEF WithKey
      <4>2. IsFiniteSet(S \cup {h})
        BY <1>2, <4>1, FS_Subset DEF Counts
      <4> HIDE DEF S, D
      <4> QED BY <1>2, <4>1, <4>2 DEF Counts
    <3>3. Total(R, S) \in Nat /\ Total(R, S \cup {h}) = Total(R, S) + qty
      <4> HIDE DEF S, D
      <4>1. h \notin S
        BY <3>1
      <4>2. Total(R, S) \in Nat /\ Total(R, S \cup {h}) = Total(R, S) + R[h]
        BY <3>2, <4>1, TotalMore
      <4> QED BY <1>1, <4>2
    <3>4. CASE key \in DOMAIN ls
      <4>1. PICK old \in Line : old = ls[key] /\ old.requiredQty = Total(R, S)
        BY <3>4 DEF LinesOK, R
      <4>2. ls2[key] = [old EXCEPT !.requiredQty = @ + qty]
        BY <3>4, <4>1
      <4>3. old = [qtyPerUnit |-> old.qtyPerUnit, requiredQty |-> old.requiredQty,
                   sourceSku |-> old.sourceSku, level |-> old.level]
            /\ old.qtyPerUnit \in Nat /\ old.requiredQty \in Nat /\ old.sourceSku \in Products
            /\ old.level \in Nat
        BY DEF Line
      <4>4. ls2[key] = [qtyPerUnit |-> old.qtyPerUnit, requiredQty |-> old.requiredQty + qty,
                        sourceSku |-> old.sourceSku, level |-> old.level]
        BY <4>2, <4>3
      <4>5. ls2[key] \in Line /\ ls2[key].requiredQty = old.requiredQty + qty
        BY <4>3, <4>4 DEF Line
      <4> HIDE DEF S
      <4> QED BY <2>2, <3>1, <3>3, <4>1, <4>5
    <3>5. CASE key \notin DOMAIN ls
      <4>1. ls2[key] = line
        BY <3>5
      <4>2. S = {}
        BY <3>5 DEF WithKey, LinesOK
      <4>3. Total(R, S) = 0
        BY <4>2, TotalNone
      <4> HIDE DEF S, D
      <4>4. Total(R, WithKey(b, D, key)) = qty
        BY <3>1, <3>3, <4>3
      <4>5. ls2[k] = line /\ line \in Line /\ line.requiredQty = qty
        BY <2>2, <4>1
      <4> QED BY <2>2, <4>4, <4>5
    <3> QED BY <3>4, <3>5
  <2> QED BY <2>1, <2>2
<1> QED BY <1>2, <1>4, <1>5 DEF LinesOK, R

\* What the walk knows of its frames.
LEMMA WalkIs ==
  ASSUME NEW b, NEW st, NEW c, st \in Seq(Frame), Chained(b, st, c)
  PROVE  Walk(b, st)
<1>1. \A k \in 1..Len(st) : st[k] \in Frame
  OBVIOUS
<1>2. \A k \in 1..Len(st) : st[k].sku \in Products /\ st[k].i \in Nat \ {0}
  BY <1>1 DEF Frame
<1> QED BY <1>2 DEF Walk, Chained

LEMMA OpenWalk ==
  ASSUME Inv, Links
  PROVE  Walk(bom, stack) /\ BomType(bom)
<1>1. stack \in Seq(Frame) /\ Chained(bom, stack, call)
  BY DEF Inv, WalkType, Links
<1>2. BomType(bom)
  BY DEF Inv, ReadInv, BomType
<1> QED BY <1>1, <1>2, WalkIs

\* The lines are those of the ways counted, at each point.
LEMMA SumInit == Init => LineSum
<1> SUFFICES ASSUME Init PROVE LineSum
  OBVIOUS
<1>1. lines = << >> /\ Len(stack) = 0 /\ outcome = "fetching"
  BY DEF Init
<1>2. CountedWays(bom, stack, call) = {}
  BY <1>1, NoneCounted
<1>3. LinesOK(bom, lines, {})
  BY <1>1, NoLines
<1> QED BY <1>1, <1>2, <1>3 DEF LineSum

LEMMA SumFetch == ASSUME Inv, LineSum, FetchLevel \/ Fetched PROVE LineSum'
<1>1. /\ lines = << >> /\ stack = << >> /\ UNCHANGED <<bom, lines, stack>>
      /\ outcome' \in {"fetching", "walking"}
  BY DEF Inv, PathsInv, LineSum, FetchLevel, Fetched
<1>2. Len(stack') = 0
  BY <1>1
<1>3. CountedWays(bom', stack', call') = {}
  BY <1>2, NoneCounted
<1>4. LinesOK(bom', lines', {})
  BY <1>1, NoLines
<1> QED BY <1>1, <1>3, <1>4 DEF LineSum

LEMMA SumEnter == ASSUME Inv, Links, LineSum, Enter PROVE LineSum'
<1>1. /\ Len(stack) \in Nat /\ Len(stack') = Len(stack) + 1
      /\ \A k \in 1..Len(stack) : stack'[k] = stack[k]
      /\ stack'[Len(stack) + 1].i = 1
      /\ call # NoCall /\ call' = NoCall
      /\ outcome = "walking" /\ UNCHANGED <<bom, lines, outcome>>
  BY EnterShape
<1>2. Walk(bom, stack) /\ BomType(bom)
  BY OpenWalk
<1>3. \A k \in 1..Len(stack) : stack[k].i \in Nat
  BY <1>2 DEF Walk
<1>4. PICK st2 : st2 = stack'
  OBVIOUS
<1>5. CountedWays(bom, st2, NoCall) = CountedWays(bom, stack, call)
  BY <1>1, <1>2, <1>3, <1>4, EnterCounts
<1>6. LinesOK(bom, lines, CountedWays(bom, st2, NoCall))
  BY <1>1, <1>5 DEF LineSum
<1> QED BY <1>1, <1>4, <1>6 DEF LineSum

\* A row adds what it requires to the line of its part, and is the one way that
\* is counted then.
LEMMA SumRow == ASSUME Inv, Links, Links', Levels, LineSum, Row, Inv' PROVE LineSum'
<1> DEFINE n == Len(stack)
           row == bom[stack[n].sku][stack[n].i]
           qty == round3(stack[n].qty * row.qtyPerUnit)
           C == CountedWays(bom, stack, NoCall)
<1>1. /\ n \in Nat \ {0} /\ stack[n] \in Frame
      /\ stack[n].i \in DOMAIN bom[stack[n].sku] /\ row \in Rows /\ qty \in Nat
      /\ Len(stack') = n
      /\ \A k \in 1..n : stack'[k].sku = stack[k].sku /\ stack'[k].qty = stack[k].qty
      /\ \A k \in 1..(n - 1) : stack'[k] = stack[k]
      /\ stack'[n].i = stack[n].i + 1
      /\ lines' = Aggregated(row, qty, stack[n].sku, n - 1)
      /\ call = NoCall /\ outcome = "walking" /\ UNCHANGED <<bom, outcome>>
  BY RowShape
<1>2. call' = NoCall => row.part \notin Products
  BY LevelsRow
<1>3. Walk(bom, stack) /\ BomType(bom) /\ n <= MaxDepth
  BY OpenWalk DEF Inv, RecursionIsBounded
<1>4. PICK st2, c2 : st2 = stack' /\ c2 = call'
  OBVIOUS
<1>5. Walk(bom, st2) /\ st2[1].qty = Qty
  <2>0. st2 \in Seq(Frame) /\ Chained(bom, st2, c2)
    BY <1>1, <1>4 DEF Inv, WalkType, Links
  <2>1. Walk(bom, st2)
    BY <2>0, WalkIs
  <2>2. stack'[1].qty = Qty
    BY <1>1 DEF Links, Chained
  <2> QED BY <1>4, <2>1, <2>2
<1> DEFINE h == Here(st2)
<1>6. /\ h \in AllWays(bom) /\ Len(h) = n /\ h \notin C
      /\ CountedWays(bom, st2, c2) = C \cup {h}
  <2> HIDE DEF n
  <2>1. /\ BomType(bom) /\ n \in Nat \ {0} /\ n <= MaxDepth
        /\ Len(stack) = n /\ Len(st2) = n /\ Walk(bom, stack) /\ Walk(bom, st2)
        /\ \A k \in 1..n : st2[k].sku = stack[k].sku
        /\ \A k \in 1..(n - 1) : st2[k] = stack[k]
        /\ st2[n].i = stack[n].i + 1 /\ stack[n].i \in DOMAIN bom[stack[n].sku]
        /\ c2 = NoCall => bom[stack[n].sku][stack[n].i].part \notin Products
    BY <1>1, <1>2, <1>3, <1>4, <1>5 DEF n
  <2>2. /\ Here(st2) \in AllWays(bom) /\ Len(Here(st2)) = n
        /\ Here(st2) \notin CountedWays(bom, stack, NoCall)
        /\ CountedWays(bom, st2, c2) = CountedWays(bom, stack, NoCall) \cup {Here(st2)}
    <3> HIDE DEF row, qty, C, h
    <3> QED BY <2>1, RowCounts
  <2> QED BY <2>2
<1>7. st2[n].sku = stack[n].sku /\ st2[n].qty = stack[n].qty /\ st2[n].i - 1 = stack[n].i
  <2>1. n \in 1..n /\ stack[n].i \in Nat
    BY <1>1 DEF Frame
  <2>2. st2[n].sku = stack[n].sku /\ st2[n].qty = stack[n].qty /\ st2[n].i = stack[n].i + 1
    <3> HIDE DEF n, row, qty, C, h
    <3> QED BY <1>1, <1>4, <2>1
  <2> QED BY <2>1, <2>2
<1>8. RequiredOn(bom, h) = qty
  <2>1. n \in Nat \ {0} /\ Len(st2) = n /\ st2[1].qty = Qty
        /\ \A k \in 1..(n - 1) : Leads(bom, st2[k], st2[k + 1])
    BY <1>1, <1>4, <1>5 DEF Walk
  <2>2. RequiredOn(bom, h) = round3(st2[n].qty * bom[st2[n].sku][st2[n].i - 1].qtyPerUnit)
    BY <2>1, HereRequires
  <2> QED BY <1>7, <2>2
<1>9. RowAt(bom, h[Len(h)]) = row
  <2>1. n \in 1..Len(st2)
    BY <1>1, <1>4
  <2>2. h[n] = [sku |-> st2[n].sku, i |-> st2[n].i - 1]
    BY <2>1 DEF Here
  <2> QED BY <1>6, <1>7, <2>2 DEF RowAt
<1> DEFINE key == dedupeKey(row)
           line == [qtyPerUnit |-> row.qtyPerUnit, requiredQty |-> qty,
                    sourceSku |-> stack[n].sku, level |-> n - 1]
<1>10. line \in Line /\ line.requiredQty = qty
  <2>1. row.qtyPerUnit \in Nat /\ stack[n].sku \in Products /\ n - 1 \in Nat
    BY <1>1, ExplosionAssumption DEF Frame
  <2> HIDE DEF row, qty, n
  <2> QED BY <1>1, <2>1 DEF Line
<1>11. lines' = [k \in DOMAIN lines \cup {key} |->
                  IF k # key THEN lines[k]
                  ELSE IF k \in DOMAIN lines THEN [lines[k] EXCEPT !.requiredQty = @ + qty] ELSE line]
  BY <1>1 DEF Aggregated
<1>12. key = KeyOf(bom, h)
  BY <1>9 DEF KeyOf
<1>13. LinesOK(bom, lines, C)
  BY <1>1 DEF LineSum
<1>14. PICK ls2 : ls2 = lines'
  OBVIOUS
<1> HIDE DEF n, row, qty, C, h, key, line
<1>15. LinesOK(bom, ls2, C \cup {h})
  <2>1. ls2 = [k \in DOMAIN lines \cup {key} |->
                  IF k # key THEN lines[k]
                  ELSE IF k \in DOMAIN lines THEN [lines[k] EXCEPT !.requiredQty = @ + qty] ELSE line]
    BY <1>11, <1>14
  <2>2. qty \in Nat
    BY <1>1
  <2> QED BY <1>6, <1>8, <1>10, <1>12, <1>13, <2>1, <2>2, LineMore
<1> QED BY <1>1, <1>4, <1>6, <1>14, <1>15 DEF LineSum

LEMMA SumReturn == ASSUME Inv, Links, LineSum, Return PROVE LineSum'
<1> DEFINE n == Len(stack)
<1>1. /\ n \in Nat \ {0} /\ stack[n].i > Len(bom[stack[n].sku])
      /\ Len(stack') = n - 1
      /\ \A k \in 1..(n - 1) : stack'[k] = stack[k]
      /\ call = NoCall /\ call' = NoCall /\ outcome = "walking"
      /\ outcome' = IF n = 1 THEN "done" ELSE outcome
      /\ UNCHANGED <<bom, lines>>
  BY ReturnShape
<1>2. Walk(bom, stack) /\ BomType(bom)
  BY OpenWalk
<1>3. LinesOK(bom, lines, CountedWays(bom, stack, NoCall))
  BY <1>1 DEF LineSum
<1>4. PICK st2 : st2 = stack'
  OBVIOUS
<1>5. CASE n = 1
  <2>1. CountedWays(bom, stack, NoCall) = AllWays(bom)
    BY <1>1, <1>2, <1>5, AllCounted
  <2>2. outcome' = "done"
    BY <1>1, <1>5
  <2> QED BY <1>1, <1>3, <2>1, <2>2 DEF LineSum
<1>6. CASE n # 1
  <2> HIDE DEF n
  <2>1. n \in Nat /\ n > 1 /\ Len(stack) = n /\ stack[n].i > Len(bom[stack[n].sku])
        /\ Len(st2) = n - 1 /\ \A k \in 1..(n - 1) : st2[k] = stack[k]
    BY <1>1, <1>4, <1>6 DEF n
  <2>2. CountedWays(bom, st2, NoCall) = CountedWays(bom, stack, NoCall)
    BY <1>2, <2>1, ReturnCounts
  <2>3. outcome' = "walking"
    BY <1>1, <1>6
  <2> QED BY <1>1, <1>3, <1>4, <2>2, <2>3 DEF LineSum
<1> QED BY <1>5, <1>6

\* What has been found at each point of the walk.
Explored == Inv /\ Links /\ Levels /\ LineSum

LEMMA ExploredNext == Explored /\ [Next]_vars => Explored'
<1> SUFFICES ASSUME Explored, [Next]_vars PROVE Explored'
  OBVIOUS
<1>1. Inv' /\ Links' /\ Levels'
  BY InvNext, LinksNext, LevelsNext DEF Explored
<1>2. LineSum'
  <2>1. CASE UNCHANGED vars
    BY <2>1 DEF vars, Explored, LineSum
  <2>2. CASE Reject
    <3>1. outcome = "walking" /\ outcome' \in {"cycle", "too deep"}
          /\ UNCHANGED <<bom, lines, stack, call>>
      BY <2>2 DEF Reject
    <3> QED BY <3>1 DEF Explored, LineSum
  <2>3. CASE Next /\ ~Reject
    BY <1>1, <2>3, SumFetch, SumEnter, SumRow, SumReturn DEF Next, Explored
  <2> QED BY <2>1, <2>2, <2>3
<1> QED BY <1>1, <1>2 DEF Explored

\* An explosion that is answered has a line for every part on a way down from
\* the SKU, and the quantity of a line is the sum of what all ways to its part
\* require: for every BOM, quantity and limit, and any number of ways.
THEOREM AnswersAreWhole == Spec => []ExplosionIsPathSum
<1>1. Init => Explored
  BY InitInv, LinksInit, LevelsInit, SumInit DEF Explored
<1>2. Explored => ExplosionIsPathSum
  <2> SUFFICES ASSUME Explored, outcome = "done"
               PROVE  /\ \A w \in AllWays(bom) : \E k \in DOMAIN lines : w \in To(bom, k)
                      /\ \A k \in DOMAIN lines : lines[k].requiredQty = Total(Required(bom), To(bom, k))
    BY DEF ExplosionIsPathSum
  <2>1. LinesOK(bom, lines, AllWays(bom))
    BY DEF Explored, LineSum
  <2>2. \A k : To(bom, k) = WithKey(bom, AllWays(bom), k)
    BY DEF To, WithKey, KeyOf, dedupeKey
  <2>3. \A w \in AllWays(bom) : w \in WithKey(bom, AllWays(bom), KeyOf(bom, w))
    BY DEF WithKey
  <2> QED BY <2>1, <2>2, <2>3 DEF LinesOK
<1> QED BY <1>1, <1>2, ExploredNext, PTL DEF Spec

=============================================================================
