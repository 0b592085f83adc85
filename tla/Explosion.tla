------------------------------ MODULE Explosion -------------------------------
(***************************************************************************)
(* The explosion of a SKU into its parts: fetchBomTree of the backend's    *)
(* bomExplosion.service.ts, which reads the BOM breadth first, one level a *)
(* query, and explodeBom of bomExplosionEngine.ts, which walks what was    *)
(* read, depth first.  Both stop at MaxDepth, and they must agree on what  *)
(* that means: a sub-assembly the fetch leaves out is a part to the walk.  *)
(*                                                                         *)
(* A step is one level of the fetch, or one call, row or return of the     *)
(* recursive walk, whose frames are the stack.  Quantities are counted in  *)
(* 1/Unit (thousandths in the code, where round3 rounds each product).     *)
(***************************************************************************)
EXTENDS Integers, Sequences, FiniteSetsExt

CONSTANTS
  Products,  \* the SKUs of products
  Root,      \* the SKU to explode
  Qty,       \* the quantity to explode it at
  Rows,      \* BOM rows tried: [part, name, qtyPerUnit]
  NoPart,    \* partId: null
  MaxDepth,  \* BOM_EXPLOSION_MAX_DEPTH, 10 in the code
  Unit,      \* a quantity of 1
  MaxRows    \* bound: BOM rows of a SKU

ASSUME ExplosionAssumption ==
  /\ IsFiniteSet(Products) /\ Root \in Products /\ NoPart \notin Products
  /\ Qty \in Nat /\ MaxDepth \in Nat /\ Unit \in Nat \ {0} /\ MaxRows \in Nat
  /\ \A r \in Rows : r.qtyPerUnit \in Nat

VARIABLES
  bom,       \* bom_components, by modelRef
  tree,      \* bomBySku
  frontier,  \* the SKUs to fetch next
  depth,     \* the levels fetched
  call,      \* the walk about to be entered, if any
  stack,     \* the walks entered and not yet left
  lines,     \* aggregated: what has been found so far, by key
  deepest,   \* maxDepthReached
  outcome    \* fetching, walking, done, or the error thrown

vars == <<bom, tree, frontier, depth, call, stack, lines, deepest, outcome>>

-----------------------------------------------------------------------------

round3(n) == (n + Unit \div 2) \div Unit

\* A part by its id, a component without one by its name.
dedupeKey(row) ==
  IF row.part = NoPart THEN <<"name", row.name>> ELSE <<"part", row.part>>

NoCall == [sku |-> Root, qty |-> -1, path |-> << >>]
On(path) == {path[i] : i \in DOMAIN path}

Init ==
  /\ bom \in [Products -> UNION {[1..n -> Rows] : n \in 0..MaxRows}]
  /\ tree = << >> /\ frontier = {Root} /\ depth = 0
  /\ call = NoCall /\ stack = << >> /\ lines = << >> /\ deepest = 0
  /\ outcome = "fetching"

-----------------------------------------------------------------------------
(* fetchBomTree *)

\* Mutant: the last level the walk can ask for is not fetched.
GoesOnShort(d) == d < MaxDepth

GoesOn(d) == d <= MaxDepth

PartsOf(skus) == {row.part : row \in UNION {On(bom[s]) : s \in skus}}

\* The rows of a level, and the SKUs among their parts.
FetchLevel ==
  /\ outcome = "fetching" /\ frontier # {} /\ GoesOn(depth)
  /\ tree' = [s \in DOMAIN tree \cup frontier |-> bom[s]]
  /\ frontier' = (PartsOf(frontier) \cap Products) \ DOMAIN tree'
  /\ depth' = depth + 1
  /\ UNCHANGED <<bom, call, stack, lines, deepest, outcome>>

Fetched ==
  /\ outcome = "fetching" /\ ~(frontier # {} /\ GoesOn(depth))
  /\ outcome' = "walking"
  /\ call' = [sku |-> Root, qty |-> Qty, path |-> << >>]
  /\ UNCHANGED <<bom, tree, frontier, depth, stack, lines, deepest>>

-----------------------------------------------------------------------------
(* explodeBom *)

\* Mutant: every SKU entered so far counts, not only those on the path.
CyclicIfSeen(sku, path) ==
  sku \in On(path) \/ \E k \in DOMAIN lines : lines[k].sourceSku = sku

Cyclic(sku, path) == sku \in On(path)

\* Mutant: the recursion is given the path of its caller.
PathForgets(path, sku) == path

nextPath(path, sku) == Append(path, sku)

\* walk: into a SKU that is not on the path, and not too deep.
Enter ==
  /\ outcome = "walking" /\ call # NoCall
  /\ ~Cyclic(call.sku, call.path) /\ Len(call.path) < MaxDepth
  /\ stack' = Append(stack, [sku |-> call.sku, qty |-> call.qty, i |-> 1,
                             path |-> nextPath(call.path, call.sku)])
  /\ call' = NoCall
  /\ UNCHANGED <<bom, tree, frontier, depth, lines, deepest, outcome>>

\* BomCycleError, or BomDepthExceededError: nothing is answered.
Reject ==
  /\ outcome = "walking" /\ call # NoCall
  /\ \/ Cyclic(call.sku, call.path) /\ outcome' = "cycle"
     \/ /\ ~Cyclic(call.sku, call.path) /\ Len(call.path) >= MaxDepth
        /\ outcome' = "too deep"
  /\ UNCHANGED <<bom, tree, frontier, depth, call, stack, lines, deepest>>

\* One line more, or one more requirement of a line there is.
Aggregated(row, qty, sku, level) == LET key == dedupeKey(row) IN
  [k \in DOMAIN lines \cup {key} |->
     IF k # key THEN lines[k]
     ELSE IF k \in DOMAIN lines THEN [lines[k] EXCEPT !.requiredQty = @ + qty]
     ELSE [qtyPerUnit |-> row.qtyPerUnit, requiredQty |-> qty, sourceSku |-> sku, level |-> level]]

\* The next row of the innermost walk; into its part when that is a SKU.
Row ==
  /\ outcome = "walking" /\ call = NoCall /\ stack # << >>
  /\ LET top == stack[Len(stack)] IN
     /\ top.i <= Len(tree[top.sku])
     /\ LET row == tree[top.sku][top.i]
            qty == round3(top.qty * row.qtyPerUnit) IN
        /\ lines' = Aggregated(row, qty, top.sku, Len(stack) - 1)
        /\ deepest' = Max({deepest, Len(stack) - 1})
        /\ stack' = [stack EXCEPT ![Len(stack)].i = @ + 1]
        /\ call' = IF row.part \in DOMAIN tree
                   THEN [sku |-> row.part, qty |-> qty, path |-> top.path] ELSE NoCall
  /\ UNCHANGED <<bom, tree, frontier, depth, outcome>>

Return ==
  /\ outcome = "walking" /\ call = NoCall /\ stack # << >>
  /\ stack[Len(stack)].i > Len(tree[stack[Len(stack)].sku])
  /\ stack' = SubSeq(stack, 1, Len(stack) - 1)
  /\ outcome' = IF Len(stack) = 1 THEN "done" ELSE outcome
  /\ UNCHANGED <<bom, tree, frontier, depth, call, lines, deepest>>

Next == FetchLevel \/ Fetched \/ Enter \/ Reject \/ Row \/ Return

Spec == Init /\ [][Next]_vars

-----------------------------------------------------------------------------
(* What an explosion of a BOM b is *)

\* The ways down from the root: rows, each of the SKU that is the part of the
\* row before it.
RowAt(b, a) == b[a.sku][a.i]
Addresses(b) == UNION {{[sku |-> s, i |-> i] : i \in DOMAIN b[s]} : s \in Products}
Ways(b, n) == {w \in [1..n -> Addresses(b)] :
  /\ w[1].sku = Root
  /\ \A j \in 1..(n-1) : w[j+1].sku = RowAt(b, w[j]).part}
AllWays(b) == UNION {Ways(b, n) : n \in 1..(MaxDepth + 1)}

\* What one way down requires: a product, rounded at each row.
RequiredOn(b, w) == LET q[j \in 0..Len(w)] ==
  IF j = 0 THEN Qty ELSE round3(q[j-1] * RowAt(b, w[j]).qtyPerUnit) IN q[Len(w)]
Required(b) == [w \in AllWays(b) |-> RequiredOn(b, w)]

\* The sum of f over ids, as the number of the units it counts.
Total(f, ids) == Cardinality(UNION {{i} \X (1..f[i]) : i \in ids})

\* The ways down to rows of the line with key k.
To(b, k) == {w \in AllWays(b) : LET row == RowAt(b, w[Len(w)]) IN
               k = IF row.part = NoPart THEN <<"name", row.name>> ELSE <<"part", row.part>>}

\* The SKUs that a chain of n parts leads to from s.
Below(s, n) == LET r[m \in 0..n] ==
  IF m = 0 THEN {s} ELSE PartsOf(r[m-1]) \cap Products IN r[n]
Cycles(s) == \E n \in 1..Cardinality(Products) : s \in Below(s, n)

\* An explosion that is answered is the whole one: a line for every part on a
\* way down from the SKU, with the sum of what all ways to it require, whatever
\* the fetch left out, however often a sub-assembly occurs.
ExplosionIsPathSum == outcome = "done" =>
  /\ \A w \in AllWays(bom) : \E k \in DOMAIN lines : w \in To(bom, k)
  /\ \A k \in DOMAIN lines : lines[k].requiredQty = Total(Required(bom), To(bom, k))

\* An explosion is refused only for a BOM that is bad: with a SKU inside itself
\* below the root, or with a chain of more than MaxDepth SKUs.  A SKU that
\* merely occurs twice is no cycle.
RejectsOnlyBadBoms ==
  /\ outcome = "cycle" => \E n \in 0..MaxDepth : \E s \in Below(Root, n) : Cycles(s)
  /\ outcome = "too deep" => Below(Root, MaxDepth) # {}

\* The guards against runaway recursion guard it: on every BOM, cyclic ones
\* too, at most MaxDepth walks are entered and not left, of as many SKUs.
RecursionIsBounded ==
  /\ Len(stack) <= MaxDepth
  /\ \A i, j \in DOMAIN stack : stack[i].sku = stack[j].sku => i = j

=============================================================================
