---------------------------- MODULE MCPoReceipt ----------------------------
(* Small instances of PoReceipt for TLC. *)
EXTENDS PoReceipt, TLC

CONSTANTS p1, p2, l1, l2, l3, board, glue

\* An order with a line of a raw material and one of a general item, and an order with one
\* line of the general item.
PoOfLine == l1 :> p1 @@ l2 :> p1 @@ l3 :> p2
ItemOfLine == l1 :> board @@ l2 :> glue @@ l3 :> glue

\* A request at a time on the first, or two requests about the second.
OneOrTwo ==
  <<[orders |-> {p1}, ordered |-> {1, 2}, grnLines |-> 2, perGrn |-> 2, stock |-> 1],
    [orders |-> {p2}, ordered |-> {1}, grnLines |-> 2, perGrn |-> 1, stock |-> 0]>>

Symmetry == Permutations(Clients)

=============================================================================
