----------------------------- MODULE MCFgStock -----------------------------
(* Small instances of FgStock for TLC. *)
EXTENDS FgStock, TLC

CONSTANT b1

\* What the inspections of the small instances passed.
OnePassed == [b \in Batches |-> 1]
TwoPassed == [b \in Batches |-> 2]
B1PassedTwo == [b \in Batches |-> IF b = b1 THEN 2 ELSE 1]

\* Sales orders are interchangeable, and so are clients.
Symmetry == Permutations(SalesOrders) \cup Permutations(Clients)

=============================================================================
