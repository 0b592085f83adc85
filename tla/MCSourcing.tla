----------------------------- MODULE MCSourcing -----------------------------
(* Small instances of Sourcing for TLC. *)
EXTENDS Sourcing, TLC

CONSTANTS r1, r2

\* Two RFQs for one request at a time, one RFQ for two of them.
OneIfCrowded == <<{r1, r2}, {r1}>>

Symmetry == Permutations(Clients)

=============================================================================
