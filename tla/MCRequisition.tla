---------------------------- MODULE MCRequisition ----------------------------
(* Small instances of Requisition for TLC. *)
EXTENDS Requisition, TLC

CONSTANTS o1, o2

\* One order needs a component without a part, too.
SmallNeed == [o \in Orders |-> [k \in Keys |-> IF k = Unlinked /\ o = o1 THEN 1
                                               ELSE IF k = Unlinked THEN 0 ELSE 1]]
OneIfCrowded == <<{o1, o2}, {o2}>>
\* Around the snapshots and their readers, around the stock, or around what is
\* judged by it.
Mixes == <<{{"snapshot", "check", "adjust"}, {"snapshot", "status", "adjust"}},
           {{"snapshot", "check"}, {"status", "adjust"}, {"check", "adjust"}}>>
OneMoreOrLess == {1, -1}

Symmetry == Permutations(Clients)

=============================================================================
