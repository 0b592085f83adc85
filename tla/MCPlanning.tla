------------------------------ MODULE MCPlanning ------------------------------
(* A small instance of Planning for TLC. *)
EXTENDS Planning

CONSTANTS o1, o2, o3

\* Up to 4/3, 1/3 and 1 piece a day; o2 and o3 are alike in urgency.
SmallOrders == [o \in Orders |->
  CASE o = o1 -> [qty |-> 2, weight |-> 3, dueDate |-> 2, type |-> "lamp",
                  taktTimeSec |-> 3, manpowerRequired |-> 2]
    [] o = o2 -> [qty |-> 1, weight |-> 2, dueDate |-> 9, type |-> "lamp",
                  taktTimeSec |-> 12, manpowerRequired |-> 1]
    [] o = o3 -> [qty |-> 1, weight |-> 2, dueDate |-> 9, type |-> "driver",
                  taktTimeSec |-> 4, manpowerRequired |-> 1]]
SmallLines == [l \in Lines |->
  IF l = 1 THEN [efficiencyPct |-> 100, compatibleProductTypes |-> {"lamp", "driver"}]
  ELSE [efficiencyPct |-> 50, compatibleProductTypes |-> {"lamp"}]]

\* All present, or one on the first line and nobody on the second.
FullOrShort == {[l \in Lines |-> 2], [l \in Lines |-> IF l = 1 THEN 1 ELSE 0]}

=============================================================================
