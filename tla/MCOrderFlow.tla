---------------------------- MODULE MCOrderFlow ----------------------------
(* Small instances of OrderFlow for TLC. *)
EXTENDS OrderFlow

CONSTANTS o1, o2

TwoEach == [o \in Orders |-> 2]

\* A request at a time on two orders with their serial numbers, or two requests about one
\* order; one clean-up may fail or the process die in a scheduling run.
OneOrTwo == <<[orders |-> {o1, o2}, history |-> 4, serials |-> 4, faults |-> 1],
              [orders |-> {o1}, history |-> 5, serials |-> 0, faults |-> 1]>>

=============================================================================
