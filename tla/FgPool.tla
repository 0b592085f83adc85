------------------------------- MODULE FgPool -------------------------------
(***************************************************************************)
(* What the finished-goods module promises, without its rows and columns:  *)
(* QC-passed stock is a pool per batch, every unit of it free, claimed by  *)
(* one sales order or shipped.  A sales order claims what is free and can  *)
(* give it back; what it ships comes out of its own claim first and out of *)
(* the free stock after that; a batch on hold is neither claimed nor       *)
(* shipped.                                                                *)
(***************************************************************************)
EXTENDS Integers

CONSTANTS Batches, SalesOrders, NoSO, PassedQty,
          MaxClaim,  \* bound: what one claim takes or gives back
          MaxShip    \* bound: what one shipment takes of one batch

VARIABLES
  received,  \* the batches whose stock has come in
  free,      \* stock of each batch nobody has claimed
  claim,     \* what each sales order has claimed of each batch
  shipped,   \* what has left each batch
  held       \* the batches on hold

poolVars == <<received, free, claim, shipped, held>>

PoolInit ==
  /\ received = {} /\ held = {}
  /\ free = [b \in Batches |-> 0]
  /\ shipped = [b \in Batches |-> 0]
  /\ claim = [b \in Batches |-> [s \in SalesOrders |-> 0]]

Receive(b) ==
  /\ b \notin received
  /\ received' = received \cup {b}
  /\ free' = [free EXCEPT ![b] = PassedQty[b]]
  /\ UNCHANGED <<claim, shipped, held>>

Claim(b, s, q) ==
  /\ b \in received \ held /\ q <= free[b]
  /\ free' = [free EXCEPT ![b] = @ - q]
  /\ claim' = [claim EXCEPT ![b][s] = @ + q]
  /\ UNCHANGED <<received, shipped, held>>

GiveBack(b, s, q) ==
  /\ q <= claim[b][s]
  /\ free' = [free EXCEPT ![b] = @ + q]
  /\ claim' = [claim EXCEPT ![b][s] = @ - q]
  /\ UNCHANGED <<received, shipped, held>>

\* What a shipment of n from b for s takes out of the claim of s.
FromClaim(b, s, n) ==
  IF s = NoSO THEN 0 ELSE IF n <= claim[b][s] THEN n ELSE claim[b][s]

Ship(s, out) ==
  /\ \A b \in Batches : out[b] > 0 =>
       b \in received \ held /\ out[b] <= free[b] + FromClaim(b, s, out[b])
  /\ shipped' = [b \in Batches |-> shipped[b] + out[b]]
  /\ free' = [b \in Batches |-> free[b] - (out[b] - FromClaim(b, s, out[b]))]
  /\ claim' = [b \in Batches |-> [t \in SalesOrders |->
       IF t = s THEN claim[b][t] - FromClaim(b, s, out[b]) ELSE claim[b][t]]]
  /\ UNCHANGED <<received, held>>

Hold(b) ==
  /\ b \in received \ held /\ held' = held \cup {b}
  /\ UNCHANGED <<received, free, claim, shipped>>

Release(b) ==
  /\ b \in held /\ held' = held \ {b}
  /\ UNCHANGED <<received, free, claim, shipped>>

PoolNext ==
  \/ \E b \in Batches : Receive(b) \/ Hold(b) \/ Release(b)
  \/ \E b \in Batches, s \in SalesOrders, q \in 1..MaxClaim :
       Claim(b, s, q) \/ GiveBack(b, s, q)
  \/ \E s \in SalesOrders \cup {NoSO}, out \in [Batches -> 0..MaxShip] : Ship(s, out)

PoolSpec == PoolInit /\ [][PoolNext]_poolVars

=============================================================================
