----------------------------- MODULE MCExplosion ------------------------------
(* A small instance of Explosion for TLC. *)
EXTENDS Explosion

CONSTANTS A, B, C, bolt

\* Sub-assemblies, a part, and a component without a part that has its name.
SmallRows ==
  {[part |-> A, name |-> A, qtyPerUnit |-> 1], [part |-> B, name |-> B, qtyPerUnit |-> 3],
   [part |-> C, name |-> C, qtyPerUnit |-> 1], [part |-> bolt, name |-> bolt, qtyPerUnit |-> 4],
   [part |-> NoPart, name |-> bolt, qtyPerUnit |-> 3]}

=============================================================================
