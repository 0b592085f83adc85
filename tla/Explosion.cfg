\* Every BOM of three SKUs with at most two rows each.  Quantities in halves.
SPECIFICATION Spec
CONSTANTS
  A = A
  B = B
  C = C
  bolt = bolt
  Products = {A, B, C}
  Root = A
  NoPart = NoPart
  Rows <- SmallRows
  Qty = 4
  MaxDepth = 2
  Unit = 2
  MaxRows = 2
INVARIANTS
  ExplosionIsPathSum
  RejectsOnlyBadBoms
  RecursionIsBounded
CHECK_DEADLOCK FALSE
