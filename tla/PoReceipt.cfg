\* One request at a time on an order with a raw material line and a general one, or two
\* requests about an order with one line of a general item.
SPECIFICATION Spec
CONSTANTS
  Clients = {c1, c2}
  Orders = {p1, p2}
  PoLines = {l1, l2, l3}
  PoOf <- PoOfLine
  Items = {board, glue}
  ItemOf <- ItemOfLine
  RawMaterials = {board}
  MaxOrdered = 2
  MaxQty = 1
  Days = 2
  Limits <- OneOrTwo
  p1 = p1
  p2 = p2
  l1 = l1
  l2 = l2
  l3 = l3
  board = board
  glue = glue
SYMMETRY Symmetry
INVARIANTS
  StockMatchesLedger
  ReceiptStatusSound
  LineCountersMatchGrns
  StockIsAccepted
PROPERTIES
  NeverGoesBack
  ReceiptCompletes
  ExcessIsApproved
CHECK_DEADLOCK FALSE
