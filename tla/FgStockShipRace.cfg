\* A dispatch, and a reserve that commits between its two reads.
SPECIFICATION Spec
CONSTANTS
  Clients = {c1, c2}
  b1 = b1
  Batches = {b1}
  PassedQty <- OnePassed
  SalesOrders = {s1}
  NoSO = NoSO
  Locations = {}
  Unassigned = Unassigned
  OrderedQty = {2}
  MaxQty = 2
  MaxReservations = 1
  MaxLineItems = 1
  MaxLines = 1
  MaxHolds = 0
  Days = 1
INVARIANT ShippedWithinPassed
CHECK_DEADLOCK FALSE
