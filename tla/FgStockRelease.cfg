\* Releasing a hold relabels the batch from reservedQty alone.
SPECIFICATION Spec
CONSTANTS
  Clients = {c1}
  b1 = b1
  Batches = {b1}
  PassedQty <- TwoPassed
  SalesOrders = {s1}
  NoSO = NoSO
  Locations = {}
  Unassigned = Unassigned
  OrderedQty = {2}
  MaxQty = 2
  MaxReservations = 1
  MaxLineItems = 2
  MaxLines = 1
  MaxHolds = 1
  Days = 1
INVARIANT StockStatusTellsFree
CHECK_DEADLOCK FALSE
