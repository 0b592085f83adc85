\* One request at a time; two sales orders are filled from two batches.
SPECIFICATION Spec
CONSTANTS
  Clients = {c1}
  b1 = b1
  Batches = {b1, b2}
  PassedQty <- B1PassedTwo
  SalesOrders = {s1, s2}
  NoSO = NoSO
  Locations = {wh1}
  Unassigned = Unassigned
  OrderedQty = {2}
  MaxQty = 2
  MaxReservations = 2
  MaxLineItems = 2
  MaxLines = 2
  MaxHolds = 1
  Days = 1
SYMMETRY Symmetry
INVARIANTS
  ReservedIsActiveSum
  LedgerReplaysToRow
  StatusOfItsStage
PROPERTIES
  ImplementsPool
  ReservationsEndOnce
CHECK_DEADLOCK FALSE
