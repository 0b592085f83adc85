\* Two requests in flight on one batch, around a midnight: also two dispatches.
SPECIFICATION Spec
CONSTANTS
  Clients = {c1, c2}
  b1 = b1
  Batches = {b1}
  PassedQty <- TwoPassed
  SalesOrders = {s1}
  NoSO = NoSO
  Locations = {}
  Unassigned = Unassigned
  OrderedQty = {1, 2}
  MaxQty = 1
  MaxReservations = 2
  MaxLineItems = 2
  MaxLines = 1
  MaxHolds = 1
  Days = 2
SYMMETRY Symmetry
INVARIANTS
  TypeOK
  LedgerMatchesLineItems
  DispatchStatusAgrees
PROPERTIES
  OnlyOwnReservations
  OldestFirst
CHECK_DEADLOCK FALSE
