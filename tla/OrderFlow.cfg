\* One request at a time on two orders, or two requests in flight on one order.
SPECIFICATION FairSpec
CONSTANTS
  Clients = {c1, c2}
  Orders = {o1, o2}
  o1 = o1
  o2 = o2
  QtyOf <- TwoEach
  Limits <- OneOrTwo
INVARIANTS
  HistoryIsGapFree
  OrphansWithinFaults
  SerialsAreUnique
  ClosedHasSummary
PROPERTIES
  RunEnds
