\* One or two requests at a time, one or two orders on one part.
SPECIFICATION Spec
CONSTANTS
  Clients = {c1, c2}
  o1 = o1
  o2 = o2
  Orders = {o1, o2}
  Parts = {p1}
  Unlinked = Unlinked
  Need <- SmallNeed
  Deltas <- OneMoreOrLess
  MaxAttempts = 2
  MaxStock = 2
  MaxCopies = 4
  Coming <- OneIfCrowded
  Kinds <- Mixes
  MaxPrs = 2
SYMMETRY Symmetry
INVARIANTS
  CopiesWithinRequests
  FulfilledIsCredited
  ShortagesFitVerdict
PROPERTIES
  AsksForShortfall
  ImplementsNumbering
CHECK_DEADLOCK FALSE
