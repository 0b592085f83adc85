CONSTANTS
  Scenes <- OwnScenes
  MaxWrites = 2
SPECIFICATION Spec
INVARIANTS
  RefreshesAfterOwnWrite
  OffersAreAccepted
  LinksResolve
CHECK_DEADLOCK FALSE
