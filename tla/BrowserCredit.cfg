CONSTANTS
  Scenes <- CreditScenes
  MaxWrites = 2
SPECIFICATION Spec
INVARIANT CreditReachesMaterials
CHECK_DEADLOCK FALSE
