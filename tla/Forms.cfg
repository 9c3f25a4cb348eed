CONSTANTS
  Ids = {1, 2}
  Self = 1
  Most = 2
  Slots = {1, 2}
  MaxAsked = 3
  MaxTroubles = 2
SPECIFICATION Spec
CHECK_DEADLOCK FALSE
INVARIANTS
  ShowsFresh
  EverythingIsTold
PROPERTIES
  RightTarget
