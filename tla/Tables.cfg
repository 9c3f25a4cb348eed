CONSTANTS
  Ids = {1, 2, 3, 4}
  Present = {1, 2, 3}
  Matching = {1, 3}
  PAGE = 2
  Slots = {1, 2}
  MaxAsked = 2
  MaxTroubles = 1
SPECIFICATION Spec
CHECK_DEADLOCK FALSE
INVARIANTS
  ShowsTheTruth
  NoRowTwice
  NothingOutOfReach
PROPERTIES
  RightRow
