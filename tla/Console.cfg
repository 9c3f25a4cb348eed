CONSTANTS
  Accounts = {1, 10, 100}
  MaxWaiting = 2
  MaxAsked = 2
  MaxTroubles = 1
SPECIFICATION Spec
CHECK_DEADLOCK FALSE
INVARIANTS
  SaysWhoItIs
  ShowsChanges
  SecretsAreShown
  NothingHangs
