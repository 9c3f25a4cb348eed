SPECIFICATION FairSpec
CONSTANTS
    r1 = r1
    r2 = r2
    alice = alice
    bob = bob
    acme = acme
    bu = bu
    bo = bo
    bx = bx
    NoOrg = NoOrg
    NoBudget = NoBudget
    Requests = {r1, r2}
    Users = {alice, bob}
    Orgs = {acme}
    Budgets = {bu, bo}
    InitialBudgets = {bu}
    UserOf <- mc_UserOf
    Scope <- mc_Scope
    Ref <- mc_Ref
    Amount <- mc_Amount
    OnExhaust <- mc_OnExhaust
    Period <- mc_Period1
    ValidUntil <- mc_Timer1
    FirstReset <- mc_NoTimer
    InitOrg <- mc_Org
    Costs = {1, 2}
    Horizon = 2
    MaxAdminOps = 1
INVARIANTS
    TypeOK
    ExhaustedLocksOut
    AutoStopUnlessOverlapped
    UsedIsSumOfBookings
PROPERTY
    DueIsReset
CHECK_DEADLOCK FALSE
