SPECIFICATION Spec
CONSTANTS
    r1 = r1
    r2 = r2
    alice = alice
    bob = bob
    acme = acme
    bu = bu
    bo = bo
    bx = bx
    NoOrg = NoOrg
    NoBudget = NoBudget
    Requests = {r1, r2}
    Users = {alice, bob}
    Orgs = {acme}
    Budgets = {bu}
    InitialBudgets = {bu}
    UserOf <- mc_Alice
    Scope <- mc_Scope
    Ref <- mc_Ref
    Amount <- mc_Amount
    OnExhaust <- mc_OnExhaust
    Period <- mc_Period1
    ValidUntil <- mc_Timer1
    FirstReset <- mc_NoTimer
    InitOrg <- mc_Org
    Costs = {0, 1, 2}
    Horizon = 3
    MaxAdminOps = 0
INVARIANT
    HardTimer
CHECK_DEADLOCK FALSE
