SPECIFICATION FairSpec
CONSTANTS
    r1 = r1
    r2 = r2
    u1 = u1
    t1 = t1
    t2 = t2
    s1 = s1
    s2 = s2
    NoKey = NoKey
    Requests = {r1}
    Users = {u1}
    Tokens = {t1}
    MaxAttempts = 3
    TokenOf <- mc_TokenOf
    OwnerOf <- mc_OwnerOf
    Pinned = {}
    Unlimited = {}
    Estimate <- mc_Estimate
    Bills = {0, 3}
    TopUps = {2}
    Saves = {}
    RowOf <- mc_RowOf
    Edits = {4}
    MaxOutside = 1
    InitUserQuota <- mc_Quota6
    InitTokenQuota <- mc_Token3
    TrustFactor = 2
    LowWater = 1
    RedisEnabled = TRUE
    DbFaults = TRUE
INVARIANTS
    BilledAtMostOnce
    NoRefundBeyondHold
PROPERTY
    AttemptsEnd
CHECK_DEADLOCK FALSE
