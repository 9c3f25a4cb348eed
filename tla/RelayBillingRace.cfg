SPECIFICATION Spec
CONSTANTS
    r1 = r1
    r2 = r2
    u1 = u1
    t1 = t1
    t2 = t2
    s1 = s1
    s2 = s2
    NoKey = NoKey
    Requests = {r1, r2}
    Users = {u1}
    Tokens = {t1, t2}
    MaxAttempts = 1
    TokenOf <- mc_TokenOf2
    OwnerOf <- mc_OwnerOf
    Pinned = {r1, r2}
    Unlimited = {t2}
    Estimate <- mc_Estimate
    Bills = {3}
    TopUps = {2}
    Saves = {s1, s2}
    RowOf <- mc_RowOf
    Edits = {4}
    MaxOutside = 1
    InitUserQuota <- mc_Quota6
    InitTokenQuota <- mc_Token3
    TrustFactor = 2
    LowWater = 1
    RedisEnabled = TRUE
    DbFaults = FALSE
INVARIANTS
    TypeOK
    QuotaConserved
    OutcomeDecidesCharge
    ProviderCallIsCovered
    CacheNeverInventsQuota
PROPERTY
    ImplementsLedger
CHECK_DEADLOCK FALSE
