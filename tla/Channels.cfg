SPECIFICATION Spec
CONSTANTS
    c1 = c1
    c2 = c2
    j1 = j1
    j2 = j2
    k1 = k1
    k2 = k2
    g1 = g1
    g2 = g2
    NoChannel = NoChannel
    ChannelIds = {c1, c2}
    Jobs = {j1, j2}
    Keys = {k1, k2}
    Groups = {g1, g2}
    GroupOf <- mc_GroupOf
    Offers <- mc_BothOrOne
    Priorities <- mc_Priorities
    MaxJobs = 3
SYMMETRY mc_Symmetry
INVARIANTS
    TypeOK
    DriftNeedsOverlap
    PanicNeedsRewrite
    TableFollowsRows
    RoutersAgree
CHECK_DEADLOCK FALSE
