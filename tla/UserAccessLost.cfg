SPECIFICATION Spec
CONSTANTS
    alice = alice
    n1 = n1
    n2 = n2
    r1 = r1
    r2 = r2
    admin1 = admin1
    admin2 = admin2
    self1 = self1
    NoUser = NoUser
    Users = {alice}
    Nodes = {n1, n2}
    UserOf <- mcUserOf
    NodeOf <- mcNodeOf
    Requests = {r1}
    Jobs = {admin1, self1}
    SelfJobs = {self1}
    RedisModes <- mcWithRedis
    RedisFaults = FALSE
    DbFaults = FALSE
    MaxOps = 2
    MaxRestarts = 0
INVARIANT DecisionStands
CHECK_DEADLOCK FALSE
