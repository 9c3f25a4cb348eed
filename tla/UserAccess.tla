----------------------------- MODULE UserAccess -----------------------------
(***************************************************************************)
(* Who may use the relay: the status of a user in the database, the copy   *)
(* of it in Redis, the blacklist, and the administration that changes the  *)
(* first and the last, on several instances of the server.                 *)
(*                                                                         *)
(*   middleware/auth.go         TokenAuth, from the user's status on       *)
(*   model/cache.go             CacheIsUserEnabled                         *)
(*   common/blacklist/main.go   BanUser, UnbanUser, IsUserBanned           *)
(*   model/user.go              Update, Delete                             *)
(*   controller/user.go         ManageUser, UpdateUser, and the operations *)
(*                              of a user that write back his own row      *)
(*                                                                         *)
(* An operation reads the row, changes the blacklist and writes the row; a *)
(* request asks the copy or the row and then the blacklist.  Each of these *)
(* is a step.  Root users cannot be disabled or deleted and are not among  *)
(* Users.                                                                  *)
(***************************************************************************)
EXTENDS Integers, FiniteSets

CONSTANTS
    Users, Nodes, Requests,
    Jobs,             \* operations that may run at the same time
    SelfJobs,         \* those that are a user's own and not an administrator's
    UserOf, NodeOf,   \* NodeOf[x]: the instance that runs request or job x
    RedisModes,       \* the values of common.RedisEnabled, fixed when the system starts
    RedisFaults,      \* whether single Redis calls may fail
    DbFaults,         \* whether single updates of a row may fail
    MaxOps,           \* bound: operations
    MaxRestarts,      \* bound: restarts of an instance
    NoUser

ASSUME AccessAssumption ==
    /\ UserOf \in [Requests -> Users]
    /\ NodeOf \in [Requests \cup Jobs -> Nodes]
    /\ SelfJobs \subseteq Jobs
    /\ RedisModes \subseteq BOOLEAN
    /\ RedisFaults \in BOOLEAN
    /\ DbFaults \in BOOLEAN
    /\ MaxOps \in Nat
    /\ MaxRestarts \in Nat
    /\ NoUser \notin Users
    /\ Requests \cap Jobs = {}

Statuses == {"enabled", "disabled", "deleted"}
Roles    == {"common", "admin"}

\* What Update is given: "keep" stands for a zero value, which gorm does not write.
Forms == [status : Statuses \cup {"keep"}, role : Roles \cup {"keep"}]

KeepAll == [status |-> "keep", role |-> "keep"]

VARIABLES
    redisOn,          \* common.RedisEnabled
    status, role,     \* the user's row
    cached,           \* Redis: user_enabled:<id>, "none" when absent
    redis,            \* Redis: the users with a key blacklist_userid_<id>
    local,            \* local[n]: blackList of instance n
    pc, job, form,    \* per operation: where it is, on whom, what it will write
    ops, restarts,
    apc, saw,         \* per request: where it is, what the row said
    fellBack,         \* requests whose look-up in Redis failed
    shut,             \* requests that began when their user was settled and not enabled,
                      \* and no operation on him has begun since
    decided,          \* the status and role last decided on by an administrator
    unsettled         \* users of overlapping, failing or interrupted operations

row     == <<status, role>>
jobVars == <<pc, job, form, ops>>
reqVars == <<apc, saw, fellBack>>
vars    == <<redisOn, row, cached, redis, local, jobVars, restarts, reqVars, shut,
             decided, unsettled>>

-----------------------------------------------------------------------------
Busy(u) == \E j \in Jobs : pc[j] # "idle" /\ job[j] = u

Settled(u) == ~Busy(u) /\ u \notin unsettled

\* Seeded fault: only the map of this instance is asked.
BugLocalMap(n, u) == u \in local[n]

\* Where IsUserBanned looks when nothing fails.
Banned(n, u) == IF redisOn THEN u \in redis ELSE u \in local[n]

TypeOK ==
    /\ redisOn \in BOOLEAN
    /\ status \in [Users -> Statuses]
    /\ role \in [Users -> Roles]
    /\ cached \in [Users -> {"none", "0", "1"}]
    /\ redis \subseteq Users
    /\ local \in [Nodes -> SUBSET Users]
    /\ pc \in [Jobs -> {"idle", "ban", "rename", "list", "write"}]
    /\ job \in [Jobs -> Users \cup {NoUser}]
    /\ \A j \in Jobs : job[j] = NoUser <=> pc[j] = "idle"
    /\ form \in [Jobs -> Forms]
    /\ ops \in 0..MaxOps
    /\ restarts \in 0..MaxRestarts
    /\ apc \in [Requests -> {"idle", "read", "fill", "lookup", "admitted", "rejected"}]
    /\ saw \in [Requests -> BOOLEAN]
    /\ shut \subseteq Requests
    /\ fellBack \subseteq Requests
    /\ decided \in [Users -> [status : Statuses, role : Roles]]
    /\ unsettled \subseteq Users

Init ==
    /\ redisOn \in RedisModes
    /\ status = [u \in Users |-> "enabled"]
    /\ role = [u \in Users |-> "common"]
    /\ cached = [u \in Users |-> "none"]
    /\ redis = {}
    /\ local = [n \in Nodes |-> {}]
    /\ pc = [j \in Jobs |-> "idle"]
    /\ job = [j \in Jobs |-> NoUser]
    /\ form = [j \in Jobs |-> KeepAll]
    /\ ops = 0
    /\ restarts = 0
    /\ apc = [r \in Requests |-> "idle"]
    /\ saw = [r \in Requests |-> FALSE]
    /\ shut = {}
    /\ fellBack = {}
    /\ decided = [u \in Users |-> [status |-> "enabled", role |-> "common"]]
    /\ unsettled = {}

-----------------------------------------------------------------------------
(* Administration.                                                         *)

Read(u) == [status |-> status[u], role |-> role[u]]

\* gorm's Updates writes the fields that are not zero.
Updates(old, f) == [status |-> IF f.status = "keep" THEN old.status ELSE f.status,
                    role   |-> IF f.role   = "keep" THEN old.role   ELSE f.role]

\* The operation j begins: d is what it decides on, f what it will write.
Begin(j, u, l, d, f) ==
    /\ pc[j] = "idle"
    /\ ops < MaxOps
    /\ ops' = ops + 1
    /\ pc' = [pc EXCEPT ![j] = l]
    /\ job' = [job EXCEPT ![j] = u]
    /\ form' = [form EXCEPT ![j] = f]
    /\ decided' = [decided EXCEPT ![u] = Updates(@, d)]
    /\ unsettled' = IF Busy(u) THEN unsettled \cup {u} ELSE unsettled
    /\ shut' = {r \in shut : UserOf[r] # u}
    /\ UNCHANGED <<redisOn, row, cached, redis, local, restarts, reqVars>>

\* What "disable", "enable", "delete", "promote" and "demote" change.
ManageForms(u) ==
    {[KeepAll EXCEPT !.status = s] : s \in Statuses} \cup
    {[KeepAll EXCEPT !.role = r] : r \in Roles \ {role[u]}}

\* ManageUser writes back the whole row it has read with one field changed.
ManageUser(j, u) ==
    /\ j \notin SelfJobs
    /\ \E d \in ManageForms(u) :
          Begin(j, u, IF d.status = "deleted" THEN "ban" ELSE "list", d, Updates(Read(u), d))

\* UpdateUser writes what the form of the user interface has.
UpdateUser(j, u) ==
    /\ j \notin SelfJobs
    /\ \E s \in {"enabled", "disabled", "keep"}, r \in Roles \cup {"keep"} :
          LET f == [status |-> s, role |-> r] IN Begin(j, u, "list", f, f)

\* GenerateAccessToken, GetAffCode and EmailBind of a user who is not banned write
\* back the whole row with a field changed that is none of status and role.
UpdateOwnRow(j, u) ==
    /\ j \in SelfJobs
    /\ ~Banned(NodeOf[j], u)
    /\ Begin(j, u, "list", KeepAll, Read(u))

\* BanUser and UnbanUser always keep the local map, and Redis when they can.
InRedis(u, keys) ==
    \/ redisOn /\ redis' = keys /\ UNCHANGED unsettled
    \/ ~redisOn /\ UNCHANGED <<redis, unsettled>>
    \/ redisOn /\ RedisFaults /\ unsettled' = unsettled \cup {u} /\ UNCHANGED redis

BanUser(n, u) ==
    /\ local' = [local EXCEPT ![n] = @ \cup {u}]
    /\ InRedis(u, redis \cup {u})

UnbanUser(n, u) ==
    /\ local' = [local EXCEPT ![n] = @ \ {u}]
    /\ InRedis(u, redis \ {u})

\* User.Delete bans before it renames and marks the row.
Ban(j) ==
    /\ pc[j] = "ban"
    /\ BanUser(NodeOf[j], job[j])
    /\ pc' = [pc EXCEPT ![j] = "rename"]
    /\ UNCHANGED <<redisOn, row, cached, job, form, ops, restarts, reqVars, shut, decided>>

\* Seeded fault: the blacklist is left alone unless a user is disabled.
BugNeverUnbans(j) ==
    IF form[j].status = "disabled" THEN BanUser(NodeOf[j], job[j])
    ELSE UNCHANGED <<local, redis, unsettled>>

\* What User.Update does with the blacklist.
Enlist(j) ==
    \/ form[j].status = "disabled" /\ BanUser(NodeOf[j], job[j])
    \/ form[j].status = "enabled" /\ UnbanUser(NodeOf[j], job[j])
    \/ /\ form[j].status \notin {"disabled", "enabled"}
       /\ UNCHANGED <<local, redis, unsettled>>

List(j) ==
    /\ pc[j] = "list"
    /\ Enlist(j)
    /\ pc' = [pc EXCEPT ![j] = "write"]
    /\ UNCHANGED <<redisOn, row, cached, job, form, ops, restarts, reqVars, shut, decided>>

\* Operations that have ended, or whose process has.
Finish(js) ==
    /\ pc' = [j \in Jobs |-> IF j \in js THEN "idle" ELSE pc[j]]
    /\ job' = [j \in Jobs |-> IF j \in js THEN NoUser ELSE job[j]]
    /\ form' = [j \in Jobs |-> IF j \in js THEN KeepAll ELSE form[j]]

\* User.Update writes every column of the row read that is not zero.  Only the
\* status and the role are kept here; the quota and the counters, which go back
\* with them, are module RelayBilling's (WriteBackUser).
\* After its own write Delete goes on to Update, which lists and writes once more.
Write(j) ==
    /\ pc[j] \in {"rename", "write"}
    /\ LET new == Updates(Read(job[j]), form[j]) IN
          /\ status' = [status EXCEPT ![job[j]] = new.status]
          /\ role' = [role EXCEPT ![job[j]] = new.role]
    /\ \/ /\ pc[j] = "rename"
          /\ pc' = [pc EXCEPT ![j] = "list"]
          /\ UNCHANGED <<job, form>>
       \/ pc[j] = "write" /\ Finish({j})
    /\ UNCHANGED <<redisOn, cached, redis, local, ops, restarts, reqVars, shut, decided,
                   unsettled>>

\* A failing update ends the operation; the blacklist is not put right again.
WriteFails(j) ==
    /\ DbFaults
    /\ pc[j] \in {"rename", "write"}
    /\ unsettled' = unsettled \cup {job[j]}
    /\ Finish({j})
    /\ UNCHANGED <<redisOn, row, cached, redis, local, ops, restarts, reqVars, shut,
                   decided>>

-----------------------------------------------------------------------------
(* Requests, once their token has been found valid.                        *)

Goto(r, l) == apc' = [apc EXCEPT ![r] = l]

noRequest == <<redisOn, row, redis, local, jobVars, restarts, decided, unsettled>>

\* CacheIsUserEnabled: the copy, if it can be had.
GetEnabled(r) ==
    LET u == UserOf[r] IN
    /\ apc[r] = "idle"
    /\ \/ (~redisOn \/ cached[u] = "none" \/ RedisFaults) /\ Goto(r, "read")
       \/ redisOn /\ cached[u] = "1" /\ Goto(r, "lookup")
       \/ redisOn /\ cached[u] = "0" /\ Goto(r, "rejected")
    /\ shut' = IF Settled(u) /\ decided[u].status # "enabled" THEN shut \cup {r} ELSE shut
    /\ UNCHANGED <<noRequest, cached, saw, fellBack>>

\* IsUserEnabled: the row.  Without Redis the answer is final.
ReadEnabled(r) ==
    LET enabled == status[UserOf[r]] = "enabled" IN
    /\ apc[r] = "read"
    /\ saw' = [saw EXCEPT ![r] = enabled]
    /\ \/ redisOn /\ Goto(r, "fill")
       \/ ~redisOn /\ Goto(r, IF enabled THEN "lookup" ELSE "rejected")
       \/ DbFaults /\ Goto(r, "rejected")
    /\ UNCHANGED <<noRequest, cached, fellBack, shut>>

\* Seeded fault: the copy is formatted as a Go bool.
BugStoresBool(r) == IF saw[r] THEN "true" ELSE "false"

Copy(r) == IF saw[r] THEN "1" ELSE "0"

\* The copy is stored; if that fails the request does too.
FillEnabled(r) ==
    /\ apc[r] = "fill"
    /\ \/ /\ cached' = [cached EXCEPT ![UserOf[r]] = Copy(r)]
          /\ Goto(r, IF saw[r] THEN "lookup" ELSE "rejected")
       \/ RedisFaults /\ Goto(r, "rejected") /\ UNCHANGED cached
    /\ UNCHANGED <<noRequest, saw, fellBack, shut>>

\* IsUserBanned; the local map stands in when Redis fails.
LookUp(r) ==
    LET u == UserOf[r]
        n == NodeOf[r]
        answer(b) == Goto(r, IF b THEN "rejected" ELSE "admitted")
    IN
    /\ apc[r] = "lookup"
    /\ \/ answer(Banned(n, u)) /\ UNCHANGED fellBack
       \/ /\ redisOn /\ RedisFaults
          /\ answer(u \in local[n])
          /\ fellBack' = fellBack \cup {r}
    /\ UNCHANGED <<noRequest, cached, saw, shut>>

\* The next request in the place of one that was answered.
NextRequest(r) ==
    /\ apc[r] \in {"admitted", "rejected"}
    /\ Goto(r, "idle")
    /\ saw' = [saw EXCEPT ![r] = FALSE]
    /\ fellBack' = fellBack \ {r}
    /\ shut' = shut \ {r}
    /\ UNCHANGED <<noRequest, cached>>

-----------------------------------------------------------------------------
(* The environment.                                                        *)

\* Seeded fault: the copy is stored without a time to live, as a ban is.
BugNeverExpires(u) == FALSE /\ UNCHANGED vars

\* The time to live of the copy, config.SyncFrequency.
ExpireCache(u) ==
    /\ cached[u] # "none"
    /\ cached' = [cached EXCEPT ![u] = "none"]
    /\ UNCHANGED <<noRequest, reqVars, shut>>

\* An instance restarts: its map, its operations and its requests are gone.
Restart(n) ==
    LET js == {j \in Jobs : NodeOf[j] = n} IN
    /\ restarts < MaxRestarts
    /\ restarts' = restarts + 1
    /\ local' = [local EXCEPT ![n] = {}]
    /\ Finish(js)
    /\ unsettled' = unsettled \cup {u \in Users : \E j \in js : job[j] = u}
    /\ apc' = [r \in Requests |-> IF NodeOf[r] = n THEN "rejected" ELSE apc[r]]
    /\ UNCHANGED <<redisOn, row, cached, redis, ops, saw, fellBack, shut, decided>>

-----------------------------------------------------------------------------
TokenAuth(r) == GetEnabled(r) \/ ReadEnabled(r) \/ FillEnabled(r) \/ LookUp(r)

JobStep(j) == Ban(j) \/ List(j) \/ Write(j) \/ WriteFails(j)

Next ==
    \/ \E j \in Jobs, u \in Users : ManageUser(j, u) \/ UpdateUser(j, u) \/ UpdateOwnRow(j, u)
    \/ \E j \in Jobs : JobStep(j)
    \/ \E r \in Requests : TokenAuth(r) \/ NextRequest(r)
    \/ \E u \in Users : ExpireCache(u)
    \/ \E n \in Nodes : Restart(n)

Spec == Init /\ [][Next]_vars

\* Runnable goroutines run, and times to live pass.
FairSpec ==
    /\ Spec
    /\ \A r \in Requests : WF_vars(TokenAuth(r))
    /\ \A j \in Jobs : WF_vars(JobStep(j))
    /\ \A u \in Users : WF_vars(ExpireCache(u))

-----------------------------------------------------------------------------
(* Properties.                                                             *)

\* A request that begins when the disabling or deletion of its user has come to its
\* end is not admitted, on whatever instance, with whatever copy of the status,
\* unless Redis fails in its look-up; until an operation on the user begins
\* (CHANGELOG.md:20: immediately, without the delay of a cache).
DisabledIsShutOut ==
    \A r \in shut : apc[r] = "admitted" => r \in fellBack

\* When no operation on a user overlapped another, failed or was cut off, the row is
\* what was decided last, and the blacklist in Redis has exactly the users whose
\* rows are not enabled (User.Update and User.Delete change both, one by one).
RowAndBlacklistAgree ==
    \A u \in Users : Settled(u) =>
        /\ Read(u) = decided[u]
        /\ redisOn => (u \in redis <=> status[u] # "enabled")

\* A user who stays disabled or deleted is in the end not held to be enabled by the
\* copy in Redis any more, although requests that read his row before store what
\* they have read later (CacheIsUserEnabled, model/cache.go:136-144).
StaleStatusGoes ==
    \A u \in Users : <>[](status[u] # "enabled") => <>[](cached[u] # "1")

\* What an administrator has decided stands when the operations on the user have
\* ended: disabling makes his tokens ineffective (CHANGELOG.md:20).
DecisionStands ==
    \A u \in Users : ~Busy(u) => status[u] = decided[u].status

=============================================================================
