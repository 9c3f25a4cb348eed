------------------------------- MODULE Budget -------------------------------
(***************************************************************************)
(* Budgets of users and organizations: the lock before a request, the      *)
(* booking of its cost afterwards with the automatic stop, the periodic    *)
(* reset, the hard timer, and the administration of budgets.               *)
(*                                                                         *)
(*   model/budget.go       IsScopeBudgetExhausted, AddBudgetUsage,         *)
(*                         applyBudgetUsage, ResetDueBudgets,              *)
(*                         DisableExpiredBudgets, BudgetMaintenanceLoop    *)
(*   model/cost_entry.go   RecordCostEntry                                 *)
(*   controller/budget.go  AddBudget, ResetBudget, DeleteBudget            *)
(*                                                                         *)
(* Every query is a step.  A booking reads the budgets of a scope, then    *)
(* for each of them adds the cost in the database ("used + cost") and, if  *)
(* the values it read say that the budget has just run out, disables it.   *)
(***************************************************************************)
EXTENDS Integers, FiniteSets, Functions

CONSTANTS
    Requests, Users, Orgs, Budgets,
    UserOf,           \* UserOf[r]: the user who sends request r
    Scope, Ref,       \* Scope[b] \in {"user", "organization"}, Ref[b] its user or org
    Amount,           \* amount_micro_eur, 0 for no limit
    OnExhaust,        \* "block", "warn" or "downgrade"
    Period,           \* length of the period, 0 for "none"
    ValidUntil,       \* hard timer, 0 for none
    FirstReset,       \* reset_at given on creation, 0 for the end of the period
    InitialBudgets,   \* the budgets that exist at the start
    InitOrg,          \* InitOrg[u]: organization of the user, or NoOrg
    Costs,            \* costs in micro euros a request may come out at
    Horizon,          \* bound: the clock stops here
    MaxAdminOps,      \* bound: administrative operations in a behaviour
    NoOrg, NoBudget

ASSUME BudgetAssumption ==
    /\ IsFiniteSet(Requests)
    /\ UserOf \in [Requests -> Users]
    /\ Scope \in [Budgets -> {"user", "organization"}]
    /\ \A b \in Budgets : Scope[b] = "organization" => Ref[b] \in Orgs
    /\ Amount \in [Budgets -> Nat]
    /\ OnExhaust \in [Budgets -> {"block", "warn", "downgrade"}]
    /\ Period \in [Budgets -> Nat]
    /\ ValidUntil \in [Budgets -> Nat]
    /\ FirstReset \in [Budgets -> Nat]
    /\ InitialBudgets \subseteq Budgets
    /\ InitOrg \in [Users -> Orgs \cup {NoOrg}]
    /\ Costs \subseteq Nat
    /\ Horizon \in Nat
    /\ MaxAdminOps \in Nat
    /\ NoOrg \notin Orgs
    /\ NoBudget \notin Budgets

VARIABLES
    exists,           \* the budgets in the table
    created,          \* every id given out so far; ids are not used again
    used,             \* used_micro_eur
    enabled,          \* the budgets with status 1
    resetAt,          \* reset_at, 0 for never
    org,              \* users.org_id
    now,              \* the clock
    pc,               \* where each request is
    cost,             \* cost of the request
    orgRead,          \* the organization the request last read for its user
    todo,             \* budgets the running applyBudgetUsage has still to book
    snap,             \* used_micro_eur of each as it was read
    stopping,         \* budget about to be disabled, or NoBudget
    loop,             \* where BudgetMaintenanceLoop is
    due,              \* budgets the loop found due and has not reset yet
    tick,             \* the time of the loop's last tick
    adminOps,
    credited,         \* credited[r]: budgets booked by r since their last reset
    shut,             \* shut[r]: budgets exhausted, and not reset, since r was checked
    checkedOrg,       \* the organization r was checked for
    overlapped        \* budgets with a booking based on an outdated value

table    == <<exists, created, used, enabled, resetAt>>
request  == <<pc, cost, orgRead, todo, snap, stopping>>
history  == <<credited, shut, checkedOrg, overlapped>>
vars     == <<table, org, now, request, loop, due, tick, adminOps, history>>

-----------------------------------------------------------------------------
User(r) == UserOf[r]

Limited(b)   == Amount[b] > 0
Blocking(b)  == OnExhaust[b] = "block"
Exhausted(b) == Blocking(b) /\ Limited(b) /\ used[b] >= Amount[b]
Expired(b, t) == ValidUntil[b] > 0 /\ ValidUntil[b] < t

OfUser(u) == {b \in exists : Scope[b] = "user" /\ Ref[b] = u}
OfOrg(o)  == {b \in exists : Scope[b] = "organization" /\ Ref[b] = o}

\* Whom the budget is for. Used by the properties: the code asks per scope.
Covers(b, r) ==
    \/ Scope[b] = "user" /\ Ref[b] = User(r)
    \/ Scope[b] = "organization" /\ Ref[b] = checkedOrg[r]

\* nextResetFrom: the end of the period that begins at t.
NextResetFrom(b, t) == IF Period[b] = 0 THEN 0 ELSE t + Period[b]

FirstResetAt(b, t) == IF FirstReset[b] = 0 THEN NextResetFrom(b, t) ELSE FirstReset[b]

PCs == {"idle", "checkOrg", "admitted", "findUser", "bookUser", "stopUser",
        "findOrg", "bookOrg", "stopOrg", "rejected", "done"}

Booking == {"findUser", "bookUser", "stopUser", "findOrg", "bookOrg", "stopOrg"}

TypeOK ==
    /\ created \subseteq Budgets
    /\ exists \subseteq created
    /\ enabled \subseteq Budgets
    /\ used \in [Budgets -> Nat]
    /\ resetAt \in [Budgets -> Nat]
    /\ org \in [Users -> Orgs \cup {NoOrg}]
    /\ now \in Nat
    /\ tick \in Nat
    /\ pc \in [Requests -> PCs]
    /\ cost \in [Requests -> Nat]
    /\ orgRead \in [Requests -> Orgs \cup {NoOrg}]
    /\ checkedOrg \in [Requests -> Orgs \cup {NoOrg}]
    /\ todo \in [Requests -> SUBSET Budgets]
    /\ snap \in [Requests -> [Budgets -> Nat]]
    /\ stopping \in [Requests -> Budgets \cup {NoBudget}]
    /\ loop \in {"sleep", "find", "reset"}
    /\ due \subseteq Budgets
    /\ adminOps \in 0..MaxAdminOps
    /\ credited \in [Requests -> SUBSET Budgets]
    /\ shut \in [Requests -> SUBSET Budgets]
    /\ overlapped \subseteq Budgets

Init ==
    /\ exists = InitialBudgets
    /\ created = InitialBudgets
    /\ enabled = InitialBudgets
    /\ used = [b \in Budgets |-> 0]
    /\ resetAt = [b \in Budgets |-> FirstResetAt(b, 0)]
    /\ org = InitOrg
    /\ now = 0
    /\ tick = 0
    /\ pc = [r \in Requests |-> "idle"]
    /\ cost = [r \in Requests |-> 0]
    /\ orgRead = [r \in Requests |-> NoOrg]
    /\ checkedOrg = [r \in Requests |-> NoOrg]
    /\ todo = [r \in Requests |-> {}]
    /\ snap = [r \in Requests |-> [b \in Budgets |-> 0]]
    /\ stopping = [r \in Requests |-> NoBudget]
    /\ loop = "sleep"
    /\ due = {}
    /\ adminOps = 0
    /\ credited = [r \in Requests |-> {}]
    /\ shut = [r \in Requests |-> {}]
    /\ overlapped = {}

-----------------------------------------------------------------------------
(* IsScopeBudgetExhausted: the user's budgets, then the organization's.    *)

Goto(r, l) == pc' = [pc EXCEPT ![r] = l]

\* Seeded fault: budgets that were stopped no longer lock anybody out.
BugOnlyEnabledLock(budgets) == \E b \in budgets \cap enabled : Exhausted(b)

\* The query of IsScopeBudgetExhausted; it does not look at the status.
AnyExhausted(budgets) == \E b \in budgets : Exhausted(b)

CheckUserBudgets(r) ==
    /\ pc[r] = "idle"
    /\ LET u == User(r) IN
       /\ orgRead' = [orgRead EXCEPT ![r] = org[u]]
       /\ checkedOrg' = [checkedOrg EXCEPT ![r] = org[u]]
       /\ \/ AnyExhausted(OfUser(u)) /\ Goto(r, "rejected")
          \/ /\ ~AnyExhausted(OfUser(u))
             /\ Goto(r, IF org[u] = NoOrg THEN "admitted" ELSE "checkOrg")
    /\ shut' = [shut EXCEPT ![r] = {b \in exists : Exhausted(b)}]
    /\ UNCHANGED <<table, org, now, cost, todo, snap, stopping, loop, due, tick,
                   adminOps, credited, overlapped>>

CheckOrgBudgets(r) ==
    /\ pc[r] = "checkOrg"
    /\ \/ AnyExhausted(OfOrg(orgRead[r])) /\ Goto(r, "rejected")
       \/ ~AnyExhausted(OfOrg(orgRead[r])) /\ Goto(r, "admitted")
    /\ UNCHANGED <<table, org, now, cost, orgRead, todo, snap, stopping, loop, due,
                   tick, adminOps, history>>

-----------------------------------------------------------------------------
(* The provider has answered, or not; RecordConsumeLog, RecordCostEntry.   *)

ProviderFails(r) ==
    /\ pc[r] = "admitted"
    /\ Goto(r, "done")
    /\ UNCHANGED <<table, org, now, cost, orgRead, todo, snap, stopping, loop, due,
                   tick, adminOps, history>>

\* RecordCostEntry reads the organization anew; AddBudgetUsage books no cost
\* that is not positive.
RecordCost(r) ==
    /\ pc[r] = "admitted"
    /\ \E c \in Costs :
          /\ cost' = [cost EXCEPT ![r] = c]
          /\ Goto(r, IF c <= 0 THEN "done" ELSE "findUser")
    /\ orgRead' = [orgRead EXCEPT ![r] = org[User(r)]]
    /\ UNCHANGED <<table, org, now, todo, snap, stopping, loop, due, tick, adminOps,
                   history>>

-----------------------------------------------------------------------------
(* applyBudgetUsage, once for the user and once for the organization.      *)

\* The budgets of the scope that are enabled, with their current usage.
Find(r, budgets, l) ==
    /\ todo' = [todo EXCEPT ![r] = budgets \cap enabled]
    /\ snap' = [snap EXCEPT ![r] = used]
    /\ Goto(r, l)
    /\ UNCHANGED <<table, org, now, cost, orgRead, stopping, loop, due, tick,
                   adminOps, history>>

FindUserBudgets(r) == pc[r] = "findUser" /\ Find(r, OfUser(User(r)), "bookUser")

FindOrgBudgets(r) ==
    /\ pc[r] = "findOrg"
    /\ orgRead[r] # NoOrg
    /\ Find(r, OfOrg(orgRead[r]), "bookOrg")

NoOrganization(r) ==
    /\ pc[r] = "findOrg"
    /\ orgRead[r] = NoOrg
    /\ Goto(r, "done")
    /\ UNCHANGED <<table, org, now, cost, orgRead, todo, snap, stopping, loop, due,
                   tick, adminOps, history>>

\* Seeded fault: a budget used to its last cent is not yet exhausted.
BugStopsAbove(r, b) ==
    /\ Limited(b)
    /\ snap[r][b] <= Amount[b]
    /\ snap[r][b] + cost[r] > Amount[b]

\* before < amount <= after, with before as it was read.
JustExhausted(r, b) ==
    /\ Limited(b)
    /\ snap[r][b] < Amount[b]
    /\ snap[r][b] + cost[r] >= Amount[b]

\* Seeded fault: the new usage is computed from the value read before.
BugWritesRead(r, b) ==
    used' = IF b \in exists THEN [used EXCEPT ![b] = snap[r][b] + cost[r]] ELSE used

\* Seeded fault: the cost is taken off the usage.
BugCredits(r, b) ==
    used' = IF b \in exists THEN [used EXCEPT ![b] = @ - cost[r]] ELSE used

\* UPDATE budgets SET used_micro_eur = used_micro_eur + cost WHERE id = b.
AddUsage(r, b) == used' = IF b \in exists THEN [used EXCEPT ![b] = @ + cost[r]]
                                          ELSE used

StopPC(l) == IF l = "bookUser" THEN "stopUser" ELSE "stopOrg"
BookPC(l) == IF l = "stopUser" THEN "bookUser" ELSE "bookOrg"

\* One turn of the loop over the budgets found, in whatever order.
BookBudget(r, b) ==
    /\ pc[r] \in {"bookUser", "bookOrg"}
    /\ b \in todo[r]
    /\ AddUsage(r, b)
    /\ todo' = [todo EXCEPT ![r] = @ \ {b}]
    /\ \/ /\ JustExhausted(r, b) /\ Blocking(b)
          /\ stopping' = [stopping EXCEPT ![r] = b]
          /\ Goto(r, StopPC(pc[r]))
       \/ /\ ~(JustExhausted(r, b) /\ Blocking(b))
          /\ UNCHANGED <<stopping, pc>>
    /\ credited' = IF b \in exists THEN [credited EXCEPT ![r] = @ \cup {b}]
                                   ELSE credited
    /\ overlapped' = IF snap[r][b] # used[b] THEN overlapped \cup {b} ELSE overlapped
    /\ UNCHANGED <<exists, created, enabled, resetAt, org, now, cost, orgRead, snap,
                   loop, due, tick, adminOps, shut, checkedOrg>>

\* The automatic stop.
StopBudget(r) ==
    /\ pc[r] \in {"stopUser", "stopOrg"}
    /\ enabled' = enabled \ {stopping[r]}
    /\ stopping' = [stopping EXCEPT ![r] = NoBudget]
    /\ Goto(r, BookPC(pc[r]))
    /\ UNCHANGED <<exists, created, used, resetAt, org, now, cost, orgRead, todo, snap,
                   loop, due, tick, adminOps, history>>

ScopeBooked(r) ==
    /\ pc[r] \in {"bookUser", "bookOrg"}
    /\ todo[r] = {}
    /\ Goto(r, IF pc[r] = "bookUser" THEN "findOrg" ELSE "done")
    /\ UNCHANGED <<table, org, now, cost, orgRead, todo, snap, stopping, loop, due,
                   tick, adminOps, history>>

-----------------------------------------------------------------------------
(* BudgetMaintenanceLoop: expire, then reset what is due, on every tick.   *)

\* Seeded fault: the next reset is not planned.
BugKeepsDate(b) ==
    IF b \in exists
    THEN /\ used' = [used EXCEPT ![b] = 0]
         /\ enabled' = enabled \cup {b}
         /\ credited' = [r \in Requests |-> credited[r] \ {b}]
         /\ shut' = [r \in Requests |-> shut[r] \ {b}]
         /\ overlapped' = overlapped \ {b}
         /\ UNCHANGED resetAt
    ELSE UNCHANGED <<used, enabled, resetAt, credited, shut, overlapped>>

\* Budget.Reset; nothing happens to a row that is gone.
Reset(b) ==
    IF b \in exists
    THEN /\ used' = [used EXCEPT ![b] = 0]
         /\ enabled' = enabled \cup {b}
         /\ resetAt' = [resetAt EXCEPT ![b] = NextResetFrom(b, now)]
         /\ credited' = [r \in Requests |-> credited[r] \ {b}]
         /\ shut' = [r \in Requests |-> shut[r] \ {b}]
         /\ overlapped' = overlapped \ {b}
    ELSE UNCHANGED <<used, enabled, resetAt, credited, shut, overlapped>>

DisableExpiredBudgets == enabled' = enabled \ {b \in exists : Expired(b, now)}

Tick ==
    /\ loop = "sleep"
    /\ DisableExpiredBudgets
    /\ tick' = now
    /\ loop' = "find"
    /\ UNCHANGED <<exists, created, used, resetAt, org, now, request, due, adminOps,
                   history>>

IsDue(b) == Period[b] # 0 /\ resetAt[b] > 0 /\ resetAt[b] <= now

FindDueBudgets ==
    /\ loop = "find"
    /\ due' = {b \in exists : IsDue(b)}
    /\ loop' = "reset"
    /\ UNCHANGED <<table, org, now, request, tick, adminOps, history>>

ResetDueBudget(b) ==
    /\ loop = "reset"
    /\ b \in due
    /\ Reset(b)
    /\ due' = due \ {b}
    /\ UNCHANGED <<exists, created, org, now, request, loop, tick, adminOps, checkedOrg>>

TickDone ==
    /\ loop = "reset"
    /\ due = {}
    /\ loop' = "sleep"
    /\ UNCHANGED <<table, org, now, request, due, tick, adminOps, history>>

-----------------------------------------------------------------------------
(* Administration and the passing of time.                                 *)

AdminOp == adminOps < MaxAdminOps /\ adminOps' = adminOps + 1

AddBudget(b) ==
    /\ AdminOp
    /\ b \notin created
    /\ created' = created \cup {b}
    /\ exists' = exists \cup {b}
    /\ used' = [used EXCEPT ![b] = 0]
    /\ enabled' = enabled \cup {b}
    /\ resetAt' = [resetAt EXCEPT ![b] = FirstResetAt(b, now)]
    /\ UNCHANGED <<org, now, request, loop, due, tick, history>>

DeleteBudget(b) ==
    /\ AdminOp
    /\ b \in exists
    /\ exists' = exists \ {b}
    /\ UNCHANGED <<created, used, enabled, resetAt, org, now, request, loop, due, tick,
                   history>>

ResetBudget(b) ==
    /\ AdminOp
    /\ b \in exists
    /\ Reset(b)
    /\ UNCHANGED <<exists, created, org, now, request, loop, due, tick, checkedOrg>>

\* Listing the budgets enforces the hard timers first.
GetAllBudgets ==
    /\ AdminOp
    /\ DisableExpiredBudgets
    /\ UNCHANGED <<exists, created, used, resetAt, org, now, request, loop, due, tick,
                   history>>

AssignUserToOrg(u, o) ==
    /\ AdminOp
    /\ org' = [org EXCEPT ![u] = o]
    /\ UNCHANGED <<table, now, request, loop, due, tick, history>>

Advance ==
    /\ now < Horizon
    /\ now' = now + 1
    /\ UNCHANGED <<table, org, request, loop, due, tick, adminOps, history>>

-----------------------------------------------------------------------------
RequestStep(r) ==
    \/ CheckUserBudgets(r) \/ CheckOrgBudgets(r)
    \/ ProviderFails(r) \/ RecordCost(r)
    \/ FindUserBudgets(r) \/ FindOrgBudgets(r) \/ NoOrganization(r)
    \/ \E b \in Budgets : BookBudget(r, b)
    \/ StopBudget(r) \/ ScopeBooked(r)

Maintenance ==
    \/ Tick \/ FindDueBudgets \/ TickDone
    \/ \E b \in Budgets : ResetDueBudget(b)

Administration ==
    \/ \E b \in Budgets : AddBudget(b) \/ DeleteBudget(b) \/ ResetBudget(b)
    \/ GetAllBudgets
    \/ \E u \in Users, o \in Orgs \cup {NoOrg} : AssignUserToOrg(u, o)

Next == (\E r \in Requests : RequestStep(r)) \/ Maintenance \/ Administration \/ Advance

Spec == Init /\ [][Next]_vars

\* The ticker fires and the loop's queries return; handlers run to their end.
FairSpec ==
    /\ Spec
    /\ WF_vars(Maintenance)
    /\ \A r \in Requests : WF_vars(RequestStep(r))

-----------------------------------------------------------------------------
(* Correctness.                                                            *)

\* No booking is lost, doubled or left from an earlier period: the usage of a
\* budget is the sum of the costs of the requests booked on it since its last
\* reset, however bookings and resets interleave (budget.go:121, 215-222).
UsedIsSumOfBookings ==
    \A b \in exists :
        used[b] = SumFunctionOnSet(cost, {r \in Requests : b \in credited[r]})

\* The hard lock (budget.go:152-173): a request whose check begins while a blocking
\* budget of its user, or of the organization it is checked for, is exhausted is
\* never admitted to a provider, whatever is booked, stopped, reassigned or expires
\* meanwhile, unless that budget is reset or deleted.
ExhaustedLocksOut ==
    \A r \in Requests, b \in exists :
        b \in shut[r] /\ Covers(b, r) => pc[r] \in {"checkOrg", "rejected"}

Quiet == \A r \in Requests : pc[r] \notin Booking

\* The automatic stop (budget.go:136-148) misses an exhausted budget only if some
\* booking since the last reset added to a usage that was no longer the one it read.
AutoStopUnlessOverlapped ==
    Quiet => \A b \in exists : Exhausted(b) /\ b \in enabled => b \in overlapped

\* "harte Timer (valid_until) durchsetzen" (budget.go:193-194): after a tick of the
\* loop no budget that had expired at the tick is enabled.
HardTimer ==
    loop = "sleep" => \A b \in exists : b \in enabled => ~Expired(b, tick)

\* A budget whose period is over is reset: the loop comes round to it.
DueIsReset == \A b \in Budgets : b \in exists /\ IsDue(b) ~> b \notin exists \/ ~IsDue(b)
=============================================================================
