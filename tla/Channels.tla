------------------------------ MODULE Channels ------------------------------
(***************************************************************************)
(* Channels, their abilities, and the table requests are routed by.  A     *)
(* channel row says which group/model pairs a channel offers; one ability  *)
(* row per pair repeats that for the distributor's query, and a goroutine  *)
(* builds a table in memory from both.  Nothing is done in a transaction:  *)
(* every query of every operation is a step of its own.                    *)
(*                                                                         *)
(*   model/channel.go      Insert, Update, Delete, UpdateChannelStatusById *)
(*   model/ability.go      AddAbilities, UpdateAbilities,                  *)
(*                         GetRandomSatisfiedChannel                       *)
(*   model/cache.go        InitChannelCache,                               *)
(*                         CacheGetRandomSatisfiedChannel                  *)
(*   monitor/channel.go    DisableChannel, EnableChannel                   *)
(***************************************************************************)
EXTENDS Integers, FiniteSets

CONSTANTS
    ChannelIds, Jobs,
    Keys, Groups,
    GroupOf,          \* GroupOf[k]: the group of a group/model pair
    Offers,           \* the sets of pairs a channel may be saved with
    Priorities,
    MaxJobs,          \* bound: operations in a behaviour
    NoChannel

ASSUME ChannelAssumption ==
    /\ IsFiniteSet(ChannelIds)
    /\ GroupOf \in [Keys -> Groups]
    /\ Offers \subseteq SUBSET Keys
    /\ {} \notin Offers
    /\ Priorities \subseteq Int
    /\ MaxJobs \in Nat
    /\ NoChannel \notin ChannelIds

Statuses == {"enabled", "manual", "auto"}

\* What is known of a channel: a row, the form an administrator sends, or a copy.
Forms == [status : Statuses, offers : SUBSET Keys, prio : Int]

Abilities == [ch : ChannelIds, key : Keys, on : BOOLEAN, prio : Int]

NoForm == [status |-> "enabled", offers |-> {}, prio |-> 0]

VARIABLES
    channels,         \* the ids in the table of channels
    row,              \* row[c]: the row of channel c
    known,            \* every id given out so far
    abilities,        \* the table of abilities
    pc, job, form,    \* per operation: where it is, on which channel, with what data
    jobs,             \* how many operations there have been
    sync, rows,       \* InitChannelCache: where it is, the channels it has read
    table,            \* group2model2channels
    panicked,         \* InitChannelCache wrote into a map that was never made
    since,            \* channels written, or in the middle of it, since rows was read
    drifted           \* channels of overlapping operations, purged, or saved when gone

opVars == <<pc, job, form, jobs>>
syncVars == <<sync, rows, table, panicked>>
vars == <<channels, row, known, abilities, opVars, syncVars, since, drifted>>

-----------------------------------------------------------------------------
Of(c) == {a \in abilities : a.ch = c}

\* The abilities AddAbilities makes of a channel.
AbilitiesOf(c, f) ==
    {[ch |-> c, key |-> k, on |-> f.status = "enabled", prio |-> f.prio] : k \in f.offers}

Enabled(c) == c \in channels /\ row[c].status = "enabled"

Busy(c) == \E j \in Jobs : pc[j] # "idle" /\ job[j] = c

TypeOK ==
    /\ channels \subseteq known
    /\ known \subseteq ChannelIds
    /\ row \in [ChannelIds -> Forms]
    /\ abilities \subseteq Abilities
    /\ pc \in [Jobs -> {"idle", "reread", "delete", "renew", "add", "status"}]
    /\ job \in [Jobs -> ChannelIds \cup {NoChannel}]
    /\ form \in [Jobs -> Forms]
    /\ jobs \in 0..MaxJobs
    /\ sync \in {"sleep", "read"}
    /\ rows \subseteq [ch : ChannelIds, row : Forms]
    /\ table \in [Keys -> SUBSET [ch : ChannelIds, prio : Int]]
    /\ panicked \in BOOLEAN
    /\ since \subseteq ChannelIds
    /\ drifted \subseteq ChannelIds

Init ==
    /\ channels = {}
    /\ row = [c \in ChannelIds |-> NoForm]
    /\ known = {}
    /\ abilities = {}
    /\ pc = [j \in Jobs |-> "idle"]
    /\ job = [j \in Jobs |-> NoChannel]
    /\ form = [j \in Jobs |-> NoForm]
    /\ jobs = 0
    /\ sync = "sleep"
    /\ rows = {}
    /\ table = [k \in Keys |-> {}]
    /\ panicked = FALSE
    /\ since = {}
    /\ drifted = {}

-----------------------------------------------------------------------------
(* Operations.  Begin is the bookkeeping of the first step of each.        *)

Begin(j, c, l, f) ==
    /\ pc[j] = "idle"
    /\ jobs < MaxJobs
    /\ jobs' = jobs + 1
    /\ pc' = [pc EXCEPT ![j] = l]
    /\ job' = [job EXCEPT ![j] = c]
    /\ form' = [form EXCEPT ![j] = f]
    /\ since' = since \cup {c}

Goto(j, l) ==
    /\ pc' = [pc EXCEPT ![j] = l]
    /\ since' = since \cup {job[j]}
    /\ UNCHANGED <<job, jobs>>

Finish(j) ==
    /\ pc' = [pc EXCEPT ![j] = "idle"]
    /\ job' = [job EXCEPT ![j] = NoChannel]
    /\ form' = [form EXCEPT ![j] = NoForm]
    /\ since' = since \cup {job[j]}
    /\ UNCHANGED jobs

MarkOverlap(c) == drifted' = IF Busy(c) THEN drifted \cup {c} ELSE drifted

\* Insert: the row, then the abilities.  The form may have any status.
Insert(j, c, f) ==
    /\ c \notin known
    /\ f.offers # {}
    /\ Begin(j, c, "add", f)
    /\ known' = known \cup {c}
    /\ channels' = channels \cup {c}
    /\ row' = [row EXCEPT ![c] = f]
    /\ UNCHANGED <<abilities, syncVars, drifted>>

\* Update: the fields the form has, of a row that may be gone by now.
Update(j, c, f) ==
    /\ c \in known
    /\ Begin(j, c, "reread", f)
    /\ row' = IF c \notin channels THEN row
              ELSE IF f.offers = {} THEN [row EXCEPT ![c].status = f.status]
              ELSE [row EXCEPT ![c] = f]
    /\ drifted' = IF Busy(c) \/ c \notin channels THEN drifted \cup {c}
                                                 ELSE drifted
    /\ UNCHANGED <<channels, known, abilities, syncVars>>

\* First reads the whole row; when there is none the error is not looked at
\* and the form is used as it came.  (A form without pairs then makes an ability
\* for two empty names, which nobody asks for.)
Reread(j) ==
    /\ pc[j] = "reread"
    /\ form' = IF job[j] \in channels THEN [form EXCEPT ![j] = row[job[j]]] ELSE form
    /\ Goto(j, "renew")
    /\ UNCHANGED <<channels, row, known, abilities, syncVars, drifted>>

\* DeleteAbilities, the end of Delete and the first half of UpdateAbilities.
DeleteAbilities(j) ==
    /\ pc[j] \in {"delete", "renew"}
    /\ abilities' = abilities \ Of(job[j])
    /\ \/ pc[j] = "renew" /\ Goto(j, "add") /\ UNCHANGED form
       \/ pc[j] = "delete" /\ Finish(j)
    /\ UNCHANGED <<channels, row, known, syncVars, drifted>>

\* Seeded fault: a channel that is disabled gets no abilities.
BugAddsEnabledOnly(c, f) == abilities' =
    IF f.status = "enabled" THEN abilities \cup AbilitiesOf(c, f) ELSE abilities

\* Seeded fault: the columns of group and model are mixed up.
BugSwapsColumns(c, f) == abilities' = abilities \cup
    {[a EXCEPT !.key = GroupOf[a.key]] : a \in AbilitiesOf(c, f)}

\* Create: all rows, or none when one of the primary keys is taken.
Create(c, f) ==
    abilities' = IF \E a \in Of(c) : a.key \in f.offers
                 THEN abilities
                 ELSE abilities \cup AbilitiesOf(c, f)

AddAbilities(j) ==
    /\ pc[j] = "add"
    /\ Create(job[j], form[j])
    /\ Finish(j)
    /\ UNCHANGED <<channels, row, known, syncVars, drifted>>

\* Delete: the row, then the abilities.
Delete(j, c) ==
    /\ c \in known
    /\ Begin(j, c, "delete", form[j])
    /\ channels' = channels \ {c}
    /\ MarkOverlap(c)
    /\ UNCHANGED <<row, known, abilities, syncVars>>

\* DeleteDisabledChannel: rows only, the abilities stay.
DeleteDisabledChannel ==
    /\ ~panicked
    /\ jobs < MaxJobs
    /\ jobs' = jobs + 1
    /\ LET gone == {c \in channels : row[c].status # "enabled"} IN
       /\ channels' = channels \ gone
       /\ drifted' = drifted \cup gone
       /\ since' = since \cup gone
    /\ UNCHANGED <<row, known, abilities, pc, job, form, syncVars>>

\* UpdateChannelStatusById, for the monitor: first the abilities, then the row.
UpdateAbilityStatus(j, c, s) ==
    /\ c \in known
    /\ s \in {"enabled", "auto"}
    /\ Begin(j, c, "status", [form[j] EXCEPT !.status = s])
    /\ abilities' = (abilities \ Of(c))
                       \cup {[a EXCEPT !.on = (s = "enabled")] : a \in Of(c)}
    /\ MarkOverlap(c)
    /\ UNCHANGED <<channels, row, known, syncVars>>

UpdateRowStatus(j) ==
    /\ pc[j] = "status"
    /\ row' = IF job[j] \in channels THEN [row EXCEPT ![job[j]].status = form[j].status]
                                     ELSE row
    /\ Finish(j)
    /\ UNCHANGED <<channels, known, abilities, syncVars, drifted>>

-----------------------------------------------------------------------------
(* InitChannelCache, called in a loop by SyncChannelCache.                 *)

\* Seeded fault: the status of the channels is not asked for.
BugAllRows == channels

EnabledRows == {c \in channels : row[c].status = "enabled"}

ReadRows ==
    /\ sync = "sleep" /\ ~panicked
    /\ rows' = {[ch |-> c, row |-> row[c]] : c \in EnabledRows}
    /\ sync' = "read"
    /\ since' = {c \in ChannelIds : Busy(c)}
    /\ UNCHANGED <<channels, row, known, abilities, opVars, table, panicked, drifted>>

\* The groups of the abilities are the maps that are made; an entry for a
\* channel of any other group is an assignment to a nil map.
GroupMissing ==
    \E r \in rows, k \in Keys :
        k \in r.row.offers /\ GroupOf[k] \notin {GroupOf[a.key] : a \in abilities}

BuildTable ==
    /\ sync = "read"
    /\ sync' = "sleep"
    /\ \/ GroupMissing /\ panicked' = TRUE /\ UNCHANGED table
       \/ /\ ~GroupMissing
          /\ table' = [k \in Keys |-> {[ch |-> r.ch, prio |-> r.row.prio] :
                                          r \in {q \in rows : k \in q.row.offers}}]
          /\ UNCHANGED panicked
    /\ UNCHANGED <<channels, row, known, abilities, opVars, rows, since, drifted>>

-----------------------------------------------------------------------------
(* Where a request for pair k may be sent: the two implementations.        *)

\* GetRandomSatisfiedChannel, used without the memory cache.
DbCandidates(k, ignoreFirstPriority) ==
    LET On  == {a \in abilities : a.key = k /\ a.on}
        Top == {a \in On : \A b \in On : a.prio >= b.prio}
    IN  {a.ch : a \in IF ignoreFirstPriority THEN On ELSE Top}

\* Seeded fault: the list is sorted by ascending priority.
BugLowestFirst(k) == {e \in table[k] : \A d \in table[k] : e.prio <= d.prio}

\* The channels of the first priority, at the head of the sorted list.
FirstPriority(k) == {e \in table[k] : \A d \in table[k] : e.prio >= d.prio}

\* CacheGetRandomSatisfiedChannel.  A first priority of 0 or less is ignored.
CacheCandidates(k, ignoreFirstPriority) ==
    LET First == IF \E e \in FirstPriority(k) : e.prio > 0
                 THEN FirstPriority(k) ELSE table[k]
        Rest  == table[k] \ First
    IN  {e.ch : e \in IF ignoreFirstPriority /\ Rest # {} THEN Rest ELSE First}

-----------------------------------------------------------------------------
\* A panic of the sync goroutine ends the process and every operation in it.
Operation(j) ==
    /\ ~panicked
    /\ \/ \E c \in ChannelIds, s \in Statuses, o \in Offers \cup {{}}, p \in Priorities :
             LET f == [status |-> s, offers |-> o, prio |-> p]
             IN  Insert(j, c, f) \/ Update(j, c, f)
       \/ \E c \in ChannelIds :
             \/ Delete(j, c)
             \/ \E s \in Statuses : UpdateAbilityStatus(j, c, s)

OperationStep(j) ==
    /\ ~panicked
    /\ Reread(j) \/ DeleteAbilities(j) \/ AddAbilities(j) \/ UpdateRowStatus(j)

SyncChannelCache == ReadRows \/ BuildTable

Next ==
    \/ \E j \in Jobs : Operation(j) \/ OperationStep(j)
    \/ DeleteDisabledChannel
    \/ SyncChannelCache

Spec == Init /\ [][Next]_vars

-----------------------------------------------------------------------------
(* Correctness.                                                            *)

Matches(c) == Of(c) = IF c \in channels THEN AbilitiesOf(c, row[c]) ELSE {}

\* The abilities of a channel on which nothing is being done match its row, unless
\* operations on it overlapped, it was saved after its deletion, or it was purged
\* with the disabled channels (channel.go:158-230, 252-255, ability.go:53-96).
DriftNeedsOverlap == \A c \in ChannelIds \ drifted : ~Busy(c) => Matches(c)

\* The sync goroutine can only panic on a group without abilities while a channel
\* it has read is being rewritten, or after abilities drifted (cache.go:183-206).
PanicNeedsRewrite == panicked => since # {} \/ drifted # {}

Fresh == sync = "sleep" /\ ~panicked /\ since = {} /\ drifted = {}

\* Both routers agree on a freshly synced table: they know the same pairs, a
\* first attempt is routed to the same channels when the first priority is
\* positive, and a retry goes to no channel the database would not offer
\* (ability.go:22-51, cache.go:227-255).
RoutersAgree ==
    Fresh => \A k \in Keys :
        /\ (CacheCandidates(k, FALSE) = {}) = (DbCandidates(k, FALSE) = {})
        /\ (\E e \in table[k] : e.prio > 0) =>
              CacheCandidates(k, FALSE) = DbCandidates(k, FALSE)
        /\ CacheCandidates(k, TRUE) \subseteq DbCandidates(k, TRUE)

\* The table is never further behind than its last sync: while the loop sleeps, a
\* channel nobody has written since the rows were read is in the table for exactly
\* the pairs of its row when it is enabled, and nowhere when it is disabled or
\* deleted (cache.go:173-217).
TableFollowsRows ==
    sync = "sleep" /\ ~panicked =>
        \A c \in ChannelIds \ since, k \in Keys :
            {e \in table[k] : e.ch = c} =
                IF Enabled(c) /\ k \in row[c].offers
                THEN {[ch |-> c, prio |-> row[c].prio]}
                ELSE {}

=============================================================================
