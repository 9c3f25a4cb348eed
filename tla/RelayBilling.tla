---------------------------- MODULE RelayBilling ----------------------------
(***************************************************************************)
(* Quota billing of a relayed text completion: the pre-consumption before  *)
(* the provider call, the settlement or refund after it, and the retry     *)
(* loop around both, for any number of concurrent requests.                *)
(*                                                                         *)
(*   relay/controller/helper.go   preConsumeQuota, postConsumeQuota        *)
(*   relay/controller/text.go     RelayTextHelper                          *)
(*   relay/billing/billing.go     ReturnPreConsumedQuota                   *)
(*   controller/relay.go          Relay, shouldRetry                       *)
(*   model/token.go, user.go      Pre/PostConsumeTokenQuota and updates    *)
(*   model/cache.go               the Redis copy of the user quota         *)
(*                                                                         *)
(* One attempt is one call of RelayTextHelper.  Every database or Redis    *)
(* call of it is a step of its own, so the checks of one request           *)
(* interleave with the updates of another as they do in the program.       *)
(* The quota updates of an attempt and a top-up are expressions, "quota =  *)
(* quota +/- n", evaluated by the database and therefore atomic one by     *)
(* one, never together.  Beside them run the handlers that save a whole    *)
(* row they have read before, the quota in it included: User.Update        *)
(* (model/user.go) and UpdateToken (controller/token.go).                  *)
(***************************************************************************)
EXTENDS Integers, FiniteSets, Functions

CONSTANTS
    Requests, Users, Tokens,
    MaxAttempts,      \* config.RetryTimes + 1
    TokenOf,          \* TokenOf[r]: the token request r authenticated with
    OwnerOf,          \* OwnerOf[t]: the user a token belongs to
    Unlimited,        \* the tokens with unlimited_quota
    Pinned,           \* the requests that name their channel
    Estimate,         \* Estimate[r]: getPreConsumedQuota of request r
    Bills,            \* the quotas a provider's usage may come out at
    TopUps,           \* the quotas a top-up may credit
    Saves,            \* the calls that read a user's or a token's row and save it
    RowOf,            \* RowOf[s]: the user or token whose row call s saves
    Edits,            \* the quotas a form may set
    MaxOutside,       \* bound: number of saves and top-ups in a behaviour
    InitUserQuota, InitTokenQuota,
    TrustFactor,      \* 100 in preConsumeQuota
    LowWater,         \* config.PreConsumedQuota, below which the cache is not trusted
    RedisEnabled,
    DbFaults,         \* whether single database updates may fail
    NoKey             \* the key is absent from Redis

ASSUME BillingAssumption ==
    /\ IsFiniteSet(Requests)
    /\ Users \cap Tokens = {}
    /\ RowOf \in [Saves -> Users \cup Tokens]
    /\ MaxOutside \in Nat
    /\ Edits \subseteq Int
    /\ MaxAttempts \in Nat \ {0}
    /\ TokenOf \in [Requests -> Tokens]
    /\ OwnerOf \in [Tokens -> Users]
    /\ Unlimited \subseteq Tokens
    /\ Pinned \subseteq Requests
    /\ Estimate \in [Requests -> Nat]
    /\ Bills \subseteq Nat
    /\ TopUps \subseteq Nat
    /\ InitUserQuota \in [Users -> Nat]
    /\ InitTokenQuota \in [Tokens -> Nat]
    /\ TrustFactor \in Nat \ {0}
    /\ LowWater \in Nat
    /\ RedisEnabled \in BOOLEAN
    /\ DbFaults \in BOOLEAN
    /\ NoKey \notin Int

VARIABLES
    userQuota,        \* users.quota
    usedQuota,        \* users.used_quota
    requestCount,     \* users.request_count
    channelUsed,      \* channels.used_quota, summed over the channels
    remainQuota,      \* tokens.remain_quota
    tokenUsed,        \* tokens.used_quota
    alive,            \* the tokens that have not been deleted
    cache,            \* Redis: user_quota:<id>
    pc,               \* where each attempt is
    answer,           \* what the attempt's RelayTextHelper returned
    pre,              \* preConsumedQuota of the attempt
    seen,             \* the user quota the attempt last read
    bill,             \* quota computed from the provider's usage
    userHeld,         \* net quota the attempt took from the user's row
    tokenHeld,        \* net quota the attempt took from the token's row
    posted,           \* the rows PostConsumeTokenQuota has adjusted for it
    topUps,           \* number of top-ups so far
    saveAt,           \* where each saving call is
    copy,             \* the row it has read
    overtaken,        \* history: the calls whose row was updated since they read it
    undone,           \* history: what outdated copies have changed a row's quota by
    funded,           \* history: quota credited to a user or token by top-ups and forms
    ceiling           \* history: the most that funded + undone of a user has been

saveVars  == <<saveAt, copy>>
worthVars == <<undone, funded, ceiling>>
dbVars    == <<userQuota, usedQuota, requestCount, channelUsed, remainQuota, tokenUsed,
               alive, topUps, saveVars, overtaken, worthVars>>
holdVars  == <<userHeld, tokenHeld, posted>>
vars      == <<dbVars, cache, pc, answer, pre, seen, bill, holdVars>>

-----------------------------------------------------------------------------
Attempts == Requests \X (1..MaxAttempts)

Token(a) == TokenOf[a[1]]
User(a)  == OwnerOf[Token(a)]
Cost(a)  == Estimate[a[1]]

PCs == {"idle", "cap", "budget", "quota", "fill", "decrease", "pre", "preUser",
        "preToken", "preTake", "relay", "post", "postUser", "postToken",
        "refresh", "refill", "store", "book",
        "skipped", "rejected", "forfeited", "refunded", "billed"}

Ended == {"skipped", "rejected", "forfeited", "refunded", "billed"}

SavePCs == {"idle", "read", "again", "saved"}

Rows == Users \cup Tokens

Copies == [quota : Int, used : Nat, count : Nat]

NoCopy == [quota |-> 0, used |-> 0, count |-> 0]

\* "retry": failed, and shouldRetry holds for the status; "stop": it does not.
Answers == {"none", "ok", "retry", "stop"}

TypeOK ==
    /\ userQuota \in [Users -> Int]
    /\ usedQuota \in [Users -> Nat]
    /\ requestCount \in [Users -> Nat]
    /\ channelUsed \in Nat
    /\ remainQuota \in [Tokens -> Int]
    /\ tokenUsed \in [Tokens -> Int]
    /\ alive \subseteq Tokens
    /\ cache \in [Users -> Int \cup {NoKey}]
    /\ pc \in [Attempts -> PCs]
    /\ answer \in [Attempts -> Answers]
    /\ pre \in [Attempts -> Nat]
    /\ seen \in [Attempts -> Int]
    /\ bill \in [Attempts -> Nat]
    /\ userHeld \in [Attempts -> Int]
    /\ tokenHeld \in [Attempts -> Int]
    /\ posted \in [Attempts -> SUBSET {"user", "token"}]
    /\ topUps \in Nat
    /\ saveAt \in [Saves -> SavePCs]
    /\ copy \in [Saves -> Copies]
    /\ overtaken \subseteq Saves
    /\ undone \in [Rows -> Int]
    /\ funded \in [Rows -> Int]
    /\ ceiling \in [Users -> Int]

Init ==
    /\ userQuota = InitUserQuota
    /\ usedQuota = [u \in Users |-> 0]
    /\ requestCount = [u \in Users |-> 0]
    /\ channelUsed = 0
    /\ remainQuota = InitTokenQuota
    /\ tokenUsed = [t \in Tokens |-> 0]
    /\ alive = Tokens
    /\ cache = [u \in Users |-> NoKey]
    /\ pc = [a \in Attempts |-> "idle"]
    /\ answer = [a \in Attempts |-> "none"]
    /\ pre = [a \in Attempts |-> 0]
    /\ seen = [a \in Attempts |-> 0]
    /\ bill = [a \in Attempts |-> 0]
    /\ userHeld = [a \in Attempts |-> 0]
    /\ tokenHeld = [a \in Attempts |-> 0]
    /\ posted = [a \in Attempts |-> {}]
    /\ topUps = 0
    /\ saveAt = [s \in Saves |-> "idle"]
    /\ copy = [s \in Saves |-> NoCopy]
    /\ overtaken = {}
    /\ undone = [x \in Rows |-> 0]
    /\ funded = [x \in Rows |-> IF x \in Users THEN InitUserQuota[x]
                                ELSE InitTokenQuota[x]]
    /\ ceiling = InitUserQuota

-----------------------------------------------------------------------------
(* The retry loop.                                                         *)

Goto(a, l) == pc' = [pc EXCEPT ![a] = l]

Respond(a, s) == answer' = [answer EXCEPT ![a] = s]

\* Seeded fault: the loop does not look at the outcome.
BugFollowsAnyEnd(a) ==
    \/ a[2] = 1
    \/ a[2] > 1 /\ pc[<<a[1], a[2] - 1>>] \in Ended

\* Attempt a may follow a failed one.  shouldRetry is asked once, after the
\* first attempt; a later failure of any status lets the loop go on.
MayFollow(a) ==
    \/ a[2] = 1
    \/ /\ a[2] > 1
       /\ answer[<<a[1], a[2] - 1>>] \in {"retry", "stop"}
       /\ answer[<<a[1], 1>>] = "retry"

StartAttempt(a) ==
    /\ pc[a] = "idle"
    /\ MayFollow(a)
    /\ Goto(a, "cap")
    /\ UNCHANGED <<dbVars, cache, answer, pre, seen, bill, holdVars>>

\* No other channel, or the one that just failed: the turn is used up.
SkipAttempt(a) ==
    /\ pc[a] = "idle"
    /\ a[2] > 1
    /\ MayFollow(a)
    /\ Goto(a, "skipped")
    /\ Respond(a, "retry")
    /\ UNCHANGED <<dbVars, cache, pre, seen, bill, holdVars>>

\* Of a failed attempt shouldRetry says no when the request names its channel,
\* and else what the status code says.
Failures(a) == IF a[1] \in Pinned THEN {"stop"} ELSE {"retry", "stop"}

\* preConsumeQuota returned an error (403 or 500).
Reject(a) ==
    /\ Goto(a, "rejected")
    /\ \E s \in Failures(a) : Respond(a, s)

-----------------------------------------------------------------------------
(* preConsumeQuota.                                                        *)

CanPay(t, n) == t \in alive /\ (t \in Unlimited \/ remainQuota[t] >= n)

CheckTokenQuotaSufficient(a) ==
    /\ pc[a] = "cap"
    /\ \/ /\ Cost(a) <= 0 \/ CanPay(Token(a), Cost(a))
          /\ Goto(a, "budget")
          /\ UNCHANGED answer
       \/ /\ ~(Cost(a) <= 0 \/ CanPay(Token(a), Cost(a)))
          /\ Reject(a)
    /\ UNCHANGED <<dbVars, cache, pre, seen, bill, holdVars>>

\* IsScopeBudgetExhausted is module Budget's; here it may say either.
CheckBudget(a) ==
    /\ pc[a] = "budget"
    /\ \/ Goto(a, "quota") /\ UNCHANGED answer
       \/ Reject(a)
    /\ UNCHANGED <<dbVars, cache, pre, seen, bill, holdVars>>

\* The caller's comparison with the quota q it was given.
Compare(a, q) ==
    \/ /\ q - Cost(a) >= 0
       /\ Goto(a, "decrease")
       /\ UNCHANGED answer
    \/ /\ q - Cost(a) < 0
       /\ Reject(a)

CacheHit(u) == RedisEnabled /\ cache[u] # NoKey /\ cache[u] > LowWater

CacheGetUserQuota(a) ==
    /\ pc[a] = "quota"
    /\ \/ /\ CacheHit(User(a))
          /\ seen' = [seen EXCEPT ![a] = cache[User(a)]]
          /\ Compare(a, cache[User(a)])
       \/ /\ ~CacheHit(User(a))
          /\ seen' = [seen EXCEPT ![a] = userQuota[User(a)]]
          /\ \/ RedisEnabled /\ Goto(a, "fill") /\ UNCHANGED answer
             \/ ~RedisEnabled /\ Compare(a, userQuota[User(a)])
    /\ UNCHANGED <<dbVars, cache, pre, bill, holdVars>>

\* The second half of fetchAndUpdateUserQuota: RedisSet of what was read.
FillCache(a) ==
    /\ pc[a] = "fill"
    /\ cache' = [cache EXCEPT ![User(a)] = seen[a]]
    /\ Compare(a, seen[a])
    /\ UNCHANGED <<dbVars, pre, seen, bill, holdVars>>

\* Redis DECRBY makes a missing key 0 first.
Decremented(v, n) == (IF v = NoKey THEN 0 ELSE v) - n

Trusted(a) == seen[a] > TrustFactor * Cost(a)

\* Seeded fault: a trusted attempt keeps its preConsumedQuota.
BugTrustedKeepsPre(a) ==
    /\ pc[a] = "decrease"
    /\ cache' = IF RedisEnabled
                THEN [cache EXCEPT ![User(a)] = Decremented(@, Cost(a))]
                ELSE cache
    /\ pre' = [pre EXCEPT ![a] = Cost(a)]
    /\ Goto(a, IF Trusted(a) \/ Cost(a) = 0 THEN "relay" ELSE "pre")
    /\ UNCHANGED <<dbVars, answer, seen, bill, holdVars>>

\* CacheDecreaseUserQuota and the choice whether to pre-consume at all.
CacheDecreaseUserQuota(a) ==
    /\ pc[a] = "decrease"
    /\ cache' = IF RedisEnabled
                THEN [cache EXCEPT ![User(a)] = Decremented(@, Cost(a))]
                ELSE cache
    /\ \/ /\ Trusted(a) \/ Cost(a) = 0
          /\ pre' = [pre EXCEPT ![a] = 0]
          /\ Goto(a, "relay")
       \/ /\ ~(Trusted(a) \/ Cost(a) = 0)
          /\ pre' = [pre EXCEPT ![a] = Cost(a)]
          /\ Goto(a, "pre")
    /\ UNCHANGED <<dbVars, answer, seen, bill, holdVars>>

CacheDecreaseFails(a) ==
    /\ pc[a] = "decrease"
    /\ RedisEnabled
    /\ Reject(a)
    /\ UNCHANGED <<dbVars, cache, pre, seen, bill, holdVars>>

-----------------------------------------------------------------------------
(* PreConsumeTokenQuota: two checks, then two updates.                     *)

PreConsumeCheckToken(a) ==
    /\ pc[a] = "pre"
    /\ \/ CanPay(Token(a), pre[a]) /\ Goto(a, "preUser") /\ UNCHANGED answer
       \/ ~CanPay(Token(a), pre[a]) /\ Reject(a)
    /\ UNCHANGED <<dbVars, cache, pre, seen, bill, holdVars>>

\* Seeded fault: the token is never pre-consumed.
BugSkipsToken(a) ==
    /\ pc[a] = "preUser"
    /\ \/ userQuota[User(a)] >= pre[a] /\ Goto(a, "preTake") /\ UNCHANGED answer
       \/ userQuota[User(a)] < pre[a] /\ Reject(a)
    /\ UNCHANGED <<dbVars, cache, pre, seen, bill, holdVars>>

PreConsumeCheckUser(a) ==
    /\ pc[a] = "preUser"
    /\ \/ /\ userQuota[User(a)] >= pre[a]
          /\ Goto(a, IF Token(a) \in Unlimited THEN "preTake" ELSE "preToken")
          /\ UNCHANGED answer
       \/ /\ userQuota[User(a)] < pre[a]
          /\ Reject(a)
    /\ UNCHANGED <<dbVars, cache, pre, seen, bill, holdVars>>

\* The calls that have read row x and will save what they read.
Behind(x) == {s \in Saves : RowOf[s] = x /\ saveAt[s] \in {"read", "again"}}

\* Seeded fault: used_quota is forgotten.
BugTokenUsedForgotten(a, n) ==
    /\ overtaken' = IF Token(a) \in alive
                    THEN overtaken \cup Behind(Token(a)) ELSE overtaken
    /\ remainQuota' = IF Token(a) \in alive
                      THEN [remainQuota EXCEPT ![Token(a)] = @ - n] ELSE remainQuota
    /\ tokenHeld' = IF Token(a) \in alive
                    THEN [tokenHeld EXCEPT ![a] = @ + n] ELSE tokenHeld
    /\ UNCHANGED tokenUsed

\* UPDATE tokens SET remain_quota = remain_quota - n, used_quota = used_quota + n
\* WHERE id = t touches no row, and is no error, once the token is deleted.
TakeFromToken(a, n) ==
    IF Token(a) \in alive
    THEN /\ remainQuota' = [remainQuota EXCEPT ![Token(a)] = @ - n]
         /\ tokenUsed' = [tokenUsed EXCEPT ![Token(a)] = @ + n]
         /\ tokenHeld' = [tokenHeld EXCEPT ![a] = @ + n]
         /\ overtaken' = overtaken \cup Behind(Token(a))
    ELSE UNCHANGED <<remainQuota, tokenUsed, tokenHeld, overtaken>>

\* Seeded fault: the new quota is computed from the value read earlier.
BugStaleUserQuota(a, n) ==
    /\ userQuota' = [userQuota EXCEPT ![User(a)] = seen[a] - n]
    /\ userHeld' = [userHeld EXCEPT ![a] = @ + n]
    /\ overtaken' = overtaken \cup Behind(User(a))

TakeFromUser(a, n) ==
    /\ userQuota' = [userQuota EXCEPT ![User(a)] = @ - n]
    /\ userHeld' = [userHeld EXCEPT ![a] = @ + n]
    /\ overtaken' = overtaken \cup Behind(User(a))

PreConsumeFromToken(a) ==
    /\ pc[a] = "preToken"
    /\ TakeFromToken(a, pre[a])
    /\ Goto(a, "preTake")
    /\ UNCHANGED <<userQuota, usedQuota, requestCount, channelUsed, alive, topUps,
                   saveVars, worthVars, cache, answer, pre, seen, bill, userHeld,
                   posted>>

PreConsumeFromUser(a) ==
    /\ pc[a] = "preTake"
    /\ TakeFromUser(a, pre[a])
    /\ Goto(a, "relay")
    /\ UNCHANGED <<usedQuota, requestCount, channelUsed, remainQuota, tokenUsed,
                   alive, topUps, saveVars, worthVars, cache, answer, pre, seen, bill,
                   tokenHeld, posted>>

\* Either update may fail; the one before it is not undone.
PreConsumeFails(a) ==
    /\ DbFaults
    /\ pc[a] \in {"preToken", "preTake"}
    /\ Reject(a)
    /\ UNCHANGED <<dbVars, cache, pre, seen, bill, holdVars>>

-----------------------------------------------------------------------------
(* The provider call.                                                      *)

\* No adaptor, a body that does not convert, or DoRequest without a response:
\* RelayTextHelper returns the error and leaves the pre-consumed quota taken.
LocalError(a) ==
    /\ pc[a] = "relay"
    /\ \E s \in Failures(a) : Respond(a, s)
    /\ Goto(a, "forfeited")
    /\ seen' = [seen EXCEPT ![a] = 0]
    /\ UNCHANGED <<dbVars, cache, pre, bill, holdVars>>

\* An error response: ReturnPreConsumedQuota, whose goroutine runs on while
\* the request answers or retries.
ProviderError(a) ==
    /\ pc[a] = "relay"
    /\ \E s \in Failures(a) : Respond(a, s)
    /\ Goto(a, IF pre[a] # 0 THEN "post" ELSE "refunded")
    /\ seen' = [seen EXCEPT ![a] = 0]
    /\ UNCHANGED <<dbVars, cache, pre, bill, holdVars>>

\* A response with usage: the goroutine postConsumeQuota settles q.
ProviderAnswers(a) ==
    /\ pc[a] = "relay"
    /\ Respond(a, "ok")
    /\ \E q \in Bills : bill' = [bill EXCEPT ![a] = q]
    /\ Goto(a, "post")
    /\ seen' = [seen EXCEPT ![a] = 0]
    /\ UNCHANGED <<dbVars, cache, pre, holdVars>>

\* A response without usage: postConsumeQuota returns at once.
ProviderAnswersWithoutUsage(a) ==
    /\ pc[a] = "relay"
    /\ Respond(a, "ok")
    /\ Goto(a, "forfeited")
    /\ seen' = [seen EXCEPT ![a] = 0]
    /\ UNCHANGED <<dbVars, cache, pre, bill, holdVars>>

-----------------------------------------------------------------------------
(* PostConsumeTokenQuota, called with the difference to what was taken.    *)

\* Seeded fault: the quota is charged on top of what was pre-consumed.
BugDeltaOnTop(a) == IF answer[a] = "ok" THEN bill[a] ELSE 0 - pre[a]

Delta(a) == (IF answer[a] = "ok" THEN bill[a] ELSE 0) - pre[a]

\* Where the attempt goes once PostConsumeTokenQuota has returned.
AfterPost(a) ==
    IF answer[a] # "ok" THEN "refunded"
    ELSE IF RedisEnabled THEN "refresh" ELSE "book"

\* Seeded fault: the settlement waits for a token that is gone.
BugWaitsForToken(a) ==
    /\ pc[a] = "post"
    /\ Token(a) \in alive
    /\ Goto(a, "postUser")
    /\ UNCHANGED <<dbVars, cache, answer, pre, seen, bill, holdVars>>

\* GetTokenById: without the token neither row is touched.
PostConsumeReadToken(a) ==
    /\ pc[a] = "post"
    /\ Goto(a, IF Token(a) \in alive THEN "postUser" ELSE AfterPost(a))
    /\ UNCHANGED <<dbVars, cache, answer, pre, seen, bill, holdVars>>

AfterUser(a) == IF Token(a) \in Unlimited THEN AfterPost(a) ELSE "postToken"

PostConsumeUser(a) ==
    /\ pc[a] = "postUser"
    /\ TakeFromUser(a, Delta(a))
    /\ posted' = [posted EXCEPT ![a] = @ \cup {"user"}]
    /\ Goto(a, AfterUser(a))
    /\ UNCHANGED <<usedQuota, requestCount, channelUsed, remainQuota, tokenUsed,
                   alive, topUps, saveVars, worthVars, cache, answer, pre, seen, bill,
                   tokenHeld>>

\* The error of the user's update is overwritten by the token's.
PostConsumeUserFails(a) ==
    /\ DbFaults
    /\ pc[a] = "postUser"
    /\ Goto(a, AfterUser(a))
    /\ UNCHANGED <<dbVars, cache, answer, pre, seen, bill, holdVars>>

PostConsumeToken(a) ==
    /\ pc[a] = "postToken"
    /\ TakeFromToken(a, Delta(a))
    /\ posted' = [posted EXCEPT ![a] = @ \cup {"token"}]
    /\ Goto(a, AfterPost(a))
    /\ UNCHANGED <<userQuota, usedQuota, requestCount, channelUsed, alive, topUps,
                   saveVars, worthVars, cache, answer, pre, seen, bill, userHeld>>

PostConsumeTokenFails(a) ==
    /\ DbFaults
    /\ pc[a] = "postToken"
    /\ Goto(a, AfterPost(a))
    /\ UNCHANGED <<dbVars, cache, answer, pre, seen, bill, holdVars>>

-----------------------------------------------------------------------------
(* The rest of postConsumeQuota.                                           *)

\* CacheUpdateUserQuota: read the quota through the cache ...
CacheUpdateRead(a) ==
    /\ pc[a] = "refresh"
    /\ \/ /\ CacheHit(User(a))
          /\ seen' = [seen EXCEPT ![a] = cache[User(a)]]
          /\ Goto(a, "store")
       \/ /\ ~CacheHit(User(a))
          /\ seen' = [seen EXCEPT ![a] = userQuota[User(a)]]
          /\ Goto(a, "refill")
    /\ UNCHANGED <<dbVars, cache, answer, pre, bill, holdVars>>

CacheUpdateFill(a) ==
    /\ pc[a] = "refill"
    /\ cache' = [cache EXCEPT ![User(a)] = seen[a]]
    /\ Goto(a, "store")
    /\ UNCHANGED <<dbVars, answer, pre, seen, bill, holdVars>>

\* Seeded fault: the pre-consumption is credited to the cache once more.
BugCacheCredited(a) ==
    /\ pc[a] = "store"
    /\ cache' = [cache EXCEPT ![User(a)] = seen[a] + pre[a]]
    /\ Goto(a, "book")
    /\ UNCHANGED <<dbVars, answer, pre, seen, bill, holdVars>>

\* ... and write it back, which restarts the key's time to live.
CacheUpdateStore(a) ==
    /\ pc[a] = "store"
    /\ cache' = [cache EXCEPT ![User(a)] = seen[a]]
    /\ Goto(a, "book")
    /\ seen' = [seen EXCEPT ![a] = 0]
    /\ UNCHANGED <<dbVars, answer, pre, bill, holdVars>>

\* Seeded fault: the usage is booked with the sign of a quota change.
BugBookedNegative(a) ==
    /\ pc[a] = "book"
    /\ usedQuota' = [usedQuota EXCEPT ![User(a)] = @ - bill[a]]
    /\ requestCount' = [requestCount EXCEPT ![User(a)] = @ + 1]
    /\ channelUsed' = channelUsed + bill[a]
    /\ Goto(a, "billed")
    /\ UNCHANGED <<userQuota, remainQuota, tokenUsed, alive, topUps, saveVars,
                   overtaken, worthVars, cache, answer, pre, seen, bill, holdVars>>

\* UpdateUserUsedQuotaAndRequestCount and UpdateChannelUsedQuota.
BookUsage(a) ==
    /\ pc[a] = "book"
    /\ usedQuota' = [usedQuota EXCEPT ![User(a)] = @ + bill[a]]
    /\ requestCount' = [requestCount EXCEPT ![User(a)] = @ + 1]
    /\ channelUsed' = channelUsed + bill[a]
    /\ Goto(a, "billed")
    /\ UNCHANGED <<userQuota, remainQuota, tokenUsed, alive, topUps, saveVars,
                   overtaken, worthVars, cache, answer, pre, seen, bill, holdVars>>

-----------------------------------------------------------------------------
(* Saving a whole row.                                                     *)

\* The bound on what happens beside the attempts.
OneMore == topUps + Cardinality({s \in Saves : saveAt[s] # "idle"}) < MaxOutside

\* Updates of a struct leaves out the columns whose field is zero.
NonZero(v, old) == IF v = 0 THEN old ELSE v

\* The handler returns, and its copy is gone.
Finish(s) ==
    /\ saveAt' = [saveAt EXCEPT ![s] = "saved"]
    /\ copy' = [copy EXCEPT ![s] = NoCopy]

\* Row x is worth something else: the highest a user's has been is kept.
Revalue(x) ==
    ceiling' = IF x \in Users /\ funded'[x] + undone'[x] > ceiling[x]
               THEN [ceiling EXCEPT ![x] = funded'[x] + undone'[x]] ELSE ceiling

\* GenerateAccessToken, GetAffCode, EmailBind, ManageUser and the bindings read
\* the row themselves; for UpdateUser the editor's form has loaded it.
ReadUserRow(s) ==
    /\ saveAt[s] = "idle"
    /\ OneMore
    /\ RowOf[s] \in Users
    /\ copy' = [copy EXCEPT ![s] = [quota |-> userQuota[RowOf[s]],
                                   used  |-> usedQuota[RowOf[s]],
                                   count |-> requestCount[RowOf[s]]]]
    /\ saveAt' = [saveAt EXCEPT ![s] = "read"]
    /\ UNCHANGED <<userQuota, usedQuota, requestCount, channelUsed, remainQuota,
                   tokenUsed, alive, topUps, overtaken, worthVars, cache, pc, answer,
                   pre, seen, bill, holdVars>>

\* User.Update with quota n in the struct; the other counters are the copy's.
UpdateUserRow(s, n) ==
    /\ RowOf[s] \in Users
    /\ userQuota' = [userQuota EXCEPT ![RowOf[s]] = NonZero(n, @)]
    /\ usedQuota' = [usedQuota EXCEPT ![RowOf[s]] = NonZero(copy[s].used, @)]
    /\ requestCount' = [requestCount EXCEPT ![RowOf[s]] = NonZero(copy[s].count, @)]
    /\ overtaken' = overtaken \cup (Behind(RowOf[s]) \ {s})
    /\ UNCHANGED <<channelUsed, remainQuota, tokenUsed, alive, topUps, cache, pc, answer,
                   pre, seen, bill, holdVars>>

\* The quota goes back as it was read.  ManageUser's "delete" saves twice,
\* in Delete and after the switch.
WriteBackUser(s) ==
    /\ \/ /\ saveAt[s] = "read"
          /\ saveAt' = [saveAt EXCEPT ![s] = "again"]
          /\ UNCHANGED copy
       \/ /\ saveAt[s] \in {"read", "again"}
          /\ Finish(s)
    /\ UpdateUserRow(s, copy[s].quota)
    /\ undone' = [undone EXCEPT ![RowOf[s]] = @ + (userQuota'[RowOf[s]] - userQuota[RowOf[s]])]
    /\ UNCHANGED funded
    /\ Revalue(RowOf[s])

\* UpdateUser with another quota in the form.
EditUser(s) ==
    /\ saveAt[s] = "read"
    /\ Finish(s)
    /\ \E n \in Edits : UpdateUserRow(s, n)
    /\ funded' = [funded EXCEPT ![RowOf[s]] = @ + (userQuota'[RowOf[s]] - userQuota[RowOf[s]])]
    /\ UNCHANGED undone
    /\ Revalue(RowOf[s])

\* UpdateToken: GetTokenByIds ...
ReadTokenRow(s) ==
    /\ saveAt[s] = "idle"
    /\ OneMore
    /\ RowOf[s] \in alive
    /\ copy' = [copy EXCEPT ![s].quota = remainQuota[RowOf[s]]]
    /\ saveAt' = [saveAt EXCEPT ![s] = "read"]
    /\ UNCHANGED <<userQuota, usedQuota, requestCount, channelUsed, remainQuota,
                   tokenUsed, alive, topUps, overtaken, worthVars, cache, pc, answer,
                   pre, seen, bill, holdVars>>

\* ... and Token.Update, which names its columns: remain_quota among them, zero
\* or not, and used_quota not.  No row is touched once the token is deleted.
UpdateTokenRow(s, n) ==
    /\ RowOf[s] \in Tokens
    /\ saveAt[s] = "read"
    /\ Finish(s)
    /\ IF RowOf[s] \in alive
       THEN /\ remainQuota' = [remainQuota EXCEPT ![RowOf[s]] = n]
            /\ overtaken' = overtaken \cup (Behind(RowOf[s]) \ {s})
       ELSE UNCHANGED <<remainQuota, overtaken>>
    /\ UNCHANGED <<userQuota, usedQuota, requestCount, channelUsed, tokenUsed, alive,
                   topUps, ceiling, cache, pc, answer, pre, seen, bill, holdVars>>

\* With status_only the quota goes back as it was read.
WriteBackToken(s) ==
    /\ UpdateTokenRow(s, copy[s].quota)
    /\ undone' = [undone EXCEPT ![RowOf[s]] = @ + (remainQuota'[RowOf[s]] - remainQuota[RowOf[s]])]
    /\ UNCHANGED funded

EditToken(s) ==
    /\ \E n \in Edits : UpdateTokenRow(s, n)
    /\ funded' = [funded EXCEPT ![RowOf[s]] = @ + (remainQuota'[RowOf[s]] - remainQuota[RowOf[s]])]
    /\ UNCHANGED undone

-----------------------------------------------------------------------------
(* The environment: top-ups, deletion of a token, expiry of the Redis key. *)

TopUp(u) ==
    /\ OneMore
    /\ \E n \in TopUps :
          /\ userQuota' = [userQuota EXCEPT ![u] = @ + n]
          /\ funded' = [funded EXCEPT ![u] = @ + n]
    /\ topUps' = topUps + 1
    /\ overtaken' = overtaken \cup Behind(u)
    /\ UNCHANGED undone
    /\ Revalue(u)
    /\ UNCHANGED <<usedQuota, requestCount, channelUsed, remainQuota, tokenUsed, alive,
                   saveVars, cache, pc, answer, pre, seen, bill, holdVars>>

DeleteToken(t) ==
    /\ t \in alive
    /\ alive' = alive \ {t}
    /\ UNCHANGED <<userQuota, usedQuota, requestCount, channelUsed, remainQuota,
                   tokenUsed, topUps, saveVars, overtaken, worthVars, cache, pc, answer,
                   pre, seen, bill, holdVars>>

ExpireCache(u) ==
    /\ cache[u] # NoKey
    /\ cache' = [cache EXCEPT ![u] = NoKey]
    /\ UNCHANGED <<dbVars, pc, answer, pre, seen, bill, holdVars>>

-----------------------------------------------------------------------------
\* The steps RelayTextHelper takes up to the provider's answer, and those of
\* the goroutine that settles afterwards.
PreConsumeStep(a) ==
    \/ CheckTokenQuotaSufficient(a) \/ CheckBudget(a)
    \/ CacheGetUserQuota(a) \/ FillCache(a)
    \/ CacheDecreaseUserQuota(a) \/ CacheDecreaseFails(a)
    \/ PreConsumeCheckToken(a) \/ PreConsumeCheckUser(a)
    \/ PreConsumeFromToken(a) \/ PreConsumeFromUser(a) \/ PreConsumeFails(a)

RelayStep(a) ==
    \/ LocalError(a) \/ ProviderError(a)
    \/ ProviderAnswers(a) \/ ProviderAnswersWithoutUsage(a)

PostConsumeStep(a) ==
    \/ PostConsumeReadToken(a)
    \/ PostConsumeUser(a) \/ PostConsumeUserFails(a)
    \/ PostConsumeToken(a) \/ PostConsumeTokenFails(a)
    \/ CacheUpdateRead(a) \/ CacheUpdateFill(a) \/ CacheUpdateStore(a)
    \/ BookUsage(a)

AttemptStep(a) ==
    \/ StartAttempt(a) \/ SkipAttempt(a)
    \/ PreConsumeStep(a) \/ RelayStep(a) \/ PostConsumeStep(a)

SaveStep(s) ==
    \/ ReadUserRow(s) \/ WriteBackUser(s) \/ EditUser(s)
    \/ ReadTokenRow(s) \/ WriteBackToken(s) \/ EditToken(s)

Environment ==
    \/ \E s \in Saves : SaveStep(s)
    \/ \E u \in Users : TopUp(u) \/ ExpireCache(u)
    \/ \E t \in Tokens : DeleteToken(t)

Next == (\E a \in Attempts : AttemptStep(a)) \/ Environment

Spec == Init /\ [][Next]_vars

\* The Go scheduler runs every handler and goroutine, and provider calls and
\* queries return; saves, top-ups, deletions and expiries need never happen.
FairSpec == Spec /\ \A a \in Attempts : WF_vars(AttemptStep(a))

-----------------------------------------------------------------------------
(* Correctness.                                                            *)

\* What is missing from a row is what the attempts have taken from it
\* (TakeFromUser, TakeFromToken), once the quota credited to it is corrected by
\* what saves of an outdated copy have changed: User.Update (model/user.go:195)
\* and UpdateToken (controller/token.go:249-260) lose the charges and top-ups
\* between their read and their write.
RowsBalance ==
    /\ \A u \in Users :
          LET Mine == {a \in Attempts : User(a) = u}
          IN  userQuota[u] + SumFunctionOnSet(userHeld, Mine) = funded[u] + undone[u]
    /\ \A t \in Tokens :
          LET Mine == {a \in Attempts : Token(a) = t}
          IN  remainQuota[t] + SumFunctionOnSet(tokenHeld, Mine) = funded[t] + undone[t]

\* A token's used_quota, which no save writes, is what its attempts have taken.
UsageIsExact ==
    \A t \in Tokens :
        LET Mine == {a \in Attempts : Token(a) = t}
        IN  tokenUsed[t] = SumFunctionOnSet(tokenHeld, Mine)

\* A call that saves a row nothing else has updated since it was read, changes
\* no quota: a zero column is left alone, and any other is what it was.
OnlyOvertakenSavesUndo ==
    \A x \in Rows : undone[x] # 0 => \E s \in overtaken : RowOf[s] = x

\* Every unit of quota is accounted for, whatever saves of whole rows run
\* beside the attempts: a row no overtaken save has written is exact, and one
\* that was is off by what the save undid and by nothing else.
QuotaConserved == RowsBalance /\ UsageIsExact /\ OnlyOvertakenSavesUndo

\* What an attempt may have cost once it is over, from how it ended.
Due(a) == CASE pc[a] = "billed"    -> bill[a]
            [] pc[a] = "forfeited" -> pre[a]
            [] OTHER               -> 0

\* However the attempts interleave, one that is over has cost the user and the
\* limited token exactly what its end says: the provider's quota when it was
\* answered, the pre-consumption when RelayTextHelper returned without settling
\* (text.go:56-72, helper.go:111-114), and nothing when the request was turned
\* away or the provider reported an error.  A token deleted in the meantime
\* and a failed database update are the exceptions the code has; what a save
\* of an outdated row does to the charge afterwards is QuotaConserved's.
OutcomeDecidesCharge ==
    \A a \in Attempts :
        pc[a] \in Ended /\ Token(a) \in alive /\ ~DbFaults =>
            /\ userHeld[a] = Due(a)
            /\ Token(a) \notin Unlimited => tokenHeld[a] = Due(a)

\* Even with failing updates and deleted tokens no attempt is ever given back
\* more than it was charged: neither a refund goroutine nor a settlement below
\* the pre-consumption makes quota.
NoRefundBeyondHold ==
    \A a \in Attempts : userHeld[a] >= 0 /\ tokenHeld[a] >= 0

\* The provider is called only for an attempt that has been paid for in
\* advance, on the user and on the limited token, unless the user was trusted
\* (helper.go:94-99) or the estimate is zero.
ProviderCallIsCovered ==
    \A a \in Attempts :
        pc[a] = "relay" =>
            \/ Trusted(a) \/ Cost(a) = 0
            \/ /\ userHeld[a] = Cost(a)
               /\ Token(a) \notin Unlimited /\ Token(a) \in alive =>
                     tokenHeld[a] = Cost(a)

\* A request is answered, and so billed, by one attempt at most: the retry
\* loop starts an attempt only after all earlier ones have failed, whatever
\* their refund goroutines are still doing.
BilledAtMostOnce ==
    \A a, b \in Attempts :
        a[1] = b[1] /\ answer[a] = "ok" /\ a[2] < b[2] => pc[b] = "idle"

\* The Redis copy may lag behind the row, and DECRBY, the two halves of a cache
\* fill and the write-back of postConsumeQuota may run in any order, but the
\* copy never shows more than the user's row has ever been worth: what top-ups
\* and forms credited it with, and what saves of an outdated row brought back.
CacheNeverInventsQuota ==
    \A u \in Users : cache[u] # NoKey => cache[u] <= ceiling[u]

\* Every attempt that starts comes to an end: no lock, retry or goroutine of
\* the billing path keeps it from being answered and settled.
AttemptsEnd == \A a \in Attempts : pc[a] # "idle" ~> pc[a] \in Ended

\* The phase of an attempt in the abstract ledger.
LedgerPhase(a) ==
    CASE "user" \in posted[a] /\ answer[a] = "ok" -> "settled"
      [] "user" \in posted[a] /\ answer[a] # "ok" -> "released"
      [] "user" \notin posted[a] /\ userHeld[a] > 0 -> "held"
      [] OTHER -> "none"

UserSaves == {s \in Saves : RowOf[s] \in Users}

Ledger == INSTANCE QuotaLedger WITH
    Accounts  <- Users,
    Holds     <- Attempts,
    AccountOf <- [a \in Attempts |-> User(a)],
    Amounts   <- {Estimate[r] : r \in Requests} \cup Bills \cup TopUps,
    Clerks    <- UserSaves,
    ClientOf  <- [s \in UserSaves |-> RowOf[s]],
    Edits     <- Edits,
    Nothing   <- NoKey,
    balance   <- userQuota,
    amount    <- userHeld,
    phase     <- [a \in Attempts |-> LedgerPhase(a)],
    noted     <- [s \in UserSaves |->
                     IF saveAt[s] \in {"read", "again"} THEN copy[s].quota ELSE NoKey]

\* The billing path implements the ledger: per attempt one hold at most,
\* resolved at most once and for exactly its amount; beside holds and top-ups
\* an account is moved only by a form, or set back to what it was when the
\* call that saves it read it.
ImplementsLedger == Ledger!LedgerSpec
=============================================================================
