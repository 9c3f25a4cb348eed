# Die Eine Kette: specification and proofs

A verification development for *Die Eine Kette*, a multi-tenant gateway for language
models: a Go server (`src/backend`, a fork of One API) that authenticates a request with a
token, picks a channel (an account at a provider), relays the request, and bills the result
to the token, the user, and the budgets of the user and of the organization; a console in
Next.js (`src/frontend`); and three web interfaces it inherited (`src/backend/web`: default,
air and berry, in React). The modules here model the parts whose correctness depends on the
order in which things happen: handlers, goroutines and database statements in the server;
clicks, calls and their answers in the interfaces.

Run a model with `tlc -config <Name>.cfg <Module>.tla`, check proofs with
`tlapm <Module>Proofs.tla`. `PROJECT.json` lists components, runs, theorems, findings and
the source lines of every definition.

## 1. The system

All state of record is in one SQL database (SQLite, MySQL or PostgreSQL through gorm);
statements autocommit one by one, and only the redemption of a code is a transaction.
Redis is optional and holds copies with a time to live. Handlers run as goroutines, one per
request; they start further goroutines for refunds, settlements and notices. Background
goroutines are the budget loop, the sync of options and of the routing table, the channel
test loop, the batch updater and two consumers of channel metrics. Billing and top-ups change
a quota by expressions (`quota = quota - n`), so that single statements are atomic; decisions
are made on values read by earlier statements, so sequences of statements are not. Other
handlers save a whole row that was read earlier. `User.Update` (backend/model/user.go:195)
writes every column of the row that is not zero, `quota`, `used_quota` and `request_count`
included; `GenerateAccessToken`, `GetAffCode`, `EmailBind`, `ManageUser` and the bindings of
accounts (controller/auth) call it with a row they have read, and `UpdateUser` with the one an
editor's form has loaded, in which the quota may be another. `UpdateToken`
(controller/token.go:249) writes the `remain_quota` of the form or, with `status_only`, the one
it has read. What is charged or credited between such a read and its write is undone.
(`UpdateSelf` writes no quota.)

| component | state | operations | interacts with |
| --- | --- | --- | --- |
| Relay billing | user and token quota, Redis copy, the locals of an attempt | pre-consume, relay, settle, refund, retry | budgets (lock before, booking after), channels (next attempt), batch updater (deferred writes) |
| Budgets | usage, status, reset date, timer of each budget; organization of a user | check, book, stop, reset, tick, add, delete, assign | billing, cost ledger |
| Batch updater | one map of deltas per type, one mutex per map | record, flush | quota updates of billing |
| Channels | channel rows, ability rows, routing table in memory | insert, update, delete, purge, status, sync, route | billing (retry), metrics, channel tests |
| Channel metric, channel tests | window of results per channel; a running flag | consume, disable; test all, enable | channels (status) |
| Redemption | status of a code | redeem, edit, delete | user quota |
| Token administration | status, expiry, remaining quota of a token | add, edit, delete, validate | billing |
| Users and blacklist | status and role of a user, Redis copy of the status, blacklist | enable, disable, delete, authenticate | every request |
| Organizations and licence | organizations, members, seats | add, delete, assign, create user | users, budgets |
| Agents and MCP | agents, pending actions, audit | call, confirm, decide, kill | rate limit by audit |
| Two-factor login | secret, flag, backup codes, session | set up, enable, disable, log in | users |
| Rate limiter, verification codes | maps in memory or Redis | request, clear; register, verify | login, registration |
| Options | map in memory, table | update, poll | everything, settings pages |
| Tables of the legacy interfaces | list of rows, page, order, flags; closures of calls under way | page, sort, search, refresh, change a row | list and change endpoints |
| Edit forms of the legacy interfaces | inputs, the row they are for, flags, timers | open, load, enter, submit, close | tables, endpoints of a row |
| Settings pages (all four interfaces) | inputs, options as loaded, a queue of saves per handler | load, enter, switch, submit, discover | options |
| Console | account, page, list, form, calls under way | log in and out, visit, list, create, change, two factors | every endpoint; 401 logs it out |

The interfaces keep no state of record, but they decide what is written: a form writes back
the whole row it shows, a settings page what it takes for changed. A handler is an `async`
function; between its `await`s others run, and it goes on with the state of the render it was
started in.

What makes each correct, and hard to test:

- **Billing**: every unit of quota is accounted for, and nothing but the save of a row that
  was updated since it was read undoes a charge or a credit; an attempt costs what its outcome
  says; a retry never bills twice; the provider is called only for what is covered. Hard
  because check and update are separate statements, whole rows are saved beside them, refunds
  run beside the next attempt, updates may fail one by one, and the Redis copy is read,
  decremented and written back unsynchronized.
- **Budgets**: an exhausted budget locks its user out; the usage is the sum of the
  bookings since the reset; the stop fires; what is due is reset. Hard because booking,
  stop, reset and tick interleave.
- **Batch updater**: a recorded change reaches the database once. Hard because two maps
  are exchanged under a mutex, and a crash or a failed update can fall anywhere.
- **Channels**: abilities agree with rows, the routing table follows, and both routers
  choose alike. Hard because nothing is a transaction and the table is read in two queries.
- **Tables**: an answer changes the row it was asked for; what is shown is what the server
  has; no row twice, none out of reach. Hard because a handler works on the list, the page
  and the index of an old render, and answers come in any order.
- **Forms**: what is saved for a row was loaded from it, recently; what was created is told
  of. Hard because forms stay mounted, are retargeted while a load is under way, and create
  rows one by one.
- **Settings**: what was meant is saved, or an error is shown (the console shows none, and
  there only what was not refused or lost is saved); what others change stands; sign-on is on
  only when complete. Hard because a button is several saves, compared with a
  copy of the options that is never brought up to date.
- **Console**: it names the account of the session; lists show what was done; a secret told
  once is shown; nothing hangs. Hard because every answer sets state whenever it comes, and
  pages, documents and sessions end under way.
- **The rest** is listed under "hazards" in `PROJECT.json`, each at its line.

## 2. Modules

| module | models | theorems |
| --- | --- | --- |
| `QuotaLedger` | abstract: what may move an account (reserve, settle, release; credit; a clerk who notes a balance, edits it, or sets it back to what he noted) | |
| `RelayBilling` | pre-consumption, provider call, settlement, refund, retry, Redis copy; top-ups and saves of whole rows | `RelayBillingProofs` |
| `Budget` | lock, booking, stop, reset, timer, administration | `AccountingProofs` |
| `BatchUpdater` | records, exchange of the maps, flush, crash | `AccountingProofs` |
| `Channels` | channels, abilities, routing table, both routers | `ChannelsProofs` |
| `UserAccess` | status of users, its copy in Redis, blacklist, `TokenAuth`, on several instances | `UserAccessProofs` |
| `ListView` | what the tables have in common: server, lists, row objects, closures | |
| `DefaultTables`, `AirTables`, `BerryTables` | the handlers of five tables each | |
| `Tables` | the fifteen tables, and what they promise | `TablesProofs` |
| `FormView` | what the forms have in common: loads, saves, closing | |
| `DefaultForms`, `AirForms`, `BerryForms` | the handlers of five, five and four forms | |
| `Forms` | the fourteen forms, and what they promise | `FormsProofs` |
| `SettingsSections` | the sections of all settings pages, field by field | |
| `Settings` | loading, entering, switching, saving and discovering | `SettingsProofs` |
| `Console` | the client: documents, sessions, account, shell, log-in | |
| `ConsolePages` | the pages that list and change things, and what the console promises | `ConsoleProofs` |

`MC<module>` gives the constants values for the configurations. Definitions named `Bug...`
are seeded faults: each stands for a plausible mistake in the definition that follows it,
is used nowhere in the specification, and shows, substituted for that definition, that the
property it is meant for can fail.

### RelayBilling

An attempt is a pair of a request and a number: one call of `RelayTextHelper`. `pc[a]` is
its place; every database or Redis call is a step of its own. `pre`, `seen`, `bill` are the
locals `preConsumedQuota`, `userQuota`, `quota`. `userQuota`, `remainQuota`, `tokenUsed`,
`usedQuota`, `requestCount`, `channelUsed` are columns, `cache` the Redis key
`user_quota:<id>`. `userHeld`, `tokenHeld` and `posted` are history: what the attempt has taken
in all, and whether it has been settled. A call that saves a whole row is a member of `Saves`,
of the user or token `RowOf` says; `saveAt` is its place and `copy` the row it has read (the
quota and, of a user, the two counters). History of these: `overtaken` (the calls whose row was
updated between their read and their write), `undone` (what writing back outdated copies has
changed a row's quota by), `funded` (what top-ups and forms have credited a row with) and
`ceiling` (the most a user's row has been worth, charges apart: the highest of `funded +
undone`).

| actions | code |
| --- | --- |
| `CheckTokenQuotaSufficient`, `CheckBudget`, `CacheGetUserQuota`, `FillCache`, `CacheDecreaseUserQuota` | `preConsumeQuota` (relay/controller/helper.go:68-108), model/cache.go:76-125 |
| `PreConsumeCheckToken`, `...CheckUser`, `...FromToken`, `...FromUser`, `...Fails` | `PreConsumeTokenQuota` (model/token.go:235-298) |
| `LocalError`, `ProviderError`, `ProviderAnswers`, `ProviderAnswersWithoutUsage` | `RelayTextHelper` (relay/controller/text.go:56-88) |
| `PostConsume...`, `CacheUpdate...`, `BookUsage` | `postConsumeQuota`, `ReturnPreConsumedQuota`, `PostConsumeTokenQuota` |
| `StartAttempt`, `SkipAttempt`, `Reject` | `Relay`, `shouldRetry` (controller/relay.go:45-122) |
| `ReadUserRow`, `WriteBackUser` (twice for a deletion) | `GetUserById` and `User.Update` (model/user.go:195) in `GenerateAccessToken`, `GetAffCode`, `EmailBind`, `ManageUser`, and in the bindings `GitHubBind`, `LarkBind`, `OidcBind`, `WeChatBind` (controller/auth) |
| `ReadUserRow`, `EditUser` | `UpdateUser` (controller/user.go:480), for a form that loaded the row; with the loaded quota in it, `WriteBackUser` |
| `ReadTokenRow`, `WriteBackToken`, `EditToken` | `UpdateToken` (controller/token.go:200-270) with and without `status_only` |
| `TopUp`, `DeleteToken`, `ExpireCache` | `IncreaseUserQuota` (AdminTopUp, redemption), administration, time to live |

An attempt ends `skipped` (no channel), `rejected`, `forfeited` (an error return that keeps
the reservation), `refunded` or `billed`. Abstracted: prices are numbers from a small set,
streaming is one step, and batch updates are off. Without Redis the quota is read from the
row on every request, which the runs have as a copy that is always absent (`ExpireCache`
may fire before every read). `Updates` of gorm leaves out zero columns (`NonZero`), `Token.Update`
names its columns and writes zero too. A request that names its channel (`Pinned`) is never
retried. `QuotaLedger` is the promise; `Ledger` maps each attempt to a hold and each save of a
user's row to a clerk, and `ImplementsLedger` says every behaviour is one of the ledger: no
other step moves an account, an attempt holds once and is settled once, and a clerk sets an
account back to nothing but the balance he noted.

### Budget

`used`, `enabled`, `resetAt`, `exists` are the rows; the amount, scope, reference,
period, timer and `on_exhaust` are constants of a budget. A request checks the user's
budgets (`CheckUserBudgets`), then those of the organization (`CheckOrgBudgets`), may fail
at the provider, records its cost, and books on one budget after another: `FindUserBudgets`
reads all, `BookBudget` adds to one, `StopBudget` disables it if the usage read crosses the
amount. `Tick`, `DisableExpiredBudgets`, `FindDueBudgets`, `ResetDueBudget` are the loop.
`AddBudget`, `DeleteBudget`, `ResetBudget`, `AssignUserToOrg` are the administrator's, bounded
together by a constant; `Advance` is the clock. History: `credited` (bookings since the
reset), `overlapped` (a booking added to a usage that was not the one it read), `shut` (what
was exhausted when a check began), `checkedOrg`, `tick`, `created`.

### BatchUpdater

A writer runs `addNewRecord`: `Call`, `LockStore`, `ReadEntry`, `WriteEntry`. The updater
runs `batchUpdate` over the types: `LockStores`, `TakeStore`, `ReplaceStore`, then `Apply`
or `ApplyFails` per entry in any order, as Go iterates maps. `Crash` clears memory.
`recorded` and `lost` are history. Values are summed per id, which is what the maps do.

### Channels

An operation is a job; each statement is a step. `Insert`, `Update` + `Reread`, `Delete`
write the row and then the abilities (`DeleteAbilities`, `AddAbilities`), the monitor's
`UpdateAbilityStatus` writes the abilities and then the row. `DeleteDisabledChannel` deletes
rows only. `Create` fails as a whole on a taken primary key. A group and a model are one
pair (`Keys`, `GroupOf`). `ReadRows` and `BuildTable` are the two queries of
`InitChannelCache`; when a group has no ability `BuildTable` panics, which ends the process
(`panicked`; nothing runs after it). `DbCandidates` and `CacheCandidates` are the sets the
two routers draw from at random. Not in it: failing statements, weights, balances.
`since` and `drifted` are history: what was written since the rows were read, and which
channels had overlapping operations, were purged or were saved when gone.

### UserAccess

An operation on a user is a job: `ManageUser` and `UpdateUser` are an administrator's,
`UpdateOwnRow` is a user's own (`GenerateAccessToken`, `GetAffCode`, `EmailBind`, which write
back the whole row they have read). A job changes the blacklist (`Ban`, `List`) and then the
row (`Write`, or `WriteFails`); deleting does both twice, because `ManageUser` goes on to
`Update` after `Delete`. A zero field of a form is "keep", which gorm does not write. A
request is `TokenAuth` from the user's status on: `GetEnabled`, `ReadEnabled`, `FillEnabled`
are `CacheIsUserEnabled`, `LookUp` is `IsUserBanned` with its fallback to the local map.
`NextRequest` lets a place be used again; `ExpireCache` and `Restart` are the environment's.
`Write` stands for the status and the role alone; that the same statement writes the rest of
the row read earlier, quota and counters included, is `RelayBilling`'s (`WriteBackUser`).
History: `shut` (requests that began when their user was settled and not enabled), `decided`
(what administrators decided last), `unsettled` (users of overlapping, failing or cut-off
operations), `fellBack`. Not in it: tokens, sessions, root users.

### Tables

`list`, `ui` and `switch` are the state of one component (`view`): the list of rows, the page
and the flags, and the state berry's rows keep for themselves. `obj` are the row objects,
which all copies of a list share; a copy has a generation, so that a handler that pushes onto
the very array of the state is told from one that copies it first. `calls` are the calls in
flight, each with what its closure holds: list, page, page size, index. Every handler is two
steps, `Begin` and an answer (`LoadAnswered`, `FoundAnswered`, `Settle`); the server's `Serve`
lies between them, and `Lost`, which ends the handler as an exception does, may come instead.

| actions | code |
| --- | --- |
| `ChannelsLoaded`, `TokensLoaded`, ... | `loadChannels`, `loadTokens`, ... after the answer |
| `...Pagination`, `...PageChange`, `...PageSize`, `...OrderBy`, `...Type`, `...Sort` | `onPaginationChange`, `handlePageChange`, `handleOrderByChange`, `sortChannel`, ... |
| `...Row`, `...Managed` | the buttons of a row; `manageChannel`, `manageToken`, ... after the answer |
| `...Search`, `...Found`, `...Refresh`, `ChannelsDeleteDisabled`, `ChannelsPurged` | the functions of these names |
| `Serve`, `Lost`, `Foreign` | server, network, another administrator |

Of a row only the status is kept. A filter by text is not told from one by type, an operation
on a row that is gone is refused.

### Forms

`ui` holds the form: open, the row it is for (`target`), whether it edits, the flags, and the
inputs, of which the model keeps whose row they are (`of`), how recent (`ver`), and whether
they are complete and valid. `db` counts the changes of a row. `calls` are loads and saves; a
save of several rows is one handler that calls again (`left`, `total`, `made`). Actions are
named for the form: `TokenOpen`, `TokenLoaded`, `TokenEnter`, `TokenSubmit`, `TokenSaved`,
`TokenClose`, and `TokenForget`, air's timer. `Foreign` changes a row elsewhere. The lists the selects offer are not
in it.

### Settings

A section is a sequence of fields with a rule each, which says how the field comes to be
saved (`SettingsSections` lists the rules). `server` are the options, `ui` what the component
shows and remembers, `jobs` the handlers under way: each is the queue of the saves it still
has to make, a map from fields to values that is taken in the order of the fields. `hist.meant`
are the fields root means to be saved as they are shown: those of a button when he clicks it,
less what he enters afterwards, and less air's list of domains when he enters the SMTP token,
because air sends the list only when this token is not blank (`Affects`). `hist.told` are those
an error was shown for; `hist.unsaved` those of the console whose last save was refused or lost:
it looks at no answer and shows "saved" all the same. `blind` and `raced` say that something was
asked before the page was loaded, and that two handlers that save the same option, or look up,
overlapped. `Received`, `Loaded` are `getOptions`, `Updated` is `updateOption` after the
answer, `Submit` the buttons (`submitSMTP`, `submitConfig`, ...), `Switch` the checkboxes,
`SubmitOidc` and `OidcFound` berry's lookup, `Save`, `Leave`, `Click`, `Discover`, `Discovered`
the console's. Of several fields of one rule in a row one or two stand for all.

### Console

`sess` is the account of the cookie, `db` what the server has, `page` the page, `auth` the
state of `AuthProvider` and `AppShell`, `ui` that of the page, `calls` the calls in flight. A visit by address loads a
new document, whose predecessor's handlers are gone; the router replaces the page only.
`Asked`-and-answered pairs are named for the code: `Listed` (`load`), `Create`, `Created`,
`Change`, `Changed`, `Submit`, `Goes` (log-in), `StartSso`, `Callback`, `StartSetup`,
`ConfirmEnable`, `Disable`. An endpoint answers, refuses a role too low, or answers 401
without a session, which logs the console out. A list is the number of changes it shows.

## 3. Runs

Deadlock is not checked in any of them: requests end, and with the bounds used up the
system, or the user, may stop.

| run | shows | bounds, and why they are enough |
| --- | --- | --- |
| `billing_race` | types, every unit accounted for, charge by outcome, cover, the Redis copy, refinement | first attempts of two requests, one user, a limited and an unlimited token, a bill above the one estimate and below the other; one top-up, one save of the user's row or one of the limited token's, as it was read or edited, at any point; token deletions, Redis with expiries: two suffice for every race between two statements of one path, and one save for every way it can undo them. A top-up lost to a save, and two saves of one row, need a second event beside the attempts, which the proofs have |
| `billing_retry` | one bill per request, no refund beyond the hold, attempts end | one request, three attempts (a retry after a retry), failing updates, deleted token, one top-up, Redis; no saves of rows, which touch no attempt |
| `budget` | types, the lock, the stop up to overlaps, sums of bookings, due budgets are reset | two requests of two users of one organization; a periodic user budget with a hard timer, an organization budget that an administrator may add; amount 2 and costs 1 and 2, so that a budget is met exactly and passed; one administrative operation; clock to 2, two periods |
| `budget_timer` | violation, see findings | as above, the fewest operations that show it |
| `batch_update` | nothing dropped or doubled; whatever is recorded is taken | two writers, two types, two ids, values -1 and 2 (which do not cancel), a crash, failing updates, under fairness |
| `channels` | types, drift, panic, the table follows the rows, the routers agree | two channels of priorities 0 and 1 (on either side of the `> 0` test), two jobs, three operations; symmetric in jobs and channels |
| `user_access` | types, the shut-out, agreement of row and blacklist, stale copies go | with and without Redis; one user (users share nothing), two instances, two administrators and the user himself, two operations that overlap in every way, failing calls, one restart, requests without end |
| `user_access_lost` | violation, see findings | one administrator, the user himself, no failures |
| `tables` | an answer changes its own row; what is shown is true; no row twice; none out of reach | every table; three rows and room for a fourth on pages of two, so that a page is full, half full and shifted; two calls in flight, two calls after the first load, one refusal, loss or change by another. Three calls after the first load, three in flight and five rows were tried apart, each alone; they showed the exceptions about rows listed twice |
| `forms` | saves go where their fields come from; fresh rows; what was created is told | every form; two rows, one of them the administrator's own, creations of up to two; two calls in flight, three openings and submissions (open, leave, open again), two troubles |
| `settings` | what was meant is saved or an error was shown (on the console: unless its last save was refused or lost); others' changes stand; sign-on is complete | a section of each kind (22; twins left out); two initial servers, new and in use; two handlers under way, three entries or clicks, one refusal, loss or change elsewhere |
| `console` | the account, lists, secrets, nothing hangs | an account of each role; every page with every session; two calls under way when the user goes on, two actions, one refusal, loss or end of a session |

Exceptions a property makes are stated with it, and each was found necessary: without it
TLC shows a behaviour of the code. They are listed in section 5.

Fairness is weak fairness of steps a goroutine takes by itself: the Go scheduler runs
every runnable goroutine, queries and provider calls return or fail (the clients have
timeouts), tickers and sleeps come to an end, keys with a time to live expire. Mutexes get
strong fairness, because `sync.Mutex` hands over to a waiter that has starved for a
millisecond. Nothing is fair that an administrator, a client or the environment does. The interfaces
are modelled without fairness: their properties speak of states in which nothing is under
way, and of steps.

## 4. Proofs

| theorem | states |
| --- | --- |
| `RelayBillingProofs`: `TypeCorrect`, `Conservation`, `OutcomeCharged`, `NoQuotaMade`, `CallsCovered`, `BilledOnce`, `CacheBounded`, `LedgerImplemented` | the invariants of `RelayBilling`, that every unit is accounted for and that the Redis copy is bounded among them, and the refinement of `QuotaLedger` |
| `AccountingProofs`: `TypeCorrect`, `LockHolds`, `StopHolds`, `BookingsAddUp` | of `Budget`: types, the lock, the stop up to overlaps, and that the usage is the sum of the bookings |
| `AccountingProofs`: `BatchTypesHold`, `ExchangeIsSafe` | of `BatchUpdater`: types; every value is accounted for |
| `ChannelsProofs`: `TypeCorrect`, `DriftHolds`, `PanicHolds`, `TableHolds`, `RoutersHold` | types; abilities and table follow the rows; when the sync goroutine can panic; both routers agree |
| `UserAccessProofs`: `TypeCorrect`, `ShutOutHolds`, `AgreementHolds` | types; who is disabled stays out; row and blacklist agree |
| `TablesProofs`: `TypesHold`, `RowIsRight`, `RowsAreListedOnce`, `RowsAreInReach`, `TheTruthIsShown` | types; the four promises of the tables, one of them an action property |
| `FormsProofs`: `FormTypes`, `EverythingTold`, `FormsShowFresh`, `FormsTargetRight` | types, and that form and table agree about the row; the three promises of the forms, one of them an action property |
| `ConsoleProofs`: `ConsoleTypes`, `NeverHangs`, `SecretsShown`, `SaysTruly`, `ListsShowChanges` | types, and that calls can be told apart; the four promises of the console |
| `SettingsProofs`: `TypesHold`, `OthersStand`, `SignOnComplete`, `SavedIsSaved` | types; what others change stands, an action property; single sign-on is complete up to fields whose last save was refused or lost; what was meant is saved, or an error was shown, or, on the console, its last save was refused or lost |

They hold for any number of requests, tokens, budgets, writers, channels, users, instances,
and any amounts, for tables with any rows, any page size and any number of calls in flight,
and for the forms, the settings and the console with any number of calls in flight, of
actions of the user and of troubles; from the assumptions named in the modules (`BillingAssumption`,
`BudgetAssumption`, `BatchAssumption`, `ChannelAssumption`, `AccessAssumption`,
`TableAssumption`, `FormAssumption`, `SettingsAssumption`, `ConsoleAssumption`), which only type the constants, keep model values
apart, and say that there are finitely many channels, rows of a table and places for its
calls, and finitely many requests, and places for calls of a form, where they are summed
over.

- **Billing.** `OutcomeDecidesCharge` speaks of ended attempts only and is not inductive.
  `BillingInv` says for every place of an attempt what it holds on the user and the token
  and what its locals are (unanswered: nothing or the reservation; answered: the reservation
  until adjusted, then the bill). A step of one attempt leaves the others alone
  (`StepIsLocal`), so it is enough to prove each step for its own attempt (`StepKeeps`). The
  single bill follows from `EarlierAttemptsFailed`, the refinement from `StepRefines`.
- **Conservation.** A column and the sum of what the attempts hold on it change by the same
  amount in each step: a sum changes with one of its terms (`SumChange`).
  The community modules define a sum by a recursive function, whose value nothing says at
  first (`SumIsTotal`): it follows from the well-foundedness of the subsets of a finite set, by
  a smallest set the recursion fails for. The proofs about budgets and forms rest on the same
  lemmas about sums. Saves of whole rows come in through `undone`: what they write is the copy,
  and that only a save which was overtaken changes anything rests on `FreshInv`, that the copy
  of a call nobody has overtaken is the row as it is; whoever updates a row therefore has to
  mark the calls behind it, and the proof asks this of every update. The refinement takes the
  same saves as steps of clerks. The Redis copy stays below the most the row has ever been worth
  (`ceiling`) because each of the values it can be written from does: the row (as no attempt
  holds less than nothing), an attempt's reading of the row, and the copy itself less an
  estimate.
- **Budgets.** `LockInv` adds to the lock what the second half of the check remembers: the
  organization it read, and that no budget of the user is among the exhausted ones once the
  first half has passed. `StopInv` says an exhausted enabled budget without overlap has a
  booking that is about to stop it. `BookInv` says which budgets a request has still to book
  on, so that it is credited once to each; with it the usage grows with the sum (`SumAdd`).
- **Batch.** `ExchangeInv` is mutual exclusion per type, that the entry a writer has read
  is the entry in the map while it holds the mutex, and the sum.
- **Channels.** `DriftNeedsOverlap` speaks of channels nobody is at work on. `ChannelInv` says
  that on a channel that has not drifted at most one operation is at work, and what its
  abilities are at each place of it (`Midway`); a step leaves the other channels alone
  (`Alone`). `SyncInv` says that whoever writes is noted in `since`, and that rows read, and
  the table built of them, follow the rows of the channels that are not. A panic needs a group
  that no ability has, which contradicts both (`GroupsKnown`). The routers agree because a
  fresh table and the abilities that are on are the same pairs of channel and priority
  (`TableIsAbilities`); that one of them is the highest takes that channels are finitely many
  (`HighestExists`, by well-founded induction over sets of channels).
- **Access.** `RowAndBlacklistAgree` speaks of users nobody is at work on. `UserInv` says
  for each place of the one operation on an undisturbed user what it will leave in the row
  and when the blacklist is right already (`AtWork`); `ShutInv` adds that a request of a user
  shut out gets past the row only with Redis on, where the blacklist stops it.
- **Tables.** Some ninety buttons and handlers do one of nine things (`Works`): ask, choose,
  sort, take a page, take a search, end an operation, take a row off, load again, start again.
  `DefaultWorks`, `AirWorks` and `BerryWorks` show it handler by handler; from there the
  proofs speak of the fifteen tables at once (`Step`). The four promises need an invariant each, over `Base`: types,
  one array to a number (handlers that push share an array with the list that is shown, and
  it may have grown since they were started), and calls that find their row where they look
  for it (`Fits`). An answer is then written into its own row, because a slot of `calls` that
  empties is the only thing that changes an object (`Changes`). `Sounds` says of every array a
  handler may still hold that it has no row twice and, as long as no row has gone, is the first
  pages of the server's listing, and of every answer under way that it is the page that was
  asked for; a page is put where it belongs, since pages before it are full (`PagePlaced`).
  A missing row is in reach because a list that is not complete has full pages only
  (`FullPages`). `Truth` says what rows show while calls are in flight: no two calls touch the
  same row, all hold the rows that are shown, an answer under way is still true, and a row that
  does not show what the server has is owed an answer that will change it (`Owed`). `Spinning`
  gives each spinner a call that ends it. The lists of the server are chosen among the
  enumerations of a set, so that the proofs first show that a finite set has one (`InOrder`).
  The proof of `NothingOutOfReach` used neither that nothing is in flight nor that no call had
  been refused or lost, which the property once required; it now holds in every state.
  Another attempt found two arms of a `CASE` of the server's answer that overlapped
  (`Outcome`), which leaves the value open.
- **Forms.** The handlers of the fourteen forms take steps of nineteen shapes (`Shape`), and
  each invariant is proved for the shapes, not for the handlers. `Base`
  has the types, what is true of a call by itself (`Whole`), and that `isEdit`, `target` and
  the rest agree (`Sane`). What was not told is the sum of what the calls in flight owe
  (`Told`): creating tokens one by one moves what was made into the total, and only an end
  tells it. `PageKnows` says of a page of default that the calls it listens to are for the
  row it shows, however many deaf ones there are, and that it is loading until it has the row.
  `SheetKnows` says that whoever waits has at most one call in flight, for the row that is
  shown (`OneCall`, `CallsFit`), that a form for a new row has inputs of none, and a form that
  waits for nothing has its row (`NewIsOfNone`, `RowIsThere`). `RightTarget` follows, because
  only a submission fills a free slot with a call that saves.
- **Console.** Some sixty handlers take a step of a dozen shapes: a call is started, is
  answered by the server, ends and starts others, or the page, the document or the session
  goes (`StepShapes`); each invariant is proved for the shapes. `Base` has the types, and that
  no two calls have the same number and no call of a page outlives it. Each promise needs an
  invariant about the calls in flight, since it speaks only of states without any: that
  something which waits has a call it waits for (`Behind`); that the secrets made are those
  shown or on their way (`SecretsCounted`); that calls about the session do not cross and
  what they have been answered is still so (`Knows`); that nothing of the page is beside a
  change, and that a list on its way or shown has all changes (`UpToDate`). The proof of
  `SaysTruly` showed that `crossed` was set also after log-ins that nothing crossed; it is now
  set when two calls about the session are in flight together, and excuses only that.

- **Settings.** All sections of the four interfaces are proved about at once, by the rules of
  their fields and not by their names. What an action does is first said field by field
  (`EnterFacts`, `SubmitFacts`, ...) in terms of four shapes: a handler that saves is begun
  (`Asks`), one that looks something up (`Looks`), one goes on with what is left (`Moved`), or
  none of them is touched; every invariant is proved for the shapes. `OthersChangesStand`
  needs that what differs from what was loaded was entered, on the page and in what every
  handler remembers and has still to save (`TouchInv`). `SignOnIsComplete` speaks of the
  server only, but the button looks at the page: `SsoInv` says that what the page knows of the
  client and the endpoints, the server has or is about to have (`Goes`), and that the switch
  is not ahead of them. `SavedMeansSaved` speaks of states in which nothing is under way, and
  needs to know what is shown and what the server has while something is (`MeansInv`): before
  the options have come nothing is meant, and a form that covers itself while it saves has one
  handler at a time (`LoadInv`); handlers that did not overtake each other save different
  options, and what was answered well is what the server has (`RaceInv`); in the inherited
  interfaces what was meant is about to be saved, is not sent at all, or is shown as the
  server has it (`Settled` in `LegacyInv`), which for a field that is saved with every key
  holds even when it is not meant (`Keyed`); the console shows a value before it saves it, so
  that there what is shown follows the first save of a handler and not the ones behind it
  (`ConsoleInv`). A first attempt at `LegacyInv` failed for air's list of domains: a list
  entered and submitted with a blank SMTP token is not sent, and the button would send it once
  the token was there, so that it was held to be meant and not saved. The model now says that
  who enters the token decides on the list anew (`Affects`).

Left to TLC: liveness alone (`EveryRecordIsTaken`, `AttemptsEnd`, `DueIsReset`,
`StaleStatusGoes`), because temporal reasoning about fairness is out of the prover's reach. Every
invariant and every action property that a run checks is also a theorem.

## 5. Findings and known exceptions

Two runs show what a comment or a document rules out:

- `HardTimer`: a tick disables an expired periodic budget and enables it again.
- `DecisionStands`: a user who generates an access token while an administrator disables
  him takes himself off the blacklist and enables his row again.

The other properties hold with the exceptions they name. In the server:

- Two bookings that overlap leave an exhausted budget enabled; a stop decided before a reset
  disables the emptied budget.
- Two operations on one channel leave other abilities than the row has, or abilities of a
  channel that is gone ("Database consistency has been broken", distributor.go:53); a sync
  during a rewrite ends the process.
- A call that saves the row of a user (user.go:195) or of a token (token.go:249-260) undoes what
  was charged, refunded or credited since it read the row: a request settled while its user
  asks for an access token costs nothing, and a top-up at that moment is lost (`overtaken`,
  `undone`). An editor's form, open for minutes, does so with the quota it loaded.
- The token cap of helper.go:71 checks an estimate; the settlement takes a token below zero.

In the tables: berry's rows forget what their switch did; air takes a row off the list though
deleting it was refused (the next page then starts a row late and, loaded again, doubles a
row), offers no further page when the page size is above the server's, lists rows twice when
the size is raised and the next page asked for before the first is back, and loads further
pages of logs without the type; berry's log asks twice when refreshed. Where
pages are pushed (users and redemption codes, of default and of air) a page that is asked for
twice is there twice, and the twin of a row that is then deleted stays. And a page that no
longer follows the loaded ones (the list became shorter while it was asked for, or the page
shown is refreshed after the deletion of disabled channels has loaded the first one alone) is
put at the end all the same, and its rows are there twice when its place is reached again.

In the forms: an answer for an earlier row fills the form of the next (so the administrator
must wait, `Careful`); air's token form is emptied also by a refusal; air's channel and
redemption forms show what they showed last time when opened for the same row; berry does not
show the codes that a refused creation has created; a page of default whose load failed can
be submitted blank.

In the settings: buttons that work before the options have come write blanks (`blind`); an
option set back to what was loaded is not sent (`Unsendable`); default's list of domains never
reaches what is saved, and air's is sent only with the SMTP token entered
(air's SystemSetting.js:158); air's push address is saved with every key; the console shows "saved"
also for what was refused or lost (SystemSettings.tsx:59-64, SsoSetup.tsx:45-48), so that nothing
is promised of such a field until its next save (`unsaved`), while the other fields of the
section are held to what root meant; and it lets two discoveries cross (`raced`).

In the console: an answer about the account that was asked for before a log-in or log-out
counts after it (`crossed`); a lost answer leaves a button blocked; a refused list is shown as
an empty one; the warning about root's password (AppShell.tsx:25) stays when a common user
logs in in the same document.

## 6. Not modelled

- Audio and image requests, deferred quota updates composed with billing, changes of a token's
  `unlimited_quota` (a constant; a save changes the quota alone), weights and
  balances of channels, failing reads of budgets (which count as "not exhausted"), logging
  switched off (then no cost is booked), budgets of renamed users.
- The window of channel metrics and the channel test loop; redemption as a transaction;
  validation of tokens; seats; agents; backup codes; rate limits; verification codes. They
  are short sequences on one row or map; what can go wrong in them is under "hazards" in
  `PROJECT.json`, at its line.
- Adaptors of the providers, pricing tables, OAuth exchanges, mail and texts, tools. They
  convert, format or deliver, and keep no state that the rest depends on.
- Of the interfaces: log-in, registration, profile, top-up and dashboards of the inherited
  ones; the licence card, home, FAQ and languages of the console; the lists that selects offer.
