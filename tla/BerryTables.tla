----------------------------- MODULE BerryTables -----------------------------
(***************************************************************************)
(* The tables of web/berry/src/views: channels, tokens, users, redemption  *)
(* codes and logs.  Pages are numbered from 0.  A row is a component of    *)
(* its own, keyed by the id, which keeps the status it shows while it is   *)
(* mounted; after a deletion a page is loaded again.                       *)
(***************************************************************************)
EXTENDS ListView

\* The count has room for a further page while the last one is full.
Pages == CeilDiv(Len(list.rows) + (IF Len(list.rows) % PAGE = 0 THEN 1 ELSE 0), PAGE)
Placed(c) == IF c.from = 0 THEN Replaced(c) ELSE Spliced(c)
Searching == [ui EXCEPT !.searching = TRUE]

\* The page after the last one is loaded before it is turned to.
TurnOrLoad(p) ==
  /\ p \in 0..(Pages - 1) /\ p # ui.page
  /\ IF p = CeilDiv(Len(list.rows), PAGE)
     THEN Begin([Loading(p) EXCEPT !.then = p], Searching)
     ELSE Turn(p)
Search(blank) ==
  IF blank THEN Begin([Loading(0) EXCEPT !.then = 0], Searching) ELSE Begin(Finding, Searching)

\* The k-th row asks for the opposite of the status it shows.
RowOf(k, acts) ==
  LET q == Slice(list, ui)
  IN  /\ k \in DOMAIN q
      /\ \E a \in acts \cup {Toggle(switch[q[k][1]])} :
           Begin([Call("manage", q[k][1], a, 0, "all") EXCEPT
                    !.list = IF a \in {"test", "priority", "enable", "disable"}
                                /\ view # "berry/users" THEN Unneeded ELSE @,
                    !.set = CASE a = "enable" -> 1 [] a = "disable" -> 2 [] OTHER -> 0], ui)

\* After a deletion the page of the closure is loaded again; a status that was
\* accepted is shown by the row.
Managed(s, reload(_), page(_)) ==
  LET c == calls[s]
  IN  /\ Served(s, "manage") /\ c.id # 0
      /\ IF c.ok /\ reload(c)
         THEN Settle(s, list, obj, Searching, Reloading(c, page(c)), c.act = "delete")
         ELSE SettleSwitched(s, list, obj, ui, None, FALSE,
                             IF c.ok THEN SwitchedBy(c) ELSE switch)
Deleted(c) == c.act = "delete"

-----------------------------------------------------------------------------
(* Channel/index.js and Channel/component/TableRow.js                      *)

ChannelsLoaded(s) == LoadAnswered(s, "searching", Placed(calls[s]), ui.count)
ChannelsPagination(p) == TurnOrLoad(p)
ChannelsSearch(blank) == Search(blank)
ChannelsFound(s) == FoundAnswered(s, 0, ui.count)
ChannelsRefresh == Begin(Loading(ui.page), Searching)
ChannelsManaged(s) == Managed(s, Deleted, LAMBDA c : c.page)
ChannelsDeleteDisabled == Begin(Call("manage", 0, "purge", 0, "all"), ui)
ChannelsPurged(s) ==
  LET c == calls[s]
  IN  /\ Served(s, "manage") /\ c.act = "purge"
      /\ IF c.ok THEN Settle(s, list, obj, Searching, Reloading(c, c.page), TRUE)
                 ELSE Settle(s, list, obj, ui, None, FALSE)
\* Only narrow screens offer it.
ChannelsBalances ==
  Begin([Call("manage", 0, "balances", 0, "all") EXCEPT !.list = Unneeded], Searching)
ChannelsBalanced(s) ==
  /\ Served(s, "manage") /\ calls[s].act = "balances"
  /\ Settle(s, list, obj, [ui EXCEPT !.searching = FALSE], None, FALSE)
ChannelsRow(k) == RowOf(k, {"test", "priority", "delete"})

Channels ==
  /\ view = "berry/channels"
  /\ \/ \E s \in Slots : \/ ChannelsLoaded(s) \/ ChannelsManaged(s) \/ ChannelsPurged(s)
                         \/ ChannelsFound(s) \/ ChannelsBalanced(s)
     \/ \E p \in 0..(Pages - 1) : ChannelsPagination(p)
     \/ \E k \in 1..PAGE : ChannelsRow(k)
     \/ \E blank \in BOOLEAN : ChannelsSearch(blank)
     \/ ChannelsRefresh \/ ChannelsDeleteDisabled \/ ChannelsBalances

-----------------------------------------------------------------------------
(* Token/index.js and Token/component/TableRow.js                          *)

TokensLoaded(s) == LoadAnswered(s, "searching", Placed(calls[s]), ui.count)
TokensPagination(p) == TurnOrLoad(p)
TokensSearch(blank) == Search(blank)
TokensFound(s) == FoundAnswered(s, 0, ui.count)
TokensRefresh == Begin(Loading(ui.page), Searching)
TokensManaged(s) == Managed(s, Deleted, LAMBDA c : c.page)
TokensRow(k) == RowOf(k, {"delete"})

Tokens ==
  /\ view = "berry/tokens"
  /\ \/ \E s \in Slots : TokensLoaded(s) \/ TokensManaged(s) \/ TokensFound(s)
     \/ \E p \in 0..(Pages - 1) : TokensPagination(p)
     \/ \E k \in 1..PAGE : TokensRow(k)
     \/ \E blank \in BOOLEAN : TokensSearch(blank)
     \/ TokensRefresh

-----------------------------------------------------------------------------
(* User/index.js and User/component/TableRow.js                            *)

\* The load that follows an operation ends with the switch of the row.
UsersLoaded(s) == LoadAnswered(s, "searching", Placed(calls[s]), ui.count)
UsersPagination(p) == TurnOrLoad(p)
UsersSearch(blank) == Search(blank)
UsersFound(s) == FoundAnswered(s, 0, ui.count)
UsersRefresh == Begin(Loading(ui.page), Searching)
UsersManaged(s) == Managed(s, LAMBDA c : TRUE, LAMBDA c : c.page)
UsersRow(k) == RowOf(k, {"role", "delete"})

Users ==
  /\ view = "berry/users"
  /\ \/ \E s \in Slots : UsersLoaded(s) \/ UsersManaged(s) \/ UsersFound(s)
     \/ \E p \in 0..(Pages - 1) : UsersPagination(p)
     \/ \E k \in 1..PAGE : UsersRow(k)
     \/ \E blank \in BOOLEAN : UsersSearch(blank)
     \/ UsersRefresh

-----------------------------------------------------------------------------
(* Redemption/index.js and Redemption/component/TableRow.js                *)

RedemptionsLoaded(s) == LoadAnswered(s, "searching", Placed(calls[s]), ui.count)
RedemptionsPagination(p) == TurnOrLoad(p)
RedemptionsSearch(blank) == Search(blank)
RedemptionsFound(s) == FoundAnswered(s, 0, ui.count)
RedemptionsRefresh == Begin([Loading(0) EXCEPT !.then = 0], Searching)
\* The first page is loaded, and the page that is shown stays.
RedemptionsManaged(s) == Managed(s, Deleted, LAMBDA c : 0)
RedemptionsRow(k) == RowOf(k, {"delete"})

Redemptions ==
  /\ view = "berry/redemptions"
  /\ \/ \E s \in Slots : \/ RedemptionsLoaded(s) \/ RedemptionsManaged(s)
                         \/ RedemptionsFound(s)
     \/ \E p \in 0..(Pages - 1) : RedemptionsPagination(p)
     \/ \E k \in 1..PAGE : RedemptionsRow(k)
     \/ \E blank \in BOOLEAN : RedemptionsSearch(blank)
     \/ RedemptionsRefresh

-----------------------------------------------------------------------------
(* Log/index.js and Log/component/TableToolBar.js                          *)

LogsLoaded(s) == LoadAnswered(s, "searching", Placed(calls[s]), ui.count)
LogsPagination(p) == TurnOrLoad(p)
\* The filter is a draft: it counts with the next load, of whatever page.
LogsFilter(v) ==
  /\ v # ui.order /\ hist.asked < MaxAsked
  /\ Become(list, obj, [ui EXCEPT !.order = v], calls, switch, [hist EXCEPT !.asked = @ + 1])
  /\ UNCHANGED db
LogsSearch == Begin([Loading(0) EXCEPT !.then = 0], Searching)
\* The effect runs twice: it clears the filter and loads with the old one, and
\* when its flag has fallen it loads with the cleared one.
LogsRefresh ==
  /\ hist.asked < MaxAsked /\ Quiet
  /\ Become(list, obj, [Searching EXCEPT !.order = "all", !.page = 0],
            [s \in Slots |-> CASE s = Least(Slots) -> Loading(0)
                               [] s = Least(Slots \ {Least(Slots)}) -> [Loading(0) EXCEPT !.base = "all"]
                               [] OTHER -> None],
            switch, [hist EXCEPT !.asked = @ + 1, !.disturbed = TRUE])
  /\ UNCHANGED db

Logs ==
  /\ view = "berry/logs"
  /\ \/ \E s \in Slots : LogsLoaded(s)
     \/ \E p \in 0..(Pages - 1) : LogsPagination(p)
     \/ \E v \in {"all", "some"} : LogsFilter(v)
     \/ LogsSearch \/ LogsRefresh

-----------------------------------------------------------------------------
BerryInit == view \in BerryViews /\ Mounting(0, FALSE, TRUE, PAGE)
BerryNext == Channels \/ Tokens \/ Users \/ Redemptions \/ Logs
=============================================================================
