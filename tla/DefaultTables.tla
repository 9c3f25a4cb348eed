---------------------------- MODULE DefaultTables ----------------------------
(***************************************************************************)
(* The tables of web/default/src/components: channels, tokens, users,      *)
(* redemption codes and logs.  Pages are numbered from 1.  A deleted row   *)
(* stays in the list with a mark and is not rendered; a row is addressed   *)
(* by its position on the page.                                            *)
(***************************************************************************)
EXTENDS ListView

\* A mutation: the position on the page taken for the index in the list.
BugNoPage(c) == c.idx
\* The index of the row in the list: page and position of the closure.
RealIdx(c) == (c.page - 1) * PAGE + c.idx

\* The list is copied, and the row object at the index changed in place.
AtRealIdx(s, act(_, _)) ==
  LET c == calls[s]  r == c.list.rows[RealIdx(c)]
  IN  IF c.ok THEN Settle(s, Copied(c), [obj EXCEPT ![r] = act(@, c)], ui, None, FALSE)
              ELSE Settle(s, list, obj, ui, None, FALSE)

\* A mutation: the status of the answer is not taken over.
BugKeepsStatus(o, c) == IF c.act = "delete" THEN [o EXCEPT !.gone = TRUE] ELSE o
\* Marks the deleted row, or takes the status over from the answer.
Managed(o, c) == IF c.act = "delete" THEN [o EXCEPT !.gone = TRUE]
                                     ELSE [o EXCEPT !.status = c.data[1].status]
Measured(o, c) == [o EXCEPT !.measured = TRUE]

\* A mutation: no page beyond the loaded ones.
BugNoMore == CeilDiv(Len(list.rows), PAGE)
\* The page after the last full one is offered, and loaded when it is turned to.
Pages == CeilDiv(Len(list.rows), PAGE) + (IF Len(list.rows) % PAGE = 0 THEN 1 ELSE 0)
TurnOrLoad(p) ==
  IF p = CeilDiv(Len(list.rows), PAGE) + 1
  THEN Begin([Loading(p - 1) EXCEPT !.then = p], ui)
  ELSE p # ui.page /\ Turn(p)

\* A search with a blank keyword loads the first page, any other asks the server.
Search(blank, clear) ==
  IF blank THEN Begin([Loading(0) EXCEPT !.then = 1, !.clear = clear], ui)
           ELSE Begin(Finding, [ui EXCEPT !.searching = TRUE])

Sort == /\ list.rows # <<>> /\ hist.asked < MaxAsked
        /\ Become(Sorted, obj, [ui EXCEPT !.loading = FALSE], calls, switch,
                  [hist EXCEPT !.asked = @ + 1])
        /\ UNCHANGED db

\* Another order: the first page is shown, and the effect on the order loads it.
OrderBy(v) ==
  v # ui.order /\ Begin([Loading(0) EXCEPT !.base = v],
                        [ui EXCEPT !.order = v, !.page = 1])

-----------------------------------------------------------------------------
(* ChannelsTable.js                                                        *)

ChannelsLoaded(s) ==
  LET c == calls[s]
  IN  LoadAnswered(s, "loading", IF c.from = 0 THEN Replaced(c) ELSE Spliced(c), ui.count)
ChannelsPagination(p) == p \in 1..Pages /\ TurnOrLoad(p)
ChannelsRefresh == Begin(Loading(ui.page - 1), [ui EXCEPT !.loading = TRUE])
ChannelsManaged(s) ==
  /\ Served(s, "manage") /\ calls[s].act \in {"delete", "enable", "disable", "priority"}
  /\ AtRealIdx(s, Managed)
\* A test writes its figures also when it failed, and reads them from nothing then.
ChannelsTested(s) ==
  LET c == calls[s]
  IN  /\ Served(s, "manage") /\ c.act = "test"
      /\ Settle(s, Copied(c), [obj EXCEPT ![c.list.rows[RealIdx(c)]].measured = TRUE],
                ui, None, FALSE)
ChannelsBalanced(s) ==
  Served(s, "manage") /\ calls[s].act = "balance" /\ AtRealIdx(s, Measured)
ChannelsDeleteDisabled == Begin(Call("manage", 0, "purge", 0, "all"), ui)
\* ... and refreshes the page of the closure.
ChannelsPurged(s) ==
  LET c == calls[s]
  IN  /\ Served(s, "manage") /\ c.act = "purge"
      /\ IF c.ok
         THEN Settle(s, list, obj, [ui EXCEPT !.loading = TRUE],
                     Reloading(c, c.page - 1), TRUE)
         ELSE Settle(s, list, obj, ui, None, FALSE)
ChannelsSearch(blank) == Search(blank, FALSE)
ChannelsFound(s) == FoundAnswered(s, 1, ui.count)
ChannelsSort == Sort
ChannelsRow(k) ==
  Row(k, LAMBDA status : {"test", "balance", "priority", "delete", Toggle(status)})

Channels ==
  /\ view = "default/channels"
  /\ \/ \E s \in Slots : \/ ChannelsLoaded(s) \/ ChannelsManaged(s) \/ ChannelsTested(s)
                         \/ ChannelsBalanced(s) \/ ChannelsPurged(s) \/ ChannelsFound(s)
     \/ \E p \in 1..Pages : ChannelsPagination(p)
     \/ \E k \in 1..PAGE : ChannelsRow(k)
     \/ \E blank \in BOOLEAN : ChannelsSearch(blank)
     \/ ChannelsRefresh \/ ChannelsDeleteDisabled \/ ChannelsSort

-----------------------------------------------------------------------------
(* TokensTable.js                                                          *)

TokensLoaded(s) ==
  LET c == calls[s]
  IN  LoadAnswered(s, "loading", IF c.from = 0 THEN Replaced(c) ELSE Spliced(c), ui.count)
TokensPagination(p) == p \in 1..Pages /\ TurnOrLoad(p)
TokensRefresh == Begin(Loading(ui.page - 1), [ui EXCEPT !.loading = TRUE])
TokensManaged(s) == Served(s, "manage") /\ AtRealIdx(s, Managed)
\* A blank search also falls back to the default order, which loads again.
TokensSearch(blank) == Search(blank, TRUE)
TokensFound(s) == FoundAnswered(s, 1, ui.count)
TokensSort == Sort
TokensOrderBy(v) == OrderBy(v)
TokensRow(k) == Row(k, LAMBDA status : {"delete", Toggle(status)})

Tokens ==
  /\ view = "default/tokens"
  /\ \/ \E s \in Slots : TokensLoaded(s) \/ TokensManaged(s) \/ TokensFound(s)
     \/ \E p \in 1..Pages : TokensPagination(p)
     \/ \E k \in 1..PAGE : TokensRow(k)
     \/ \E blank \in BOOLEAN : TokensSearch(blank)
     \/ \E v \in {"all", "some"} : TokensOrderBy(v)
     \/ TokensRefresh \/ TokensSort

-----------------------------------------------------------------------------
(* UsersTable.js                                                           *)

\* A later page is pushed onto the array of the closure, in place.
UsersLoaded(s) ==
  LET c == calls[s]
  IN  LoadAnswered(s, "loading", IF c.from = 0 THEN Replaced(c) ELSE Pushed(c), ui.count)
UsersPagination(p) == p \in 1..Pages /\ TurnOrLoad(p)
UsersManaged(s) == Served(s, "manage") /\ AtRealIdx(s, Managed)
UsersSearch(blank) == Search(blank, TRUE)
UsersFound(s) == FoundAnswered(s, 1, ui.count)
UsersSort == Sort
UsersOrderBy(v) == OrderBy(v)
\* The role, which promote and demote change, is not told apart from the rest of the row.
UsersRow(k) == Row(k, LAMBDA status : {"promote", "delete", Toggle(status)})

Users ==
  /\ view = "default/users"
  /\ \/ \E s \in Slots : UsersLoaded(s) \/ UsersManaged(s) \/ UsersFound(s)
     \/ \E p \in 1..Pages : UsersPagination(p)
     \/ \E k \in 1..PAGE : UsersRow(k)
     \/ \E blank \in BOOLEAN : UsersSearch(blank)
     \/ \E v \in {"all", "some"} : UsersOrderBy(v)
     \/ UsersSort

-----------------------------------------------------------------------------
(* RedemptionsTable.js                                                     *)

RedemptionsLoaded(s) ==
  LET c == calls[s]
  IN  LoadAnswered(s, "loading", IF c.from = 0 THEN Replaced(c) ELSE Pushed(c), ui.count)
RedemptionsPagination(p) == p \in 1..Pages /\ TurnOrLoad(p)
\* Always the first page, to which it turns when it is there.
RedemptionsRefresh ==
  Begin([Loading(0) EXCEPT !.then = 1], [ui EXCEPT !.loading = TRUE])
RedemptionsManaged(s) == Served(s, "manage") /\ AtRealIdx(s, Managed)
RedemptionsSearch(blank) == Search(blank, FALSE)
RedemptionsFound(s) == FoundAnswered(s, 1, ui.count)
RedemptionsSort == Sort
RedemptionsRow(k) == Row(k, LAMBDA status : {"delete", Toggle(status)})

Redemptions ==
  /\ view = "default/redemptions"
  /\ \/ \E s \in Slots : \/ RedemptionsLoaded(s) \/ RedemptionsManaged(s)
                         \/ RedemptionsFound(s)
     \/ \E p \in 1..Pages : RedemptionsPagination(p)
     \/ \E k \in 1..PAGE : RedemptionsRow(k)
     \/ \E blank \in BOOLEAN : RedemptionsSearch(blank)
     \/ RedemptionsRefresh \/ RedemptionsSort

-----------------------------------------------------------------------------
(* LogsTable.js: the filter is part of what is asked for.                  *)

LogsLoaded(s) ==
  LET c == calls[s]
  IN  LoadAnswered(s, "loading", IF c.from = 0 THEN Replaced(c) ELSE Spliced(c), ui.count)
LogsPagination(p) == p \in 1..Pages /\ TurnOrLoad(p)
LogsRefresh == Begin(Loading(0), [ui EXCEPT !.loading = TRUE, !.page = 1])
\* Another type: its effect refreshes.
LogsType(v) ==
  v # ui.order /\ Begin([Loading(0) EXCEPT !.base = v],
                        [ui EXCEPT !.order = v, !.loading = TRUE, !.page = 1])
LogsSort == Sort

Logs ==
  /\ view = "default/logs"
  /\ \/ \E s \in Slots : LogsLoaded(s)
     \/ \E p \in 1..Pages : LogsPagination(p)
     \/ \E v \in {"all", "some"} : LogsType(v)
     \/ LogsRefresh \/ LogsSort

-----------------------------------------------------------------------------
DefaultInit == view \in DefaultViews /\ Mounting(1, TRUE, FALSE, PAGE)
DefaultNext == Channels \/ Tokens \/ Users \/ Redemptions \/ Logs
=============================================================================
