------------------------------ MODULE AirTables ------------------------------
(***************************************************************************)
(* The tables of web/air/src/components: channels, tokens, users,          *)
(* redemption codes and logs.  Pages are numbered from 1 and a page size   *)
(* can be chosen; a row is the object its columns were rendered with, and  *)
(* a deleted row is taken off the list.                                    *)
(***************************************************************************)
EXTENDS ListView

\* The row object the columns of the k-th row hold.
Record(c) == c.list.rows[(c.page - 1) * c.size + c.idx]

\* The counts that are given to the pagination: as if there were another page,
\* or another row, while the last page is full.
Padded(l, size) == IF Len(l.rows) >= size THEN Len(l.rows) + size ELSE Len(l.rows)
OneMore(l, page) == IF Len(l.rows) >= page * PAGE THEN Len(l.rows) + 1 ELSE Len(l.rows)
Pages == CeilDiv(ui.count, ui.size)

\* The page is turned to at once, and loaded if it follows the last one.
TurnAndLoad(p, base, flag) ==
  /\ p \in 1..Pages /\ p # ui.page
  /\ IF p = CeilDiv(Len(list.rows), ui.size) + 1
     THEN Begin([Loading(p - 1) EXCEPT !.base = base, !.page = ui.page],
                [ui EXCEPT !.page = p, !.loading = flag \/ @])
     ELSE Turn(p)

\* The deleted row is looked up in the list of the closure, and taken off it
\* even if the server refused to delete: it is of no listing then.
Removed(c) ==
  LET at == {k \in DOMAIN c.list.rows : c.list.rows[k][1] = c.id}
  IN  IF at = {} THEN Copied(c) ELSE [Without(c, Least(at)) EXCEPT !.base = IF c.ok THEN @ ELSE "cut"]
ManagedList(c) ==
  IF c.act = "delete" THEN Removed(c) ELSE IF c.ok THEN Copied(c) ELSE list
ManagedObj(c) ==
  IF c.ok /\ c.act # "delete" THEN [obj EXCEPT ![Record(c)].status = c.data[1].status] ELSE obj

\* Tests and balances change the record and nothing else.
MeasuredIn(s) ==
  LET c == calls[s]
  IN  /\ Served(s, "manage") /\ c.act \in {"test", "balance"}
      /\ Settle(s, list, IF c.ok THEN [obj EXCEPT ![Record(c)].measured = TRUE] ELSE obj,
                ui, None, FALSE)

-----------------------------------------------------------------------------
(* ChannelsTable.js                                                        *)

ChannelsPlaced(c) == IF c.from = 0 THEN Replaced(c) ELSE Spliced(c)
ChannelsLoaded(s) ==
  LoadAnswered(s, "loading", ChannelsPlaced(calls[s]), Padded(ChannelsPlaced(calls[s]), calls[s].size))
ChannelsPageChange(p) == TurnAndLoad(p, "all", TRUE)
\* The closure counts with the page size it was rendered with.
ChannelsPageSize(size) ==
  size # ui.size /\ Begin(Loading(0), [ui EXCEPT !.size = size, !.page = 1, !.loading = TRUE])
ChannelsRefresh == Begin(Loading(ui.page - 1), [ui EXCEPT !.loading = TRUE])
ChannelsManaged(s) ==
  LET c == calls[s]
  IN  /\ Served(s, "manage") /\ c.act \in {"delete", "enable", "disable", "priority"}
      /\ Settle(s, ManagedList(c), ManagedObj(c), ui, None, FALSE)
ChannelsMeasured(s) == MeasuredIn(s)
ChannelsDeleteDisabled == Begin(Call("manage", 0, "purge", 0, "all"), ui)
ChannelsPurged(s) ==
  LET c == calls[s]
  IN  /\ Served(s, "manage") /\ c.act = "purge"
      /\ IF c.ok THEN Settle(s, list, obj, [ui EXCEPT !.loading = TRUE],
                             Reloading(c, c.page - 1), TRUE)
                 ELSE Settle(s, list, obj, ui, None, FALSE)
ChannelsSearch(blank) ==
  IF blank THEN Begin([Loading(0) EXCEPT !.then = 1], [ui EXCEPT !.loading = TRUE])
           ELSE Begin(Finding, [ui EXCEPT !.searching = TRUE])
ChannelsFound(s) == FoundAnswered(s, 1, ui.count)
ChannelsRow(k) ==
  Row(k, LAMBDA status : {"test", "balance", "priority", "delete", Toggle(status)})

Channels ==
  /\ view = "air/channels"
  /\ \/ \E s \in Slots : \/ ChannelsLoaded(s) \/ ChannelsManaged(s) \/ ChannelsMeasured(s)
                         \/ ChannelsPurged(s) \/ ChannelsFound(s)
     \/ \E p \in 1..Pages : ChannelsPageChange(p)
     \/ \E size \in {PAGE, 2 * PAGE} : ChannelsPageSize(size)
     \/ \E k \in 1..ui.size : ChannelsRow(k)
     \/ \E blank \in BOOLEAN : ChannelsSearch(blank)
     \/ ChannelsRefresh \/ ChannelsDeleteDisabled

-----------------------------------------------------------------------------
(* TokensTable.js                                                          *)

TokensPlaced(c) == IF c.from = 0 THEN Replaced(c) ELSE Spliced(c)
TokensLoaded(s) ==
  LoadAnswered(s, "loading", TokensPlaced(calls[s]), Padded(TokensPlaced(calls[s]), calls[s].size))
TokensPageChange(p) == TurnAndLoad(p, ui.order, TRUE)
\* Another page size or order: the first page, which the effect loads.
TokensPageSize(size) ==
  size # ui.size /\ Begin([Loading(0) EXCEPT !.size = size],
                          [ui EXCEPT !.size = size, !.page = 1, !.loading = TRUE])
TokensOrderBy(v) ==
  v # ui.order /\ Begin([Loading(0) EXCEPT !.base = v],
                        [ui EXCEPT !.order = v, !.page = 1, !.loading = TRUE])
\* After an edit.
TokensRefresh == Begin(Loading(ui.page - 1), [ui EXCEPT !.loading = TRUE])
\* Every operation raises the flag.
TokensRow(k) ==
  LET q == Slice(list, ui)
  IN  /\ k \in DOMAIN q
      /\ \E a \in {"delete", Toggle(obj[q[k]].status)} :
           Begin([Call("manage", q[k][1], a, 0, "all") EXCEPT !.idx = k],
                 [ui EXCEPT !.loading = TRUE])
\* The list is counted again, and the flag the operation raised is cleared.
TokensManaged(s) ==
  LET c == calls[s]  l == ManagedList(c)
  IN  /\ Served(s, "manage")
      /\ Settle(s, l, ManagedObj(c),
                [ui EXCEPT !.loading = FALSE,
                           !.count = IF c.ok \/ c.act = "delete" THEN Padded(l, c.size) ELSE @],
                None, FALSE)
TokensSearch(blank) ==
  IF blank THEN Begin([Loading(0) EXCEPT !.then = 1, !.clear = TRUE], [ui EXCEPT !.loading = TRUE])
           ELSE Begin(Finding, [ui EXCEPT !.searching = TRUE])
TokensFound(s) ==
  FoundAnswered(s, 1, Padded(Replaced(calls[s]), calls[s].size))

Tokens ==
  /\ view = "air/tokens"
  /\ \/ \E s \in Slots : TokensLoaded(s) \/ TokensManaged(s) \/ TokensFound(s)
     \/ \E p \in 1..Pages : TokensPageChange(p)
     \/ \E size \in {PAGE, 2 * PAGE} : TokensPageSize(size)
     \/ \E k \in 1..ui.size : TokensRow(k)
     \/ \E blank \in BOOLEAN : TokensSearch(blank)
     \/ \E v \in {"all", "some"} : TokensOrderBy(v)
     \/ TokensRefresh

-----------------------------------------------------------------------------
(* UsersTable.js                                                           *)

UsersPlaced(c) == IF c.from = 0 THEN Replaced(c) ELSE Pushed(c)
UsersLoaded(s) ==
  LoadAnswered(s, "loading", UsersPlaced(calls[s]), OneMore(UsersPlaced(calls[s]), calls[s].page))
UsersPageChange(p) == TurnAndLoad(p, ui.order, FALSE)
UsersOrderBy(v) ==
  v # ui.order /\ Begin([Loading(0) EXCEPT !.base = v, !.page = 1],
                        [ui EXCEPT !.order = v, !.page = 1])
UsersManaged(s) ==
  Served(s, "manage") /\ Settle(s, ManagedList(calls[s]), ManagedObj(calls[s]), ui, None, FALSE)
\* A blank search loads the first page, counting with the page of the closure.
UsersSearch(blank) ==
  IF blank
  THEN Begin([Loading(0) EXCEPT !.then = 1, !.clear = TRUE, !.page = ui.page], ui)
  ELSE Begin(Finding, [ui EXCEPT !.searching = TRUE])
UsersFound(s) == FoundAnswered(s, 1, ui.count)
\* After a user was added or edited.
UsersRefresh(blank) ==
  IF blank THEN Begin([Loading(ui.page - 1) EXCEPT !.page = ui.page], ui)
           ELSE UsersSearch(FALSE)
UsersRow(k) == Row(k, LAMBDA status : {"promote", "delete", Toggle(status)})

Users ==
  /\ view = "air/users"
  /\ \/ \E s \in Slots : UsersLoaded(s) \/ UsersManaged(s) \/ UsersFound(s)
     \/ \E p \in 1..Pages : UsersPageChange(p)
     \/ \E k \in 1..PAGE : UsersRow(k)
     \/ \E blank \in BOOLEAN : UsersSearch(blank) \/ UsersRefresh(blank)
     \/ \E v \in {"all", "some"} : UsersOrderBy(v)

-----------------------------------------------------------------------------
(* RedemptionsTable.js                                                     *)

RedemptionsPlaced(c) == IF c.from = 0 THEN Replaced(c) ELSE Pushed(c)
RedemptionsLoaded(s) ==
  LoadAnswered(s, "loading", RedemptionsPlaced(calls[s]),
               OneMore(RedemptionsPlaced(calls[s]), calls[s].page))
RedemptionsPageChange(p) == TurnAndLoad(p, "all", FALSE)
\* After a code was added or edited.
RedemptionsRefresh == Begin([Loading(ui.page - 1) EXCEPT !.page = ui.page], ui)
RedemptionsManaged(s) ==
  Served(s, "manage") /\ Settle(s, ManagedList(calls[s]), ManagedObj(calls[s]), ui, None, FALSE)
RedemptionsSearch(blank) ==
  IF blank THEN Begin([Loading(0) EXCEPT !.then = 1, !.page = ui.page], ui)
           ELSE Begin(Finding, [ui EXCEPT !.searching = TRUE])
RedemptionsFound(s) == FoundAnswered(s, 1, ui.count)
RedemptionsRow(k) == Row(k, LAMBDA status : {"delete", Toggle(status)})

Redemptions ==
  /\ view = "air/redemptions"
  /\ \/ \E s \in Slots : \/ RedemptionsLoaded(s) \/ RedemptionsManaged(s)
                         \/ RedemptionsFound(s)
     \/ \E p \in 1..Pages : RedemptionsPageChange(p)
     \/ \E k \in 1..PAGE : RedemptionsRow(k)
     \/ \E blank \in BOOLEAN : RedemptionsSearch(blank)
     \/ RedemptionsRefresh

-----------------------------------------------------------------------------
(* LogsTable.js: the type that was chosen is passed on by two handlers only. *)

LogsPlaced(c) == IF c.from = 0 THEN Replaced(c) ELSE Spliced(c)
LogsLoaded(s) ==
  LoadAnswered(s, "loading", LogsPlaced(calls[s]), Len(LogsPlaced(calls[s]).rows) + PAGE)
\* The further page is one of all types.
LogsPageChange(p) == TurnAndLoad(p, "all", TRUE)
LogsPageSize(size) ==
  size # ui.size /\ Begin([Loading(0) EXCEPT !.base = "all"],
                          [ui EXCEPT !.size = size, !.page = 1, !.loading = TRUE])
\* The button passes its event on as the type, which the server reads as none.
LogsQuery == Begin([Loading(0) EXCEPT !.base = "all"], [ui EXCEPT !.page = 1, !.loading = TRUE])
LogsType(v) ==
  v # ui.order /\ Begin([Loading(0) EXCEPT !.base = v],
                        [ui EXCEPT !.order = v, !.page = 1, !.loading = TRUE])

Logs ==
  /\ view = "air/logs"
  /\ \/ \E s \in Slots : LogsLoaded(s)
     \/ \E p \in 1..Pages : LogsPageChange(p)
     \/ \E size \in {PAGE, 2 * PAGE} : LogsPageSize(size)
     \/ \E v \in {"all", "some"} : LogsType(v)
     \/ LogsQuery

-----------------------------------------------------------------------------
\* Channels and logs take the page size from the last visit.
AirInit ==
  /\ view \in AirViews
  /\ \E size \in {PAGE, 2 * PAGE} :
       /\ size # PAGE => view \in {"air/channels", "air/logs"}
       /\ Mounting(1, TRUE, FALSE, size)
AirNext == Channels \/ Tokens \/ Users \/ Redemptions \/ Logs
=============================================================================
