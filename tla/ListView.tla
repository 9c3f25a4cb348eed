------------------------------ MODULE ListView ------------------------------
(***************************************************************************)
(* What the administration tables of the inherited web interfaces have in  *)
(* common.  A table is a React component: it keeps a list of rows, asks    *)
(* the server page by page, and changes the list when answers come.  A     *)
(* handler is a closure: after its `await` it still works on the list and  *)
(* the page of the render in which it was started, while the state may     *)
(* have moved on.  Rows are objects shared by all copies of the list.      *)
(*                                                                         *)
(* The modules DefaultTables, AirTables and BerryTables hold the handlers  *)
(* of the components; this module holds the machinery they are written in. *)
(***************************************************************************)
EXTENDS Integers, Sequences, FiniteSets

CONSTANTS
  Ids,          \* rows the server may have; a larger id is newer
  Present,      \* those it has at the start
  Matching,     \* those a search, and a filtered log, lists
  PAGE,         \* ITEMS_PER_PAGE, of the interface and of the server
  Slots,        \* calls that can be in flight together (a bound)
  MaxAsked,     \* calls and sorts after mounting (a bound)
  MaxTroubles   \* calls refused or lost, and changes by others (a bound)

ASSUME TableAssumption ==
  /\ Ids \subseteq Nat \ {0} /\ IsFiniteSet(Ids) /\ Present \subseteq Ids /\ Matching \subseteq Ids
  /\ PAGE \in Nat \ {0}
  /\ Slots \subseteq Nat /\ Slots # {} /\ IsFiniteSet(Slots)
  /\ MaxAsked \in Nat /\ MaxTroubles \in Nat

VARIABLES
  view,     \* which component this is
  db,       \* row -> what the server has: 1 enabled, 2 disabled, 0 no such row
  list,     \* the list of the component's state
  obj,      \* row objects: those the list or a closure still holds
  ui,       \* the rest of its state
  switch,   \* berry: the status a mounted row component shows, 0 if unmounted
  calls,    \* calls in flight, with what their closures hold
  hist      \* what happened, for the properties

vars == <<view, db, list, obj, ui, switch, calls, hist>>

DefaultViews == {"default/channels", "default/tokens", "default/users",
                 "default/redemptions", "default/logs"}
AirViews     == {"air/channels", "air/tokens", "air/users", "air/redemptions",
                 "air/logs"}
BerryViews   == {"berry/channels", "berry/tokens", "berry/users",
                 "berry/redemptions", "berry/logs"}
LogViews     == {"default/logs", "air/logs", "berry/logs"}

None == [op |-> "none"]
InFlight == {s \in Slots : calls[s] # None}
Quiet == InFlight = {}
Least(S) == CHOOSE x \in S : \A y \in S : x <= y
CeilDiv(a, b) == (a + b - 1) \div b

-----------------------------------------------------------------------------
(* The server.                                                             *)

Rows == {i \in Ids : db[i] # 0}
Descending(S) ==
  CHOOSE q \in [1..Cardinality(S) -> S] : \A i, j \in DOMAIN q : i < j => q[i] > q[j]
Ascending(S) ==
  CHOOSE q \in [1..Cardinality(S) -> S] : \A i, j \in DOMAIN q : i < j => q[i] < q[j]

\* The newest first; in another order; for logs, those of one type or filter.
Listing(base) ==
  CASE base = "all" -> Descending(Rows)
    [] base = "found" -> Descending(Rows \cap Matching)
    [] OTHER -> IF view \in LogViews THEN Descending(Rows \cap Matching)
                                     ELSE Ascending(Rows)

\* The server cuts its listing into pages of ITEMS_PER_PAGE, whatever page
\* size the client asks for.
PageOf(q, from) ==
  SubSeq(q, from * PAGE + 1,
         IF (from + 1) * PAGE < Len(q) THEN (from + 1) * PAGE ELSE Len(q))

Answer(q) == [k \in DOMAIN q |-> [id |-> q[k], status |-> db[q[k]]]]

-----------------------------------------------------------------------------
(* Lists, row objects and closures.                                        *)

\* The least unused number for an object of row i, and for a list.
NewRef(i) == <<i, Least({n \in 0..Cardinality(DOMAIN obj) : <<i, n>> \notin DOMAIN obj})>>
Gens == {list.gen} \cup {calls[s].list.gen : s \in InFlight}
NewGen == Least((0..Cardinality(Gens)) \ Gens)

Refs(l, cs) ==
  {l.rows[k] : k \in DOMAIN l.rows}
    \cup UNION {{cs[s].list.rows[k] : k \in DOMAIN cs[s].list.rows} :
                  s \in {t \in Slots : cs[t] # None}}

\* A mutation: the rows are inserted and none is replaced.
BugInserts(q, at, new) ==
  LET a == IF at < Len(q) THEN at ELSE Len(q)
  IN  SubSeq(q, 1, a) \o new \o SubSeq(q, a + 1, Len(q))
\* Array.prototype.splice: at most up to the end of the array.
SpliceAt(q, at, new) ==
  LET a == IF at < Len(q) THEN at ELSE Len(q)
  IN  SubSeq(q, 1, a) \o new \o SubSeq(q, a + Len(new) + 1, Len(q))

Fresh(c) == [k \in DOMAIN c.data |-> NewRef(c.data[k].id)]
FreshObj(c) ==
  [r \in {NewRef(c.data[k].id) : k \in DOMAIN c.data} |->
     [status |-> (CHOOSE d \in {c.data[k] : k \in DOMAIN c.data} : d.id = r[1]).status,
      gone |-> FALSE, measured |-> FALSE]]

\* What an answer makes of the list its handler holds.  "mixed" records that
\* rows of different listings, or of a listing that has shifted, came together,
\* or pages that do not follow each other.
Replaced(c) == [rows |-> Fresh(c), base |-> c.base, mixed |-> FALSE, gen |-> NewGen]
Shifted(c) == c.list.mixed \/ c.list.base # c.base \/ hist.moved
\* A page is cut by the page size of the server and placed by that of the table:
\* it should take the place of a loaded one or follow the last one.
OutOfPlace(c) == /\ c.data # <<>>
                 /\ \/ Len(c.list.rows) < c.from * PAGE
                    \/ Len(c.list.rows) > c.from * PAGE /\ c.size # PAGE
Spliced(c) ==
  [rows |-> SpliceAt(c.list.rows, c.from * c.size, Fresh(c)), base |-> c.list.base,
   mixed |-> Shifted(c) \/ OutOfPlace(c), gen |-> NewGen]
Pushed(c) ==
  [c.list EXCEPT !.rows = @ \o Fresh(c),
     !.mixed = Shifted(c) \/ (c.data # <<>> /\ Len(c.list.rows) # c.from * PAGE)]
Copied(c) == [c.list EXCEPT !.gen = NewGen]
Without(c, k) ==
  [c.list EXCEPT !.gen = NewGen, !.rows = SubSeq(@, 1, k - 1) \o SubSeq(@, k + 1, Len(@))]

\* Array.prototype.sort, which is stable, and a turn round if the list was sorted.
Sorted ==
  LET D == DOMAIN list.rows
      Id(k) == list.rows[k][1]
      p == CHOOSE q \in [D -> D] :
             \A i, j \in D : i < j =>
               Id(q[i]) < Id(q[j]) \/ (Id(q[i]) = Id(q[j]) /\ q[i] < q[j])
  IN  [list EXCEPT !.base = "sorted", !.gen = NewGen,
         !.rows = IF Id(p[1]) = Id(1) THEN [k \in D |-> list.rows[p[Len(list.rows) + 1 - k]]]
                                      ELSE [k \in D |-> list.rows[p[k]]]]

\* The rows a page shows, and the ids a berry page mounts.
FirstOf(u) == IF view \in BerryViews THEN u.page * PAGE ELSE (u.page - 1) * u.size
Slice(l, u) ==
  SubSeq(l.rows, FirstOf(u) + 1,
         IF FirstOf(u) + u.size < Len(l.rows) THEN FirstOf(u) + u.size ELSE Len(l.rows))
IdsIn(q) == {q[k][1] : k \in DOMAIN q}

\* A row component of berry is keyed by the id: it keeps its own state while
\* the id stays on the page and starts from the row when it comes back.
Mounted(l, o, u, sw) ==
  [i \in Ids |->
     IF view \notin BerryViews \/ i \notin IdsIn(Slice(l, u)) THEN 0
     ELSE IF sw[i] # 0 THEN sw[i]
     ELSE LET q == Slice(l, u) IN o[q[Least({k \in DOMAIN q : q[k][1] = i})]].status]

\* A call, with what its closure holds.
Call(op, id, act, from, base) ==
  [op |-> op, id |-> id, act |-> act, from |-> from, base |-> base,
   then |-> -1, clear |-> FALSE, list |-> list, page |-> ui.page, size |-> ui.size,
   idx |-> 0, set |-> 0, alive |-> TRUE, phase |-> "asked", ok |-> FALSE, data |-> <<>>]
\* A first page replaces the list, so its closure need not be kept.
Unneeded == [rows |-> <<>>, base |-> "all", mixed |-> FALSE, gen |-> -1]
Loading(from) ==
  [Call("load", 0, "none", from, ui.order) EXCEPT !.list = IF from = 0 THEN Unneeded ELSE @,
                                              !.page = 0]
\* An operation that goes on with loading a page, in the same closure.
Reloading(c, from) ==
  [c EXCEPT !.op = "load", !.act = "none", !.from = from, !.phase = "asked", !.ok = FALSE,
            !.data = <<>>, !.list = IF from = 0 THEN Unneeded ELSE @]
Finding == [Call("search", 0, "none", 0, "found") EXCEPT !.list = Unneeded, !.page = 0]

-----------------------------------------------------------------------------
(* Two steps every handler is made of: it makes a call, and it goes on when *)
(* the answer is there.                                                     *)

\* Operations on different rows do not touch each other where a deletion only
\* marks the row; elsewhere it, or what follows it, sets the whole list.
Apart(c, d) ==
  /\ c.op = "manage" /\ d.op = "manage" /\ c.id # d.id
  /\ view # "berry/users"
  /\ view \in DefaultViews \/ "delete" \notin {c.act, d.act}

\* All that a step leaves behind; pushing changes every holder of the array.
Become(l, o, u, cs, sw, h) ==
  /\ list' = l
  /\ ui' = u
  /\ switch' = Mounted(l, o, u, sw)
  /\ calls' = [s \in Slots |->
       IF cs[s] = None THEN None
       ELSE [cs[s] EXCEPT !.alive = @ /\ (view \in BerryViews => cs[s].id \in IdsIn(Slice(l, u))),
                          !.list = IF @.gen = l.gen THEN l ELSE @]]
  /\ obj' = [r \in Refs(l, cs) |-> o[r]]
  /\ hist' = h
  /\ UNCHANGED view

Begin(c, u) ==
  /\ hist.asked < MaxAsked
  /\ InFlight # Slots
  /\ Become(list, obj, u, [calls EXCEPT ![Least(Slots \ InFlight)] = c], switch,
            [hist EXCEPT !.asked = @ + 1,
                         !.disturbed = @ \/ \E s \in InFlight : ~Apart(c, calls[s])])
  /\ UNCHANGED db

\* Buttons of the k-th row of the page, which work on what was rendered.
Row(k, acts(_)) ==
  LET q == Slice(list, ui)
  IN  /\ k \in DOMAIN q /\ ~obj[q[k]].gone
      /\ \E a \in acts(obj[q[k]].status) :
           Begin([Call("manage", q[k][1], a, 0, "all") EXCEPT !.idx = k], ui)
Toggle(status) == IF status = 1 THEN "disable" ELSE "enable"

\* The answer to call s has come: the handler goes on, and ends or calls again.
Served(s, op) == calls[s] # None /\ calls[s].op = op /\ calls[s].phase = "served"
SettleSwitched(s, l, o, u, next, disturbs, sw) ==
  /\ Become(l, o, u, [calls EXCEPT ![s] = next], sw,
            [hist EXCEPT !.disturbed = @ \/ disturbs])
  /\ UNCHANGED db
Settle(s, l, o, u, next, disturbs) ==
  SettleSwitched(s, l, o, u, next, disturbs, switch)

\* The row component that asked, if it is still mounted, shows the status it asked for.
SwitchedBy(c) == IF c.set # 0 /\ c.alive THEN [switch EXCEPT ![c.id] = c.set] ELSE switch

\* An answer to a load: place the page unless it was refused, clear the flag,
\* turn to the page the continuation names and, after a blank search, ask
\* again if the order falls back to the default.
LoadAnswered(s, flag, placed, count) ==
  LET c == calls[s]
      l == IF c.ok THEN placed ELSE list
      again == c.clear /\ ui.order # "all"
      u == [ui EXCEPT ![flag] = again /\ view = "air/tokens",
                      !.count = IF c.ok THEN count ELSE @,
                      !.page = IF c.then >= 0 THEN c.then ELSE @,
                      !.order = IF c.clear THEN "all" ELSE @]
  IN  /\ Served(s, "load")
      /\ SettleSwitched(s, l, [r \in DOMAIN obj \cup DOMAIN FreshObj(c) |->
                                  IF r \in DOMAIN obj THEN obj[r] ELSE FreshObj(c)[r]], u,
                        IF again THEN [Loading(0) EXCEPT !.base = "all", !.page = u.page] ELSE None,
                        c.ok /\ c.from > 0 /\ hist.moved, SwitchedBy(c))

\* An answer to a search replaces the list and turns to the first page.
FoundAnswered(s, first, count) ==
  LET c == calls[s]
  IN  /\ Served(s, "search")
      /\ Settle(s, IF c.ok THEN Replaced(c) ELSE list,
                [r \in DOMAIN obj \cup DOMAIN FreshObj(c) |->
                   IF r \in DOMAIN obj THEN obj[r] ELSE FreshObj(c)[r]],
                [ui EXCEPT !.searching = FALSE,
                           !.count = IF c.ok THEN count ELSE @,
                           !.page = IF c.ok THEN first ELSE @], None, FALSE)

Turn(p) ==
  /\ Become(list, obj, [ui EXCEPT !.page = p], calls, switch, hist)
  /\ UNCHANGED db

-----------------------------------------------------------------------------
(* The server answers; calls are lost; others administer the same rows.    *)

\* What an operation does to the rows.
Applied(c) ==
  CASE c.act = "delete" -> [db EXCEPT ![c.id] = 0]
    [] c.act = "enable" -> [db EXCEPT ![c.id] = IF @ = 0 THEN 0 ELSE 1]
    [] c.act = "disable" -> [db EXCEPT ![c.id] = IF @ = 0 THEN 0 ELSE 2]
    [] c.act = "purge" -> [i \in Ids |-> IF db[i] = 2 THEN 0 ELSE db[i]]
    [] OTHER -> db

\* A changed row comes back with the answer.
Outcome(c) ==
  CASE c.op = "load" -> Answer(PageOf(Listing(c.base), c.from))
    [] c.op = "search" -> Answer(Listing("found"))
    [] c.op = "manage" /\ c.id = 0 -> <<>>
    [] OTHER -> <<[id |-> c.id, status |-> Applied(c)[c.id]]>>

Serve(s) ==
  /\ calls[s] # None /\ calls[s].phase = "asked"
  /\ LET c == calls[s] IN
     \E ok \in BOOLEAN :
       /\ ~ok => hist.troubles < MaxTroubles
       /\ c.id # 0 /\ ok => db[c.id] # 0
       /\ db' = IF ok /\ c.op = "manage" THEN Applied(c) ELSE db
       /\ calls' = [calls EXCEPT ![s].phase = "served", ![s].ok = ok,
                                 ![s].data = IF ok THEN Outcome(c) ELSE <<>>]
       /\ hist' = [hist EXCEPT
            !.troubles = IF ok \/ (c.id # 0 /\ db[c.id] = 0) THEN @ ELSE @ + 1,
            !.moved = @ \/ \E i \in Ids : db[i] # 0 /\ db'[i] = 0]
  /\ UNCHANGED <<view, list, obj, ui, switch>>

\* The interceptor shows the error and resolves with nothing; reading the
\* answer throws, and the handler ends where it is.
Lost(s) ==
  /\ calls[s] # None
  /\ hist.troubles < MaxTroubles
  /\ LET c == calls[s] IN
     \E done \in BOOLEAN :
       /\ done => c.phase = "asked" /\ c.op = "manage" /\ (c.id # 0 => db[c.id] # 0)
       /\ db' = IF done THEN Applied(c) ELSE db
       /\ Become(list, obj, ui, [calls EXCEPT ![s] = None], switch,
                 [hist EXCEPT !.troubles = @ + 1, !.threw = TRUE,
                              !.moved = @ \/ \E i \in Ids : db[i] # 0 /\ db'[i] = 0,
                              !.disturbed = @ \/ c.op = "manage"])

\* Another administrator adds or deletes a row: the pages shift.
Foreign ==
  /\ hist.troubles < MaxTroubles
  /\ \E i \in Ids :
       /\ db[i] # 0 \/ \A j \in Rows : j < i
       /\ db' = [db EXCEPT ![i] = IF @ = 0 THEN 1 ELSE 0]
       /\ hist' = [hist EXCEPT !.troubles = @ + 1, !.disturbed = TRUE, !.moved = TRUE]
  /\ UNCHANGED <<view, list, obj, ui, switch, calls>>

\* A component mounts: an empty list, and the calls of its effect in flight.
Mounting(first, loading, searching, size) ==
  /\ db = [i \in Ids |-> IF i \notin Present THEN 0 ELSE IF i % 2 = 0 THEN 2 ELSE 1]
  /\ list = [rows |-> <<>>, base |-> "all", mixed |-> FALSE, gen |-> 0]
  /\ obj = [r \in {} |-> 0]
  /\ ui = [page |-> first, size |-> size, order |-> "all", count |-> PAGE,
           loading |-> loading, searching |-> searching]
  /\ switch = [i \in Ids |-> 0]
  /\ hist = [asked |-> 0, troubles |-> 0, moved |-> FALSE,
             disturbed |-> FALSE, threw |-> FALSE]
  /\ calls = [s \in Slots |->
       IF s = Least(Slots) \/ view = "berry/logs"
       THEN [Loading(0) EXCEPT !.size = PAGE, !.page = first] ELSE None]
=============================================================================
