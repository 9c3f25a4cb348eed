------------------------------ MODULE Console ------------------------------
(***************************************************************************)
(* The web console (src/frontend): who it says is logged in, and the way   *)
(* its pages ask the server and show what it answers.  This module holds   *)
(* the client and its calls, AuthProvider, AppShell, Sidebar and the pages *)
(* that log in; ConsolePages the pages that list and change things.        *)
(*                                                                         *)
(* A visit through the address bar or a link of the sidebar loads a new    *)
(* document: handlers under way are gone, what they asked for is still     *)
(* served.  The router replaces the page only: AuthProvider and AppShell   *)
(* keep their state, and the handlers of the old page change nothing.      *)
(***************************************************************************)
EXTENDS Integers, FiniteSets

CONSTANTS
  Accounts,     \* the accounts, each named by its role
  MaxWaiting,   \* the user starts nothing with so many calls in flight (a bound)
  MaxAsked,     \* what the user starts (a bound)
  MaxTroubles   \* calls refused for no reason or lost, sessions that end (a bound)

ASSUME ConsoleAssumption ==
  Accounts \subseteq {1, 10, 100} /\ MaxWaiting \in Nat

VARIABLES
  sess,     \* the account of the session, 0 without one
  db,       \* changes to what is listed; accounts with two factors; root's password
  page,     \* the page shown
  auth,     \* the state of AuthProvider and of AppShell
  ui,       \* the state of the page
  calls,    \* calls in flight
  hist      \* what happened, for the properties

vars == <<sess, db, page, auth, ui, calls, hist>>

Quiet == calls = {}

\* "home" is what became of the component that asked: mounted, left for another
\* page, or gone with its document; "n" tells calls of the same kind apart.
Request(op, p, arg, then) ==
  [op |-> op, page |-> p, arg |-> arg, then |-> then, phase |-> "asked", ans |-> "none", who |-> 0,
   flag |-> FALSE, ver |-> 0, home |-> "mounted", n |-> 0]
Ask(op) == Request(op, page, "none", "none")
Put(cs, c) ==
  LET used == {d.n : d \in {d \in cs : d.op = c.op}}
      free == 0..Cardinality(used) \ used
  IN  cs \cup {[c EXCEPT !.n = CHOOSE k \in free : \A l \in free : k <= l]}
End(c) == calls \ {c}
\* With a document go its reads and its answers; the rest is still served.
Writes == {"login", "logout", "callback", "create", "change", "assign", "password", "enable",
           "disable"}
Gone(cs) == {[c EXCEPT !.home = "gone"] : c \in {c \in cs : c.op \in Writes /\ c.phase = "asked"}}
Left(cs, ops) ==
  {IF c.op \in ops /\ c.home = "mounted" THEN [c EXCEPT !.home = "left"] ELSE c : c \in cs}

\* What changes or asks who is logged in, and how; what outlives a page.
SessionOps == {"self", "login", "logout", "callback", "enable", "disable"}
ShellOps == {"self", "logout", "security"}
DataOps == {"list", "aside", "create", "change", "assign"}
PageOps == {"login", "callback", "status", "state", "list", "aside", "create", "change", "assign",
            "test", "password", "setup", "enable", "disable"}

-----------------------------------------------------------------------------
(* The pages                                                               *)

\* Who may see a page, and who may ask for what it lists: the guards of the
\* pages, and those of the endpoints they use.
ProvidersView == [min |-> 1, server |-> 10]
TokensView == [min |-> 1, server |-> 1]
UsageView == [min |-> 1, server |-> 1]
CostsView == [min |-> 10, server |-> 10]
OrganizationsView == [min |-> 10, server |-> 100]
BudgetsView == [min |-> 10, server |-> 10]
AgentsView == [min |-> 100, server |-> 100]
UsersView == [min |-> 10, server |-> 10]
LogsView == [min |-> 10, server |-> 10]
RedemptionView == [min |-> 10, server |-> 10]
Lists ==
  [providers |-> ProvidersView, tokens |-> TokensView, usage |-> UsageView, costs |-> CostsView,
   organizations |-> OrganizationsView, budgets |-> BudgetsView, agents |-> AgentsView,
   users |-> UsersView, logs |-> LogsView, redemption |-> RedemptionView]
ListPages == DOMAIN Lists
\* Users come with the organizations, agents with their pending actions.
TwoLists == {"users", "agents"}
Protected == ListPages \cup {"dashboard", "settings"}
Pages == Protected \cup {"login", "oidc", "elsewhere"}

MinRole(p) == IF p \in ListPages THEN Lists[p].min ELSE IF p \in Protected THEN 1 ELSE 0
\* What the sidebar and the dashboard offer, the sidebar also while it is loading.
SidebarMin(p) ==
  IF p = "organizations" THEN 100 ELSE IF MinRole(p) = 1 THEN 0 ELSE MinRole(p)
Quick == ListPages \ {"agents", "redemption"}

\* The state of a page that is mounted.
Mount(p) ==
  [rows |-> 0, aside |-> 0, range |-> "30", of |-> "30", loading |-> p \in ListPages,
   form |-> FALSE, filled |-> FALSE, busy |-> FALSE, saving |-> FALSE, key |-> FALSE,
   confirm |-> FALSE, step |-> "none", sso |-> FALSE]

Usable == ~auth.loading /\ auth.user # 0 /\ auth.user >= MinRole(page)

-----------------------------------------------------------------------------
(* Calls                                                                   *)

ServerRole(c) ==
  CASE c.op = "aside" -> 100
    [] c.op = "assign" -> 100
    [] c.op \in {"list", "create", "change", "test"} -> Lists[c.page].server
    [] c.op = "security" -> 10
    [] OTHER -> 1
Public == {"login", "logout", "callback", "status", "state"}

\* What a protected call does when it is admitted.
Effect(c) ==
  CASE c.op \in {"create", "change", "assign"} -> [db EXCEPT !.rows = @ + 1]
    [] c.op = "enable" -> [db EXCEPT !.factor = @ \cup {sess}]
    [] c.op = "disable" -> [db EXCEPT !.factor = @ \ {sess}]
    [] c.op = "password" -> [db EXCEPT !.unsafe = @ /\ sess # 100]
    [] OTHER -> db
\* A key or a set of codes that is told only in this answer.
Secret(c) == c.op = "enable" \/ (c.op = "create" /\ c.page \in {"tokens", "agents"})

Admitted(c, ans) ==
  IF sess = 0 THEN ans = "401"
  ELSE IF sess < ServerRole(c) THEN ans = "refused"
  ELSE ans = "ok" \/ (ans = "refused" /\ hist.troubles < MaxTroubles)

\* A document that is gone receives no answer.
Served(c, ans, answer) ==
  calls' = IF c.home = "gone" THEN End(c)
           ELSE End(c) \cup {[answer EXCEPT !.phase = "served", !.ans = ans]}

ServeProtected(c) ==
  /\ c.phase = "asked" /\ c.op \notin Public
  /\ \E ans \in {"ok", "refused", "401"} :
       /\ Admitted(c, ans)
       /\ db' = IF ans = "ok" THEN Effect(c) ELSE db
       /\ Served(c, ans, [c EXCEPT !.who = sess, !.ver = db.rows,
                             !.flag = IF c.op = "security" THEN db.unsafe ELSE sess \in db.factor])
       /\ hist' = [hist EXCEPT
            !.troubles = IF ans = "refused" /\ sess >= ServerRole(c) THEN @ + 1 ELSE @,
            !.untold = IF ans = "ok" /\ Secret(c) /\ c.home # "gone" THEN @ + 1 ELSE @,
            !.blind = IF ans # "ok" /\ c.op \in {"list", "aside"} /\ c.home = "mounted"
                      THEN @ \cup {c.op} ELSE @]
  /\ UNCHANGED <<sess, page, auth, ui>>

\* An account with two factors is asked for a code; a one-time code of the
\* identity provider is good for one call, and with a session only binds.
ServePublic(c) ==
  /\ c.phase = "asked" /\ c.op \in Public
  /\ \E ans \in {"ok", "refused", "code"} :
       /\ ans = "code" => c.op = "login" /\ c.arg # "code" /\ db.factor # {}
       /\ c.op = "logout" => ans = "ok"
       /\ c.op = "callback" /\ ans = "ok" => ~hist.used
       /\ IF c.op = "login" /\ ans = "ok"
          THEN sess' \in {a \in Accounts : a \in db.factor => c.arg = "code"}
          ELSE IF c.op = "callback" /\ ans = "ok" /\ sess = 0 THEN sess' \in Accounts
          ELSE sess' = IF c.op = "logout" THEN 0 ELSE sess
       /\ hist' = [hist EXCEPT !.used = @ \/ (c.op = "callback" /\ ans = "ok")]
       /\ Served(c, ans, c)
  /\ UNCHANGED <<db, page, auth, ui>>

\* The call or its answer is lost: fetch rejects, and the handler ends there.
Lost(c) ==
  /\ hist.troubles < MaxTroubles
  /\ calls' = End(c)
  /\ hist' = [hist EXCEPT !.troubles = @ + 1, !.lost = TRUE]
  /\ UNCHANGED <<sess, db, page, auth, ui>>

\* The session expires, or its account is disabled.
SessionEnds ==
  /\ sess # 0 /\ hist.troubles < MaxTroubles
  /\ sess' = 0
  /\ hist' = [hist EXCEPT !.troubles = @ + 1, !.ended = TRUE]
  /\ UNCHANGED <<db, page, auth, ui, calls>>

-----------------------------------------------------------------------------
(* Navigation                                                              *)

Pending(cs, ops) == \E c \in cs : c.op \in ops
Changing(cs) == \E c \in cs : c.op \in {"create", "change", "assign"} /\ c.phase = "asked"
Telling(cs) == \E c \in cs : Secret(c) /\ c.home = "mounted"

\* A new document: AuthProvider asks who is logged in.
Out == [user |-> 0, factor |-> FALSE, loading |-> TRUE, warn |-> FALSE]
Asks(cs, p) ==
  IF p = "login" THEN Put(cs, Request("status", p, "none", "none"))
  ELSE IF p = "oidc" THEN Put(cs, Request("callback", p, "none", "none"))
  ELSE cs
Document(p, cs) ==
  /\ page' = p /\ auth' = Out /\ ui' = Mount(p)
  /\ calls' = IF p = "elsewhere" THEN Gone(cs)
              ELSE Asks(Put(Gone(cs), Request("self", p, "none", "none")), p)
\* Another page is shown while the calls cs are in flight.
Visited(cs) ==
  [hist EXCEPT !.hurried = Changing(cs), !.blind = {}, !.crossed = @ \/ Pending(cs, SessionOps),
               !.left = @ \/ Telling(cs)]

\* The router shows another page; what it lists is asked for if there is a user.
Listing(cs, p, range) ==
  LET one == Put(cs, Request("list", p, range, "none"))
  IN  IF p \in TwoLists THEN Put(one, Request("aside", p, "none", "none")) ELSE one
Admits(p, u) == p \in ListPages /\ u # 0 /\ u >= MinRole(p)
Entered(cs, p, u, range) == IF Admits(p, u) THEN Listing(cs, p, range) ELSE cs
Route(p, cs, u) ==
  /\ page' = p /\ ui' = Mount(p)
  /\ calls' = Entered(Asks(Left(cs, PageOps), p), p, u, "30")

\* The effect that protects a page runs after the render that needs it.
Guard ==
  /\ page \in Protected /\ ~auth.loading
  /\ auth.user < MinRole(page)
  /\ Route(IF auth.user = 0 THEN "login" ELSE "dashboard", calls, auth.user)
  /\ hist' = Visited(calls)
  /\ UNCHANGED <<sess, db, auth>>

\* The user starts something; in a hurry, if the page waits for an answer.
May == hist.asked < MaxAsked /\ Cardinality(calls) < MaxWaiting
Started(op) ==
  [hist EXCEPT !.asked = @ + 1,
               !.hurried = @ \/ \E c \in calls : c.op \in PageOps /\ c.home = "mounted",
               !.crossed = @ \/ (op \in SessionOps /\ Pending(calls, SessionOps))]
Begin(c, u) ==
  /\ May
  /\ ui' = u /\ calls' = Put(calls, c) /\ hist' = Started(c.op)
  /\ UNCHANGED <<sess, db, page, auth>>
\* A change of the form that asks nothing.
Enter(u) ==
  /\ hist.asked < MaxAsked
  /\ u # ui /\ ui' = u
  /\ UNCHANGED <<sess, db, page, auth, calls, hist>>

\* Sidebar: every item loads a document.
Follow ==
  /\ May /\ (auth.loading \/ auth.user # 0) /\ page # "elsewhere"
  /\ \E p \in {q \in Protected : auth.user >= SidebarMin(q)} : Document(p, calls)
  /\ hist' = [Visited(calls) EXCEPT !.asked = @ + 1]
  /\ UNCHANGED <<sess, db>>
\* The dashboard goes through the router.
QuickLink ==
  /\ May /\ page = "dashboard" /\ Usable
  /\ \E p \in {q \in Quick : auth.user >= SidebarMin(q)} : Route(p, calls, auth.user)
  /\ hist' = [Visited(calls) EXCEPT !.asked = @ + 1, !.crossed = hist.crossed]
  /\ UNCHANGED <<sess, db, auth>>

-----------------------------------------------------------------------------
(* AuthProvider and AppShell                                               *)

\* 401 for a user who seemed logged in: forgotten, and sent to the login page;
\* there the handler goes on with its answer.
Expelled(c) == c.ans = "401" /\ auth.user # 0
Unauthorized(c) ==
  /\ c.phase = "served" /\ Expelled(c)
  /\ IF page = "login"
     THEN /\ auth' = [auth EXCEPT !.user = 0, !.factor = FALSE]
          /\ calls' = End(c) \cup {[c EXCEPT !.ans = "refused"]}
          /\ UNCHANGED <<page, ui, hist>>
     ELSE Document("login", End(c)) /\ hist' = Visited(End(c))
  /\ UNCHANGED <<sess, db>>

\* The answer to a call of the page that is shown; one of a page that was left
\* changes nothing.
Answers(c, op) ==
  /\ c.op = op /\ c.phase = "served"
  /\ ~Expelled(c) /\ (op \in ShellOps \/ c.home = "mounted")
Ignored(c) ==
  /\ c.phase = "served" /\ c.home = "left"
  /\ ~Expelled(c) /\ c.op \notin ShellOps
  /\ calls' = End(c)
  /\ UNCHANGED <<sess, db, page, auth, ui, hist>>

\* AppShell asks about root's password whenever there is another user object,
\* and when a password was changed.
Watched(cs, u) == IF u >= 10 THEN Put(cs, Ask("security")) ELSE cs

\* refresh(): the user is what the server says; login and the callback then go
\* to the dashboard.
Refreshed(c) ==
  LET u == IF c.ans = "ok" THEN c.who ELSE 0
      cs == Watched(End(c), u)
  IN  /\ Answers(c, "self")
      /\ auth' = [auth EXCEPT !.user = u, !.factor = u # 0 /\ c.flag, !.loading = FALSE]
      /\ IF c.then = "dashboard"
         THEN Route("dashboard", cs, u) /\ hist' = Visited(End(c))
         ELSE /\ calls' = Entered(cs, page, u, ui.range)
              /\ ui' = [ui EXCEPT !.loading = @ \/ (page = "costs" /\ Admits(page, u))]
              /\ hist' = [hist EXCEPT !.hurried = @ \/ Pending(calls, DataOps)]
              /\ UNCHANGED page
      /\ UNCHANGED <<sess, db>>
Refreshing(then) == Request("self", page, "none", then)

Checked(c) ==
  /\ Answers(c, "security")
  /\ auth' = [auth EXCEPT !.warn = c.ans = "ok" /\ c.flag]
  /\ calls' = End(c)
  /\ UNCHANGED <<sess, db, page, ui, hist>>

\* The button is there as soon as the shell is, also while it is loading.
Logout ==
  /\ auth.loading \/ auth.user # 0
  /\ page # "elsewhere"
  /\ Begin(Ask("logout"), ui)
LoggedOut(c) ==
  /\ Answers(c, "logout")
  /\ auth' = [auth EXCEPT !.user = 0, !.factor = FALSE]
  /\ calls' = End(c)
  /\ UNCHANGED <<sess, db, page, ui, hist>>

-----------------------------------------------------------------------------
(* login/page.tsx                                                          *)

\* A handler of the page goes on: the page is u, the calls are cs.
Goes(u, cs) == ui' = u /\ calls' = cs /\ UNCHANGED <<sess, db, page, auth, hist>>

StatusKnown(c) ==
  Answers(c, "status") /\ Goes([ui EXCEPT !.sso = c.ans = "ok"], End(c))
Submit ==
  /\ page = "login" /\ ~ui.busy
  /\ Begin(Request("login", page, IF ui.step = "code" THEN "code" ELSE "none", "none"),
           [ui EXCEPT !.busy = TRUE])
\* After a success the whole user is asked for before the page is left.
LoginAnswered(c) ==
  LET ans == c.ans
  IN  /\ Answers(c, "login")
      /\ CASE ans = "ok" -> Goes(ui, Put(End(c), Refreshing("dashboard")))
           [] ans = "code" -> Goes([ui EXCEPT !.busy = FALSE, !.step = "code"], End(c))
           [] OTHER -> Goes([ui EXCEPT !.busy = FALSE], End(c))
StartSso ==
  /\ page = "login" /\ ui.sso /\ ~ui.busy
  /\ Begin(Ask("state"), [ui EXCEPT !.busy = TRUE])
SsoStarted(c) ==
  /\ Answers(c, "state")
  /\ IF c.ans = "ok"
     THEN Document("elsewhere", End(c)) /\ hist' = Visited(End(c)) /\ UNCHANGED <<sess, db>>
     ELSE Goes([ui EXCEPT !.busy = FALSE], End(c))

\* oauth/oidc/page.tsx: the identity provider sends the user back with a code.
Callback ==
  /\ page = "elsewhere"
  /\ Document("oidc", calls)
  /\ hist' = [Visited(calls) EXCEPT !.used = FALSE]
  /\ UNCHANGED <<sess, db>>
\* The effect runs again when the saved language is applied, with the same code.
CallbackAgain ==
  /\ page = "oidc" /\ ui.step = "none"
  /\ Begin(Ask("callback"), [ui EXCEPT !.step = "again"])
CallbackAnswered(c) ==
  /\ Answers(c, "callback")
  /\ IF c.ans = "ok" THEN Goes(ui, Put(End(c), Refreshing("dashboard")))
     ELSE Goes([ui EXCEPT !.step = "error"], End(c))

LoginPages ==
  \/ Submit \/ StartSso \/ Callback \/ CallbackAgain
  \/ \E c \in calls : StatusKnown(c) \/ LoginAnswered(c) \/ SsoStarted(c) \/ CallbackAnswered(c)
Shell ==
  \/ Guard \/ Follow \/ QuickLink \/ Logout
  \/ \E c \in calls : Unauthorized(c) \/ Ignored(c) \/ Refreshed(c) \/ Checked(c) \/ LoggedOut(c)
Server == SessionEnds \/ \E c \in calls : ServeProtected(c) \/ ServePublic(c) \/ Lost(c)
=============================================================================
