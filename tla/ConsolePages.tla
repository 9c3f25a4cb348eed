---------------------------- MODULE ConsolePages ----------------------------
(***************************************************************************)
(* The pages of the console that list, create and change things, and the   *)
(* account's own settings.  All lists work alike: a change is awaited and  *)
(* whatever came of it, the list is asked for again.                       *)
(***************************************************************************)
EXTENDS Console

At(p) == page = p /\ Usable

\* Something the buttons of a row do.
Change(op) == Begin(Ask(op), ui)
\* Mutant: the list is not asked for again.
BugNoReload(c, u) == Goes(u, End(c))
\* A change was answered: load(), which asks for all the page lists.
Reloads(c, u) == Goes(u, Listing(End(c), page, ui.range))

\* Mutant: a refusal leaves the spinner.
BugReturnsEarly(c) ==
  /\ Answers(c, "list")
  /\ Goes(IF c.ans = "ok" THEN [ui EXCEPT !.loading = FALSE, !.of = c.arg, !.rows = c.ver] ELSE ui,
          End(c))
Listed(c) ==
  /\ Answers(c, "list")
  /\ Goes([ui EXCEPT !.loading = FALSE, !.of = c.arg,
                     !.rows = IF c.ans = "ok" THEN c.ver ELSE 0], End(c))
AsideListed(c) ==
  /\ Answers(c, "aside")
  /\ Goes([ui EXCEPT !.aside = IF c.ans = "ok" THEN c.ver ELSE 0], End(c))
Changed(c) == (Answers(c, "change") \/ Answers(c, "assign")) /\ Reloads(c, ui)

\* The form is closed and emptied also after a refusal; redemption keeps its fields.
Create(u) == ui.form /\ ui.filled /\ ~ui.busy /\ Begin(Ask("create"), [u EXCEPT !.busy = TRUE])
Created(c) ==
  /\ Answers(c, "create")
  /\ Reloads(c, [ui EXCEPT !.busy = FALSE, !.form = FALSE, !.filled = @ /\ page = "redemption"])
\* Mutant: the key is shown only beside its form.
BugBesideForm(c) ==
  LET told == c.ans = "ok" /\ ui.form
  IN  /\ Answers(c, "create")
      /\ ui' = [ui EXCEPT !.busy = FALSE, !.form = FALSE, !.filled = FALSE, !.key = @ \/ told]
      /\ calls' = Listing(End(c), page, ui.range)
      /\ hist' = [hist EXCEPT !.untold = IF told THEN @ - 1 ELSE @]
      /\ UNCHANGED <<sess, db, page, auth>>
\* The same where the answer holds a key that is shown until it is dismissed.
CreatedKey(c) ==
  LET told == c.ans = "ok"
  IN  /\ Answers(c, "create")
      /\ ui' = [ui EXCEPT !.busy = FALSE, !.form = FALSE, !.filled = FALSE, !.key = @ \/ told]
      /\ calls' = Listing(End(c), page, ui.range)
      /\ hist' = [hist EXCEPT !.untold = IF told THEN @ - 1 ELSE @]
      /\ UNCHANGED <<sess, db, page, auth>>

\* "New" opens and closes the form, "Cancel" closes it.
Form == Enter([ui EXCEPT !.form = ~@])
Fill == ui.form /\ \E any \in BOOLEAN : Enter([ui EXCEPT !.filled = any])
Dismiss == Enter([ui EXCEPT !.key = FALSE])

-----------------------------------------------------------------------------
(* providers, tokens                                                       *)

PickPreset == ui.form /\ Enter([ui EXCEPT !.filled = TRUE])
Test == Begin(Ask("test"), [ui EXCEPT !.step = "testing"])
Tested(c) ==
  /\ Answers(c, "test")
  /\ Goes([ui EXCEPT !.step = IF c.ans = "ok" THEN "works" ELSE "fails"], End(c))
ProvidersRow == Change("change") \/ Test
ProvidersForm == Form \/ Fill \/ PickPreset \/ Create(ui)
Providers ==
  \/ At("providers") /\ (ProvidersRow \/ ProvidersForm)
  \/ page = "providers" /\ \E c \in calls : Listed(c) \/ Created(c) \/ Changed(c) \/ Tested(c)

\* A token is deleted after a question.
Remove == ui.confirm /\ Begin(Ask("change"), [ui EXCEPT !.confirm = FALSE])
TokensRow == Enter([ui EXCEPT !.confirm = ~@]) \/ Remove
TokensForm == Form \/ Fill \/ Create(ui) \/ Dismiss
Tokens ==
  \/ At("tokens") /\ (TokensRow \/ TokensForm)
  \/ page = "tokens" /\ \E c \in calls : Listed(c) \/ CreatedKey(c) \/ Changed(c)

-----------------------------------------------------------------------------
(* organizations, budgets, agents, users, redemption                       *)

OrganizationsRow == Change("change")
OrganizationsForm == Form \/ Fill \/ Create(ui)
Organizations ==
  \/ At("organizations") /\ (OrganizationsRow \/ OrganizationsForm)
  \/ page = "organizations" /\ \E c \in calls : Listed(c) \/ Created(c) \/ Changed(c)

\* Reset or delete.
BudgetsRow == Change("change")
BudgetsForm == Form \/ Fill \/ Create(ui)
Budgets ==
  \/ At("budgets") /\ (BudgetsRow \/ BudgetsForm)
  \/ page = "budgets" /\ \E c \in calls : Listed(c) \/ Created(c) \/ Changed(c)

\* Enable or disable, delete, decide on a pending action.
AgentsRow == Change("change")
AgentsForm == Form \/ Fill \/ Create(ui) \/ Dismiss
Agents ==
  \/ At("agents") /\ (AgentsRow \/ AgentsForm)
  \/ page = "agents" /\ \E c \in calls : Listed(c) \/ AsideListed(c) \/ CreatedKey(c) \/ Changed(c)

\* Manage another user, or give one to an organization.
UsersRow == Change("change") \/ Change("assign")
UsersForm == Form \/ Fill \/ Create(ui)
Users ==
  \/ At("users") /\ (UsersRow \/ UsersForm)
  \/ page = "users" /\ \E c \in calls : Listed(c) \/ AsideListed(c) \/ Created(c) \/ Changed(c)

RedemptionRow == Change("change")
RedemptionForm == Form \/ Fill \/ Create(ui)
Redemption ==
  \/ At("redemption") /\ (RedemptionRow \/ RedemptionForm)
  \/ page = "redemption" /\ \E c \in calls : Listed(c) \/ Created(c) \/ Changed(c)

-----------------------------------------------------------------------------
(* costs, usage, logs                                                      *)

\* Another range asks at once.
PickRange ==
  \E range \in {"30", "365"} \ {ui.range} :
    Begin(Request("list", page, range, "none"), [ui EXCEPT !.range = range, !.loading = TRUE])
Costs ==
  \/ At("costs") /\ PickRange
  \/ page = "costs" /\ \E c \in calls : Listed(c)
Usage == page = "usage" /\ \E c \in calls : Listed(c)
Logs == page = "logs" /\ \E c \in calls : Listed(c)

-----------------------------------------------------------------------------
(* settings: ChangePassword.tsx, TwoFactor.tsx                              *)

Password == ~ui.saving /\ Begin(Ask("password"), [ui EXCEPT !.saving = TRUE])
\* A success has AppShell check root's password again.
PasswordAnswered(c) ==
  /\ Answers(c, "password")
  /\ Goes([ui EXCEPT !.saving = FALSE],
          IF c.ans = "ok" THEN Watched(End(c), auth.user) ELSE End(c))

StartSetup ==
  /\ ~auth.factor /\ ui.step = "none" /\ ~ui.busy
  /\ Begin(Ask("setup"), [ui EXCEPT !.busy = TRUE])
SetupStarted(c) ==
  /\ Answers(c, "setup")
  /\ Goes([ui EXCEPT !.busy = FALSE, !.step = IF c.ans = "ok" THEN "scan" ELSE @], End(c))
ConfirmEnable ==
  /\ ~auth.factor /\ ui.step = "scan" /\ ~ui.busy
  /\ Begin(Ask("enable"), [ui EXCEPT !.busy = TRUE])
CancelSetup == ~auth.factor /\ ui.step = "scan" /\ Enter([ui EXCEPT !.step = "none"])
\* Mutant: the user is not asked for again.
BugNoRefresh(c) ==
  LET told == c.ans = "ok"
  IN  /\ Answers(c, "enable")
      /\ ui' = [ui EXCEPT !.busy = FALSE, !.step = IF told THEN "codes" ELSE @]
      /\ calls' = End(c)
      /\ hist' = [hist EXCEPT !.untold = IF told THEN @ - 1 ELSE @]
      /\ UNCHANGED <<sess, db, page, auth>>
\* The backup codes are shown, and the user is asked for again.
Enabled(c) ==
  LET told == c.ans = "ok"
  IN  /\ Answers(c, "enable")
      /\ ui' = [ui EXCEPT !.busy = FALSE, !.step = IF told THEN "codes" ELSE @]
      /\ calls' = IF told THEN Put(End(c), Refreshing("none")) ELSE End(c)
      /\ hist' = [hist EXCEPT !.untold = IF told THEN @ - 1 ELSE @,
                              !.crossed = @ \/ (told /\ Pending(End(c), SessionOps))]
      /\ UNCHANGED <<sess, db, page, auth>>
Disable == auth.factor /\ ~ui.busy /\ Begin(Ask("disable"), [ui EXCEPT !.busy = TRUE])
Disabled(c) ==
  LET done == c.ans = "ok"
  IN  /\ Answers(c, "disable")
      /\ ui' = [ui EXCEPT !.busy = FALSE, !.step = IF done THEN "none" ELSE @]
      /\ calls' = IF done THEN Put(End(c), Refreshing("none")) ELSE End(c)
      /\ hist' = [hist EXCEPT !.crossed = @ \/ (done /\ Pending(End(c), SessionOps))]
      /\ UNCHANGED <<sess, db, page, auth>>
TwoFactor ==
  \/ At("settings") /\ (StartSetup \/ ConfirmEnable \/ CancelSetup \/ Disable)
  \/ \E c \in calls : SetupStarted(c) \/ Enabled(c) \/ Disabled(c)
ChangePassword ==
  \/ At("settings") /\ Password
  \/ \E c \in calls : PasswordAnswered(c)

-----------------------------------------------------------------------------
\* Any page is visited by its address, with any session; root has two factors,
\* and the password it came with.
Init ==
  /\ sess \in Accounts \cup {0}
  /\ db = [rows |-> 1, factor |-> Accounts \cap {100}, unsafe |-> TRUE]
  /\ page \in Pages \ {"elsewhere"}
  /\ auth = Out
  /\ ui = Mount(page)
  /\ calls = Asks(Put({}, Ask("self")), page)
  /\ hist = [asked |-> 0, troubles |-> 0, untold |-> 0, hurried |-> FALSE, crossed |-> FALSE,
             blind |-> {}, lost |-> FALSE, ended |-> FALSE, left |-> FALSE, used |-> FALSE]

PagesNext ==
  \/ Providers \/ Tokens \/ Organizations \/ Budgets \/ Agents \/ Users \/ Redemption
  \/ Costs \/ Usage \/ Logs \/ TwoFactor \/ ChangePassword

Next == Server \/ Shell \/ LoginPages \/ PagesNext

Spec == Init /\ [][Next]_vars

-----------------------------------------------------------------------------
\* When nothing is in flight the console names the account of the session and
\* says truly whether it has two factors, unless the session ended by itself, an
\* answer was lost, or two calls about the session crossed.
SaysWhoItIs ==
  Quiet /\ auth.user # 0 /\ ~hist.ended /\ ~hist.lost /\ ~hist.crossed
  => auth.user = sess /\ auth.factor = (sess \in db.factor)

\* A list at rest shows every change that was made on its page, and the range
\* that is selected; unless the user did not wait, an answer was lost, or the
\* list was refused.
ShowsChanges ==
  Quiet /\ page \in ListPages /\ Usable /\ ~hist.hurried /\ ~hist.lost
  => /\ "list" \notin hist.blind => ui.rows = db.rows /\ ui.of = ui.range
     /\ page \in TwoLists /\ "aside" \notin hist.blind => ui.aside = db.rows

\* A key or a set of backup codes, which the server tells once, is shown: also
\* when the form was closed meanwhile.  Unless the page was left or the answer lost.
SecretsAreShown == Quiet /\ ~hist.left /\ ~hist.lost => hist.untold = 0

\* However calls end, also in an order of their own, nothing hangs when all are
\* answered: no page goes on loading and no button stays blocked, unless an
\* answer was lost.
NothingHangs ==
  Quiet /\ ~hist.lost /\ page # "elsewhere"
  => ~auth.loading /\ ~ui.busy /\ ~ui.saving /\ (Usable => ~ui.loading)

=============================================================================
