------------------------------ MODULE AirForms ------------------------------
(***************************************************************************)
(* The edit forms of web/air/src/pages.  Each is a side sheet of a table   *)
(* and stays mounted while it is closed: what it shows next depends on     *)
(* which row the table remembers.  The button that submits stays usable    *)
(* while the form is loading.                                              *)
(***************************************************************************)
EXTENDS FormView

\* A mutation: the effect does not reset the form for a new row.
BugNeverResets(u, t, cs) ==
  LET v == [u EXCEPT !.target = t, !.isEdit = t # 0]
  IN  IF t \in {ui.target, 0} THEN Do(v, cs)
      ELSE /\ InFlight # Slots
           /\ Turn([v EXCEPT !.loading = TRUE], [cs EXCEPT ![Least(Slots \ InFlight)] = Loading(t)])
\* The table remembers row t.  If that is a change, the effect loads the row,
\* or resets the form.
Retarget(u, t, cs) ==
  LET v == [u EXCEPT !.target = t, !.isEdit = t # 0]
  IN  IF t = ui.target THEN Do(v, cs)
      ELSE IF t = 0 THEN Turn([v EXCEPT !.inputs = Origin], cs)
      ELSE /\ InFlight # Slots
           /\ Turn([v EXCEPT !.loading = TRUE], [cs EXCEPT ![Least(Slots \ InFlight)] = Loading(t)])
Opening(t) == [ui EXCEPT !.open = TRUE, !.opened = IF t = 0 THEN 0 ELSE db[t]]
Closing == [ui EXCEPT !.open = FALSE]
EnterField == Enter([ui EXCEPT !.inputs.entered = TRUE])

-----------------------------------------------------------------------------
(* Channel/EditChannel.js.  Closing does not make the table forget the row, *)
(* so a form opened for the same row again is not loaded again.            *)

ChannelOpen(t) == ~ui.open /\ Retarget(Opening(t), t, calls)
ChannelClose == Close(Closing, calls)
ChannelLoaded(s) == LoadAnswered(s)
ChannelType ==
  \E proposed \in BOOLEAN :
    Enter([ui EXCEPT !.inputs.entered = TRUE, !.inputs.full = @ \/ proposed])
ChannelFields == Enter([ui EXCEPT !.inputs.entered = TRUE])
ChannelSecret == Enter([ui EXCEPT !.inputs.keyed = TRUE])
ChannelModels == \E any \in BOOLEAN : Enter([ui EXCEPT !.inputs.full = any])
ChannelAddModel == Enter([ui EXCEPT !.inputs.full = TRUE])
ChannelSubmit ==
  /\ ui.open
  /\ ui.isEdit \/ (ui.inputs.entered /\ ui.inputs.keyed)
  /\ ui.inputs.full
  /\ Begin(Saving, ui)
ChannelSaved(s) ==
  LET c == calls[s]
  IN  /\ Served(s, "save")
      /\ Settle(s, IF c.ok THEN [Closing EXCEPT !.inputs = IF c.put THEN @ ELSE Origin] ELSE ui,
                None, c.made)

Channel ==
  /\ form = "air/channel"
  /\ \/ \E t \in Ids \cup {0} : ChannelOpen(t)
     \/ ChannelClose \/ ChannelType \/ ChannelFields \/ ChannelSecret \/ ChannelModels
     \/ ChannelAddModel \/ ChannelSubmit
     \/ \E s \in Slots : ChannelLoaded(s) \/ ChannelSaved(s)

-----------------------------------------------------------------------------
(* Token/EditToken.js.  Whether it edits is a state of its own, and only    *)
(* when that changes is the form loaded or reset; the table forgets the    *)
(* row by a timer of half a second.                                        *)

TokenOpen(t) ==
  /\ ~ui.open
  /\ LET u == [Opening(t) EXCEPT !.target = t, !.isEdit = t # 0] IN
     IF (t # 0) = ui.isEdit THEN Do(u, calls)
     ELSE IF t = 0 THEN Turn([u EXCEPT !.inputs = Origin], calls)
     ELSE InFlight # Slots /\ Turn([u EXCEPT !.loading = TRUE], With(Loading(t)))
TokenClosing == [Closing EXCEPT !.timers = @ + 1]
TokenClose == Close(TokenClosing, calls)
TokenForget ==
  /\ ui.timers > 0
  /\ ui' = [ui EXCEPT !.timers = @ - 1, !.target = 0, !.isEdit = FALSE,
                      !.inputs = IF ui.isEdit THEN Origin ELSE @]
  /\ UNCHANGED <<form, db, calls, hist>>
TokenLoaded(s) == LoadAnswered(s)
TokenEnter == EnterField
TokenSubmit ==
  /\ ui.open
  /\ \E n \in IF ui.isEdit THEN {1} ELSE 1..Most :
       Begin([Saving EXCEPT !.left = n - 1], [ui EXCEPT !.loading = TRUE])
\* A date that cannot be read ends the loop of a creation, which empties the form.
TokenBadDate ==
  ui.open /\ ~ui.isEdit /\ ui.inputs.entered /\ Do([ui EXCEPT !.inputs = Origin], calls)
\* Two mutations: what was created is announced only if all were; each token
\* is announced when it was created, and all of them again.
BugAllOrNothing(s) ==
  LET c == calls[s]
      total == c.total + c.made
  IN  /\ Served(s, "save")
      /\ IF ~c.put /\ c.ok /\ c.left > 0
         THEN Settle(s, ui, [c EXCEPT !.phase = "asked", !.ok = FALSE, !.made = 0,
                                      !.left = @ - 1, !.total = total], 0)
         ELSE Settle(s, [IF c.ok THEN TokenClosing ELSE ui EXCEPT
                           !.loading = FALSE, !.inputs = Origin], None, IF c.ok THEN total ELSE 0)
\* Tokens are created one by one until one is refused; what was created is
\* announced.  The form is emptied in any case.
TokenSaved(s) ==
  LET c == calls[s]
      total == c.total + c.made
  IN  /\ Served(s, "save")
      /\ IF ~c.put /\ c.ok /\ c.left > 0
         THEN Settle(s, ui, [c EXCEPT !.phase = "asked", !.ok = FALSE, !.made = 0,
                                      !.left = @ - 1, !.total = total], 0)
         ELSE Settle(s, [IF total > 0 THEN TokenClosing ELSE ui EXCEPT
                           !.loading = FALSE, !.inputs = Origin], None, total)

Token ==
  /\ form = "air/token"
  /\ \/ \E t \in Ids \cup {0} : TokenOpen(t)
     \/ TokenClose \/ TokenForget \/ TokenEnter \/ TokenSubmit \/ TokenBadDate
     \/ \E s \in Slots : TokenLoaded(s) \/ TokenSaved(s)

-----------------------------------------------------------------------------
(* User/EditUser.js.  Without a row it shows the administrator himself:     *)
(* closing loads him.                                                      *)

UserOpen(t) ==
  /\ ~ui.open /\ InFlight # Slots
  /\ Turn([Opening(t) EXCEPT !.target = t, !.loading = TRUE], With(Loading(t)))
UserClosed == [Closing EXCEPT !.target = 0, !.loading = TRUE]
UserClose == InFlight # Slots /\ Close(UserClosed, With(Loading(Self)))
UserLoaded(s) == LoadAnswered(s)
UserEnter == EnterField
UserSubmit == ui.open /\ Begin([Saving EXCEPT !.put = TRUE], [ui EXCEPT !.loading = TRUE])
\* After a success the table forgets the row, and the administrator is loaded
\* in the place of this call; a form that was closed before is not closed again.
UserSaved(s) ==
  LET c == calls[s]
  IN  /\ Served(s, "save")
      /\ IF c.ok
         THEN IF ui.target # 0
              THEN Settle(s, UserClosed, Loading(Self), c.made)
              ELSE Settle(s, [Closing EXCEPT !.loading = FALSE], None, c.made)
         ELSE Settle(s, [ui EXCEPT !.loading = FALSE], None, c.made)

User ==
  /\ form = "air/user"
  /\ \/ \E t \in Ids : UserOpen(t)
     \/ UserClose \/ UserEnter \/ UserSubmit
     \/ \E s \in Slots : UserLoaded(s) \/ UserSaved(s)

-----------------------------------------------------------------------------
(* User/AddUser.js                                                         *)

AddUserOpen == ~ui.open /\ Turn(Opening(0), calls)
AddUserClose == Close(Closing, calls)
AddUserEnter == EnterField
\* The flag is raised before the fields are looked at, and stays if one is blank.
AddUserSubmit ==
  /\ ui.open
  /\ IF ui.inputs.entered THEN Begin(Saving, [ui EXCEPT !.loading = TRUE])
                          ELSE Do([ui EXCEPT !.loading = TRUE], calls)
AddUserSaved(s) ==
  LET c == calls[s]
  IN  /\ Served(s, "save")
      /\ Settle(s, IF c.ok THEN [Closing EXCEPT !.loading = FALSE, !.inputs = Origin]
                           ELSE [ui EXCEPT !.loading = FALSE], None, c.made)

AddUser ==
  /\ form = "air/adduser"
  /\ \/ AddUserOpen \/ AddUserClose \/ AddUserEnter \/ AddUserSubmit
     \/ \E s \in Slots : AddUserSaved(s)

-----------------------------------------------------------------------------
(* Redemption/EditRedemption.js                                            *)

RedemptionOpen(t) == ~ui.open /\ Retarget(Opening(t), t, calls)
RedemptionClose == Close(Closing, calls)
RedemptionLoaded(s) == LoadAnswered(s)
RedemptionEnter == EnterField
RedemptionSubmit ==
  /\ ui.open
  /\ ui.isEdit \/ ui.inputs.entered
  /\ \E n \in IF ui.isEdit THEN {1} ELSE 1..Most :
       Begin([Saving EXCEPT !.n = n], [ui EXCEPT !.loading = TRUE])
\* The codes of the answer are offered, also those of a refusal.
RedemptionSaved(s) ==
  LET c == calls[s]
      u == [ui EXCEPT !.loading = FALSE]
  IN  /\ Served(s, "save")
      /\ Settle(s, IF ~c.ok THEN u
                   ELSE [u EXCEPT !.open = FALSE, !.inputs = IF c.put THEN @ ELSE Origin],
                None, c.made)

Redemption ==
  /\ form = "air/redemption"
  /\ \/ \E t \in Ids \cup {0} : RedemptionOpen(t)
     \/ RedemptionClose \/ RedemptionEnter \/ RedemptionSubmit
     \/ \E s \in Slots : RedemptionLoaded(s) \/ RedemptionSaved(s)

-----------------------------------------------------------------------------
\* Closed; the form for users is loading the administrator.
AirInit ==
  /\ form \in AirForms
  /\ LET closed == [Showing(0) EXCEPT !.open = FALSE] IN
     IF form = "air/user"
     THEN Starting([closed EXCEPT !.loading = TRUE], [Idle EXCEPT ![Least(Slots)] = Loading(Self)])
     ELSE Starting(closed, Idle)
AirNext == Channel \/ Token \/ User \/ AddUser \/ Redemption
=============================================================================
