----------------------------- MODULE BerryForms -----------------------------
(***************************************************************************)
(* The edit forms of web/berry/src/views: dialogs that stay mounted, around *)
(* a Formik form that is mounted while the dialog is open, starts from the *)
(* initial inputs and starts again when these change.  Closing makes the   *)
(* table forget the row, which resets the initial inputs.                  *)
(***************************************************************************)
EXTENDS FormView

\* The row changes; its effect loads the row or resets the initial inputs.
Opened(t) ==
  LET u == [ui EXCEPT !.open = TRUE, !.target = t, !.isEdit = t # 0, !.inputs = ui.initial,
                      !.busy = FALSE, !.opened = IF t = 0 THEN 0 ELSE db[t]]
  IN  IF t = ui.target THEN Turn(u, calls) ELSE InFlight # Slots /\ Turn(u, With(Loading(t)))
\* A mutation: the table does not forget the row.
BugRemembers == [ui EXCEPT !.open = FALSE, !.busy = FALSE, !.inputs = ui.initial]
Closed == [ui EXCEPT !.open = FALSE, !.target = 0, !.isEdit = FALSE, !.busy = FALSE,
                     !.initial = IF ui.target # 0 THEN Origin ELSE @,
                     !.inputs = IF ui.target # 0 THEN Origin ELSE ui.initial]
Open(t) == ~ui.open /\ Opened(t)

\* New initial inputs start the form again, which may then be submitted.
Answered(s) ==
  LET c == calls[s]
  IN  /\ Served(s, "load")
      /\ Settle(s, IF c.ok /\ ui.initial # Loaded(c)
                   THEN [ui EXCEPT !.initial = Loaded(c), !.inputs = Loaded(c), !.busy = FALSE]
                   ELSE ui, None, 0)

\* The data say whether they are to be changed or created; what is new must
\* have been entered.
IsEdit == ui.inputs.of # 0
Submit(put, n) ==
  /\ ui.open /\ ~ui.busy
  /\ IsEdit \/ ui.inputs.entered
  /\ Begin([Saving EXCEPT !.put = put, !.n = n], [ui EXCEPT !.busy = TRUE])
\* A success closes whatever form is open by then.
Saved(s, told) ==
  /\ Served(s, "save")
  /\ Settle(s, IF calls[s].ok THEN Closed ELSE [ui EXCEPT !.busy = FALSE], None, told)
EnterField == ui.open /\ Enter([ui EXCEPT !.inputs.entered = TRUE])

-----------------------------------------------------------------------------
(* Channel/component/EditModal.js                                          *)

ChannelOpen(t) == Open(t)
ChannelClose == Close(Closed, calls)
ChannelLoaded(s) == Answered(s)
ChannelType ==
  \E proposed \in BOOLEAN :
    Enter([ui EXCEPT !.inputs.entered = TRUE, !.inputs.full = @ \/ proposed])
ChannelFields == Enter([ui EXCEPT !.inputs.entered = TRUE])
ChannelSecret == Enter([ui EXCEPT !.inputs.keyed = TRUE])
ChannelModels == \E any \in BOOLEAN : Enter([ui EXCEPT !.inputs.full = any])
\* Here the row decides whether it is changed or created, not the data.
ChannelSubmit ==
  /\ ui.inputs.full /\ (IsEdit \/ ui.inputs.keyed)
  /\ Submit(ui.target # 0, 1)
ChannelSaved(s) == Saved(s, calls[s].made)

Channel ==
  /\ form = "berry/channel"
  /\ \/ \E t \in Ids \cup {0} : ChannelOpen(t)
     \/ ChannelClose \/ ChannelType \/ ChannelFields \/ ChannelSecret \/ ChannelModels
     \/ ChannelSubmit
     \/ \E s \in Slots : ChannelLoaded(s) \/ ChannelSaved(s)

-----------------------------------------------------------------------------
(* Token/component/EditModal.js                                            *)

TokenOpen(t) == Open(t)
TokenClose == Close(Closed, calls)
TokenLoaded(s) == Answered(s)
TokenEnter == EnterField
TokenSubmit == Submit(IsEdit, 1)
TokenSaved(s) == Saved(s, calls[s].made)

Token ==
  /\ form = "berry/token"
  /\ \/ \E t \in Ids \cup {0} : TokenOpen(t)
     \/ TokenClose \/ TokenEnter \/ TokenSubmit
     \/ \E s \in Slots : TokenLoaded(s) \/ TokenSaved(s)

-----------------------------------------------------------------------------
(* User/component/EditModal.js                                             *)

UserOpen(t) == Open(t)
UserClose == Close(Closed, calls)
UserLoaded(s) == Answered(s)
UserEnter == EnterField
UserSubmit == Submit(IsEdit, 1)
UserSaved(s) == Saved(s, calls[s].made)

User ==
  /\ form = "berry/user"
  /\ \/ \E t \in Ids \cup {0} : UserOpen(t)
     \/ UserClose \/ UserEnter \/ UserSubmit
     \/ \E s \in Slots : UserLoaded(s) \/ UserSaved(s)

-----------------------------------------------------------------------------
(* Redemption/component/EditModal.js                                       *)

RedemptionOpen(t) == Open(t)
RedemptionClose == Close(Closed, calls)
RedemptionLoaded(s) == Answered(s)
RedemptionEnter == EnterField
RedemptionSubmit == \E n \in IF IsEdit THEN {1} ELSE 1..Most : Submit(IsEdit, n)
\* The codes of a refusal are not looked at.
RedemptionSaved(s) == Saved(s, IF calls[s].ok THEN calls[s].made ELSE 0)

Redemption ==
  /\ form = "berry/redemption"
  /\ \/ \E t \in Ids \cup {0} : RedemptionOpen(t)
     \/ RedemptionClose \/ RedemptionEnter \/ RedemptionSubmit
     \/ \E s \in Slots : RedemptionLoaded(s) \/ RedemptionSaved(s)

-----------------------------------------------------------------------------
BerryInit == form \in BerryForms /\ Starting([Showing(0) EXCEPT !.open = FALSE], Idle)
BerryNext == Channel \/ Token \/ User \/ Redemption
=============================================================================
