---------------------------- MODULE DefaultForms ----------------------------
(***************************************************************************)
(* The edit forms of web/default/src/pages.  Each is a page of its own: it *)
(* loads its row when it is mounted and is left by going elsewhere.  While *)
(* it is loading it cannot be used.                                        *)
(***************************************************************************)
EXTENDS FormView

\* What a visit finds: the row is being loaded.
Mounted(t) == [Showing(t) EXCEPT !.loading = t # 0]

\* The form is left and another row is visited; handlers that are under way
\* end, but change nothing that is shown.
Visit(t) ==
  LET left == [s \in Slots |-> IF calls[s] = None THEN None ELSE [calls[s] EXCEPT !.alive = FALSE]]
  IN  /\ t # 0 => InFlight # Slots
      /\ Turn(Mounted(t), IF t = 0 THEN left
                          ELSE [left EXCEPT ![Least(Slots \ InFlight)] = Loading(t)])

Usable == ~ui.loading

\* The answer to a submission: a new form after a creation, the same inputs otherwise.
SavedAs(s, told) ==
  LET c == calls[s]
  IN  /\ Served(s, "save")
      /\ Settle(s, [ui EXCEPT !.inputs = IF c.ok /\ ~c.put THEN Origin ELSE @], None, told)

-----------------------------------------------------------------------------
(* Channel/EditChannel.js                                                  *)

ChannelVisited(t) == Visit(t)
ChannelLoaded(s) == LoadAnswered(s)
\* Another type proposes its models if none is chosen; type 43, a proxy, needs
\* none.  What is full is so for its type.
ChannelType ==
  /\ Usable
  /\ \E enough \in BOOLEAN :
       Enter([ui EXCEPT !.inputs.entered = TRUE, !.inputs.full = enough])
ChannelFields == Usable /\ Enter([ui EXCEPT !.inputs.entered = TRUE])
\* A key, or what a provider has instead of one.
ChannelSecret == Usable /\ Enter([ui EXCEPT !.inputs.keyed = TRUE])
ChannelModels ==
  Usable /\ \E any \in BOOLEAN : Enter([ui EXCEPT !.inputs.full = any])
ChannelAddModel == Usable /\ Enter([ui EXCEPT !.inputs.full = TRUE])
\* A new channel needs a name and a key, every channel but a proxy a model.
ChannelSubmit ==
  /\ Usable
  /\ ui.isEdit \/ (ui.inputs.entered /\ ui.inputs.keyed)
  /\ ui.inputs.full
  /\ Begin(Saving, ui)
ChannelSaved(s) == SavedAs(s, calls[s].made)

Channel ==
  /\ form = "default/channel"
  /\ \/ \E t \in Ids \cup {0} : ChannelVisited(t)
     \/ ChannelType \/ ChannelFields \/ ChannelSecret \/ ChannelModels \/ ChannelAddModel
     \/ ChannelSubmit
     \/ \E s \in Slots : ChannelLoaded(s) \/ ChannelSaved(s)

-----------------------------------------------------------------------------
(* Token/EditToken.js                                                      *)

TokenVisited(t) == Visit(t)
TokenLoaded(s) == LoadAnswered(s)
\* The fields a submission spoilt may be entered again.
TokenEnter ==
  /\ Usable
  /\ \E raw \in {ui.inputs.raw, TRUE} :
       Enter([ui EXCEPT !.inputs.entered = TRUE, !.inputs.raw = raw])
\* It works on the inputs themselves: the models become a text and the expiry a
\* number, and a second submission throws before it sends anything.
TokenSubmit ==
  /\ Usable
  /\ ui.isEdit \/ ui.inputs.entered
  /\ ui.inputs.raw
  /\ Begin(Saving, [ui EXCEPT !.inputs.raw = FALSE])
TokenSaved(s) == SavedAs(s, calls[s].made)

Token ==
  /\ form = "default/token"
  /\ \/ \E t \in Ids \cup {0} : TokenVisited(t)
     \/ TokenEnter \/ TokenSubmit
     \/ \E s \in Slots : TokenLoaded(s) \/ TokenSaved(s)

-----------------------------------------------------------------------------
(* User/EditUser.js: a user of a route with an id, or the administrator;    *)
(* User/AddUser.js                                                         *)

UserVisited(t) == Visit(t)
UserLoaded(s) == LoadAnswered(s)
UserEnter == Usable /\ Enter([ui EXCEPT !.inputs.entered = TRUE])
UserSubmit == Usable /\ Begin(Saving, ui)
UserSaved(s) == SavedAs(s, calls[s].made)

User ==
  /\ form = "default/user"
  /\ \/ \E t \in Ids : UserVisited(t)
     \/ UserEnter \/ UserSubmit
     \/ \E s \in Slots : UserLoaded(s) \/ UserSaved(s)

AddUserEnter == Enter([ui EXCEPT !.inputs.entered = TRUE])
AddUserSubmit == ui.inputs.entered /\ Begin(Saving, ui)
AddUserSaved(s) == SavedAs(s, calls[s].made)

AddUser ==
  /\ form = "default/adduser"
  /\ AddUserEnter \/ AddUserSubmit \/ \E s \in Slots : AddUserSaved(s)

-----------------------------------------------------------------------------
(* Redemption/EditRedemption.js                                            *)

RedemptionVisited(t) == Visit(t)
RedemptionLoaded(s) == LoadAnswered(s)
RedemptionEnter == Usable /\ Enter([ui EXCEPT !.inputs.entered = TRUE])
RedemptionSubmit ==
  /\ Usable
  /\ ui.isEdit \/ ui.inputs.entered
  /\ \E n \in IF ui.isEdit THEN {1} ELSE 1..Most : Begin([Saving EXCEPT !.n = n], ui)
\* The codes of the answer are offered as a file, also those of a refusal.
RedemptionSaved(s) == SavedAs(s, calls[s].made)

Redemption ==
  /\ form = "default/redemption"
  /\ \/ \E t \in Ids \cup {0} : RedemptionVisited(t)
     \/ RedemptionEnter \/ RedemptionSubmit
     \/ \E s \in Slots : RedemptionLoaded(s) \/ RedemptionSaved(s)

-----------------------------------------------------------------------------
DefaultInit ==
  /\ form \in DefaultForms
  /\ \E t \in Ids \cup {0} :
       /\ form = "default/user" => t # 0
       /\ form = "default/adduser" => t = 0
       /\ Starting(Mounted(t),
                   IF t = 0 THEN Idle ELSE [Idle EXCEPT ![Least(Slots)] = Loading(t)])
DefaultNext == Channel \/ Token \/ User \/ AddUser \/ Redemption
=============================================================================
