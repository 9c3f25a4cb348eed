-------------------------------- MODULE Forms --------------------------------
(***************************************************************************)
(* The edit forms of the three inherited interfaces, and what they promise *)
(* to the administrator who works with them.                               *)
(***************************************************************************)
EXTENDS FormView

D == INSTANCE DefaultForms
A == INSTANCE AirForms
B == INSTANCE BerryForms

Init == D!DefaultInit \/ A!AirInit \/ B!BerryInit
Next == \/ \E s \in Slots : Serve(s) \/ Lost(s)
        \/ Foreign
        \/ D!DefaultNext \/ A!AirNext \/ B!BerryNext
Spec == Init /\ [][Next]_vars

-----------------------------------------------------------------------------
\* The administrator waits for answers, and for a closed form to be forgotten;
\* what the form needed was loaded; the token form of air, which a refusal
\* empties, is not used again after one.  The pages of default need no waiting.
Careful ==
  /\ form \in DefaultForms \/ ~hist.hurried
  /\ ~hist.blind
  /\ form = "air/token" => ~hist.refused

\* What is submitted for a row was loaded from this row, and what is submitted
\* as new was loaded from none.
RightTarget ==
  [][\A s \in Slots :
       calls[s] = None /\ calls'[s] # None /\ calls'[s].op = "save" /\ Careful' =>
         calls'[s].of = IF calls'[s].put THEN calls'[s].id ELSE 0]_vars

\* A form at rest shows its row no older than it was when the form was opened.
\* Two forms of air are opened for the row they were closed with as they were.
ShowsFresh ==
  /\ form \notin {"air/channel", "air/redemption"}
  /\ ui.open /\ ui.target # 0 /\ Quiet /\ Careful
  => ui.inputs.of = ui.target /\ ui.inputs.ver >= ui.opened

\* However a submission ends, also half done, the administrator hears of every
\* row it created or changed, unless an answer was lost.  (The codes that a
\* refused creation has created are not shown by berry.)
EverythingIsTold ==
  Quiet /\ ~hist.lost /\ form # "berry/redemption" => hist.untold = 0
=============================================================================
