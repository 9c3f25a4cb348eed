------------------------------ MODULE FormView ------------------------------
(***************************************************************************)
(* What the edit forms of the inherited web interfaces have in common.  A  *)
(* form asks the server for the row it is opened for, lets the             *)
(* administrator change it, and writes the whole row back under the id it  *)
(* shows by then.  An answer replaces the inputs whatever row the form     *)
(* shows when it comes.                                                    *)
(*                                                                         *)
(* DefaultForms, AirForms and BerryForms hold the handlers of the          *)
(* components; this module holds the machinery they are written in.  Of    *)
(* the data it keeps whose it is and how recent.                           *)
(***************************************************************************)
EXTENDS Integers, FiniteSets

CONSTANTS
  Ids,          \* rows that can be edited
  Self,         \* the row of the administrator
  Most,         \* rows created by one submission (a bound)
  Slots,        \* calls that can be in flight together (a bound)
  MaxAsked,     \* openings and submissions (a bound)
  MaxTroubles   \* calls refused or lost, and changes by others (a bound)

ASSUME FormAssumption ==
  /\ Ids \subseteq Nat \ {0} /\ Self \in Ids /\ Most \in Nat \ {0}
  /\ Slots \subseteq Nat /\ Slots # {} /\ IsFiniteSet(Slots)

VARIABLES
  form,     \* which component this is
  db,       \* row -> the number of changes it has had
  ui,       \* the state of the component, and of the table it belongs to
  calls,    \* calls in flight, with what their closures hold
  hist      \* what happened, for the properties

vars == <<form, db, ui, calls, hist>>

DefaultForms == {"default/channel", "default/token", "default/user", "default/redemption",
                 "default/adduser"}
AirForms == {"air/channel", "air/token", "air/user", "air/redemption", "air/adduser"}
BerryForms == {"berry/channel", "berry/token", "berry/user", "berry/redemption"}
ChannelForms == {"default/channel", "air/channel", "berry/channel"}

None == [op |-> "none"]
InFlight == {s \in Slots : calls[s] # None}
Quiet == InFlight = {}
Least(S) == CHOOSE x \in S : \A y \in S : x <= y

\* The inputs of a new row: of nobody, no models chosen, nothing entered, no key.
Origin == [of |-> 0, ver |-> 0, full |-> form \notin ChannelForms,
           entered |-> FALSE, keyed |-> FALSE, raw |-> TRUE]
\* The inputs an answer brings.
Loaded(c) == [of |-> c.id, ver |-> c.ver, full |-> TRUE, entered |-> FALSE,
              keyed |-> FALSE, raw |-> TRUE]

\* A form that shows row t, or is for a new one (0).
Showing(t) == [open |-> TRUE, target |-> t, isEdit |-> t # 0, loading |-> FALSE, busy |-> FALSE,
               inputs |-> Origin, initial |-> Origin, timers |-> 0,
               opened |-> IF t = 0 THEN 0 ELSE db[t]]

\* A call; "n" rows to create, "left" further calls, "total" rows created so far.
Call(op, id) ==
  [op |-> op, id |-> id, put |-> id # 0, of |-> 0, ver |-> 0, n |-> 1, left |-> 0, total |-> 0,
   made |-> 0, phase |-> "asked", ok |-> FALSE, alive |-> TRUE]
Loading(t) == Call("load", t)
Saving == [Call("save", ui.target) EXCEPT !.put = ui.isEdit, !.of = ui.inputs.of]

With(c) == [calls EXCEPT ![Least(Slots \ InFlight)] = c]

\* Something the administrator does; in a hurry, if an answer or a timer is due.
\* Closings need not be counted.
Close(u, cs) ==
  /\ ui.open
  /\ ui' = u /\ calls' = cs
  /\ hist' = [hist EXCEPT !.hurried = @ \/ ~Quiet \/ ui.timers > 0]
  /\ UNCHANGED <<form, db>>
Do(u, cs) ==
  /\ hist.asked < MaxAsked
  /\ ui' = u /\ calls' = cs
  /\ hist' = [hist EXCEPT !.asked = @ + 1, !.hurried = @ \/ ~Quiet \/ ui.timers > 0]
  /\ UNCHANGED <<form, db>>
Begin(c, u) == InFlight # Slots /\ Do(u, With(c))

\* Another row is shown: what was loaded before counts no more.
Turn(u, cs) ==
  /\ hist.asked < MaxAsked
  /\ ui' = u /\ calls' = cs
  /\ hist' = [hist EXCEPT !.asked = @ + 1, !.blind = FALSE,
                          !.hurried = @ \/ ~Quiet \/ ui.timers > 0]
  /\ UNCHANGED <<form, db>>

\* Changes a field.
Enter(u) ==
  /\ ui.open /\ u # ui /\ ui' = u
  /\ UNCHANGED <<form, db, calls, hist>>

Served(s, op) == calls[s] # None /\ calls[s].op = op /\ calls[s].phase = "served"

\* A handler goes on with its answer: what the form is then, the call that
\* follows, and how many created or changed rows the administrator hears of.
Settle(s, u, next, told) ==
  /\ ui' = IF calls[s].alive THEN u ELSE ui
  /\ calls' = [calls EXCEPT ![s] = next]
  /\ hist' = [hist EXCEPT !.untold = @ - told]
  /\ UNCHANGED <<form, db>>

\* Those of a load: the inputs are replaced unless it was refused.
LoadAnswered(s) ==
  LET c == calls[s]
  IN  /\ Served(s, "load")
      /\ Settle(s, [ui EXCEPT !.loading = FALSE, !.inputs = IF c.ok THEN Loaded(c) ELSE @],
                None, 0)

-----------------------------------------------------------------------------
(* The server answers; calls are lost; rows change on their own.           *)

\* A row with the id 0 cannot be changed, and a channel cannot be created
\* with the id of another.
Possible(c) ==
  c.op = "save" => IF c.put THEN c.id # 0 ELSE form \in ChannelForms => c.of = 0

Serve(s) ==
  /\ calls[s] # None /\ calls[s].phase = "asked"
  /\ LET c == calls[s] IN
     \E ok \in BOOLEAN, made \in 0..c.n :
       /\ ok => Possible(c)
       /\ ~ok /\ Possible(c) => hist.troubles < MaxTroubles
       /\ c.op = "load" \/ ~Possible(c) => made = 0
       /\ c.op = "save" /\ ok => made = c.n
       /\ ~ok => made < c.n
       /\ db' = IF c.op = "save" /\ c.put /\ ok THEN [db EXCEPT ![c.id] = @ + 1] ELSE db
       /\ calls' = [calls EXCEPT ![s].phase = "served", ![s].ok = ok, ![s].made = made,
                                 ![s].ver = IF c.op = "load" /\ ok THEN db[c.id] ELSE 0]
       /\ hist' = [hist EXCEPT
            !.troubles = IF ok \/ ~Possible(c) THEN @ ELSE @ + 1,
            !.untold = @ + made,
            !.blind = @ \/ (c.op = "load" /\ ~ok /\ c.alive),
            !.refused = @ \/ (c.op = "save" /\ ~ok)]
  /\ UNCHANGED <<form, ui>>

\* The interceptor shows the error and resolves with nothing; reading the answer
\* throws.  The token form of default catches that, and Formik lets the form go.
Lost(s) ==
  /\ calls[s] # None /\ hist.troubles < MaxTroubles
  /\ LET c == calls[s] IN
     \E done \in BOOLEAN :
       /\ done => c.phase = "asked" /\ c.op = "save" /\ Possible(c)
       /\ db' = IF done /\ c.put THEN [db EXCEPT ![c.id] = @ + 1] ELSE db
       /\ ui' = IF ~c.alive THEN ui
                ELSE [ui EXCEPT !.loading = @ /\ ~(form = "default/token" /\ c.op = "load"),
                                !.busy = @ /\ c.op = "load"]
       /\ calls' = [calls EXCEPT ![s] = None]
       /\ hist' = [hist EXCEPT !.troubles = @ + 1, !.lost = TRUE,
                               !.blind = @ \/ (c.op = "load" /\ c.alive),
                               !.untold = IF done THEN @ + c.n ELSE @]
  /\ UNCHANGED form

\* A request consumes quota, or another administrator changes the row.
Foreign ==
  /\ hist.troubles < MaxTroubles
  /\ \E i \in Ids : db' = [db EXCEPT ![i] = @ + 1]
  /\ hist' = [hist EXCEPT !.troubles = @ + 1]
  /\ UNCHANGED <<form, ui, calls>>

Starting(u, cs) ==
  /\ db = [i \in Ids |-> 1]
  /\ ui = u /\ calls = cs
  /\ hist = [asked |-> 0, troubles |-> 0, untold |-> 0, hurried |-> FALSE, blind |-> FALSE,
             lost |-> FALSE, refused |-> FALSE]
Idle == [s \in Slots |-> None]
=============================================================================
