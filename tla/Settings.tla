------------------------------ MODULE Settings ------------------------------
(***************************************************************************)
(* Root works on one section of a settings page: the options are loaded    *)
(* when the page is mounted, entered, saved one call at a time, refused,   *)
(* lost, and meanwhile changed elsewhere.  A handler awaits each of its    *)
(* calls, so it is a queue of saves, in the order of the fields; two       *)
(* handlers may be under way.                                              *)
(***************************************************************************)
EXTENDS SettingsSections, FiniteSetsExt

CONSTANTS
  Studied,     \* the sections looked at: all, or one of each kind
  Slots,       \* the handlers that can be under way together
  MaxAsked,    \* bound: fields left or entered, buttons and switches clicked
  MaxTroubles  \* bound: refusals, lost calls and changes made elsewhere

ASSUME SettingsAssumption ==
  Studied \subseteq DOMAIN Sections /\ MaxAsked \in Nat /\ MaxTroubles \in Nat

VARIABLES
  section,  \* the section root works on
  server,   \* the server's options, by field
  ui,       \* what the component keeps
  jobs,     \* the handlers under way
  hist      \* what root has done and was told, and what he was not told of
vars == <<section, server, ui, jobs, hist>>

None == "none"
Absent == "absent"   \* an option the server did not send
Blank == ""
EmptyMap == "{}"     \* JSON without an entry
Rules == Sections[section]
Fields == DOMAIN Rules
Is(k, rules) == Rules[k] \in rules
Switches == {"switch", "guarded", "enable"}
Secrets == {"secret", "spelled", "gate", "hidden"}
Trimming == {"trimmed", "typed", "address"}

InConsole == section \in DOMAIN ConsoleSections
\* Semantic UI covers a form that is saving; berry disables the inputs only.
Covered == section \in DOMAIN DefaultSections \cup DOMAIN AirSections
\* Their fields are not disabled.
AlwaysOpen == {"berry/domains", "berry/ratio", "berry/notice"}
HasButton == section \notin DOMAIN DefaultSwitches \cup DOMAIN AirSwitches \cup DOMAIN BerrySwitches
                           \cup DOMAIN DefaultOperationSwitches \cup DOMAIN AirOperationSwitches
                           \cup DOMAIN BerryOperationSwitches

\* What can be entered: an address may end with a slash, what should be JSON, or
\* the address of a document, may be none.
Texts(k) == {Blank, "a", "b"} \cup (IF Is(k, Trimming) THEN {"a/"} ELSE {})
                           \cup (IF Is(k, {"checked", "well"}) THEN {"bad"} ELSE {})
Trim(v) == IF v = "a/" THEN "a" ELSE v
Flip(v) == IF v = "true" THEN "false" ELSE "true"
\* An empty map is shown as nothing.
Display(v) == IF v = EmptyMap THEN Blank ELSE v

-----------------------------------------------------------------------------
(* Handlers                                                                *)

Nobody == [op |-> "none"]
Busy(s) == jobs[s] # Nobody
InFlight == {s \in Slots : Busy(s)}
Quiet == InFlight = {}

\* The saves a handler still has to make: the value of each field it saves, the
\* least of the fields first.
Nothing == [k \in {} |-> None]
First(queue) == Min(DOMAIN queue)
Rest(queue) == [k \in DOMAIN queue \ {First(queue)} |-> queue[k]]

\* A handler: its saves, the first of them asked for, what it remembers (what it
\* looks up for, the options it was sent), and how the server answered.
Handler(op, queue, data) ==
  [op |-> op, queue |-> queue, data |-> data, phase |-> "asked", ok |-> TRUE]
Saver(queue) == Handler("save", queue, Nothing)
Then(queue) == IF DOMAIN queue = {} THEN Nobody ELSE Saver(queue)

Free == CHOOSE s \in Slots : ~Busy(s)
Trouble == hist.troubles < MaxTroubles

\* Two handlers that save the same option, or look up, may overtake each other.
Races(job) ==
  \E s \in InFlight :
    \/ "find" \in {job.op, jobs[s].op}
    \/ DOMAIN jobs[s].queue \cap DOMAIN job.queue # {}

\* A handler is started for what there is to save of the fields ks, which root
\* means to be saved as they are shown; quit: those he is told are in error at
\* once, touched: those he enters with this click.
Begins(job, u, ks, quit, touched) ==
  /\ InFlight # Slots
  /\ hist.asked < MaxAsked
  /\ ui' = u
  /\ jobs' = IF job.op = "save" /\ DOMAIN job.queue = {} THEN jobs ELSE [jobs EXCEPT ![Free] = job]
  /\ hist' = [hist EXCEPT !.asked = @ + 1, !.meant = @ \cup ks, !.told = (@ \ ks) \cup quit,
                          !.touched = @ \cup touched, !.unsaved = @ \ ks,
                          !.blind = @ \/ ~ui.loaded, !.raced = @ \/ Races(job)]
  /\ UNCHANGED <<section, server>>
Acts(job, u, ks, quit) == Begins(job, u, ks, quit, {})
Saves(k, v, u) == Begins(Saver([j \in {k} |-> v]), u, {k}, {}, {k})

\* The server saves, or refuses to; a load reads the options.
Serve(s) ==
  /\ Busy(s) /\ jobs[s].phase = "asked" /\ jobs[s].op # "find"
  /\ \E ok \in IF jobs[s].op = "save" /\ Trouble THEN BOOLEAN ELSE {TRUE} :
       /\ jobs' = [jobs EXCEPT ![s].phase = "served", ![s].ok = ok,
                               ![s].data = IF jobs[s].op = "load" THEN server ELSE @]
       /\ server' = IF jobs[s].op = "save" /\ ok
                    THEN LET k == First(jobs[s].queue) IN [server EXCEPT ![k] = jobs[s].queue[k]]
                    ELSE server
       /\ hist' = [hist EXCEPT !.troubles = IF ok THEN @ ELSE @ + 1]
  /\ UNCHANGED <<section, ui>>

\* A call or its answer is lost: what was to be saved after it is not, and a form
\* that is saving goes on saying so.  The interceptor of the inherited interfaces
\* shows an error; the console says nothing.
Lost(s) ==
  /\ Busy(s) /\ jobs[s].op # "find" /\ Trouble
  /\ jobs' = [jobs EXCEPT ![s] = Nobody]
  /\ hist' = [hist EXCEPT !.troubles = @ + 1,
                          !.told = IF InConsole THEN @ ELSE @ \cup DOMAIN jobs[s].queue,
                          !.unsaved = IF InConsole THEN @ \cup DOMAIN jobs[s].queue ELSE @]
  /\ UNCHANGED <<section, server, ui>>

\* Somebody else changes an option.
Elsewhere(k) ==
  /\ Trouble
  /\ \E v \in IF Is(k, Switches) THEN {"true", "false"} ELSE {"a", "b"} :
       v # server[k] /\ server' = [server EXCEPT ![k] = v]
  /\ hist' = [hist EXCEPT !.troubles = @ + 1, !.foreign = @ \cup {k}]
  /\ UNCHANGED <<section, ui, jobs>>

\* getOptions: what was entered before the answer is overwritten.
Received(data) ==
  [k \in Fields |-> IF Is(k, Secrets) THEN Absent
                    ELSE IF Is(k, {"checked"}) THEN Display(data[k]) ELSE data[k]]
Loaded(s) ==
  LET got == Received(jobs[s].data)
  IN  /\ Busy(s) /\ jobs[s].op = "load" /\ jobs[s].phase = "served"
      /\ ui' = [ui EXCEPT !.inputs = got, !.origin = got, !.loaded = TRUE,
                          !.kept = [k \in Fields |-> IF Is(k, {"stuck", "lookup"}) THEN got[k] ELSE @[k]]]
      /\ jobs' = [jobs EXCEPT ![s] = Nobody]
      /\ UNCHANGED <<section, server, hist>>

-----------------------------------------------------------------------------
(* The inherited interfaces: SystemSetting, OperationSetting, OtherSetting *)

Legacy == ~InConsole /\ ~ui.asking /\ ~(Covered /\ ui.busy)
Saving == [ui EXCEPT !.busy = TRUE]

BugStopsUntold(s) ==
  LET job == jobs[s]
      k == First(job.queue)
      rest == IF job.ok THEN Rest(job.queue) ELSE Nothing
  IN  /\ ~InConsole /\ Busy(s) /\ job.op = "save" /\ job.phase = "served"
      /\ ui' = [ui EXCEPT !.inputs[k] = IF job.ok THEN job.queue[k] ELSE @,
                          !.busy = DOMAIN rest # {}]
      /\ hist' = [hist EXCEPT !.told = IF job.ok THEN @ ELSE @ \cup {k}]
      /\ jobs' = [jobs EXCEPT ![s] = Then(rest)]
      /\ UNCHANGED <<section, server>>

\* updateOption answered: the value is shown, or the refusal; the next save is
\* asked for at once.
Updated(s) ==
  LET job == jobs[s]
      k == First(job.queue)
      rest == Rest(job.queue)
  IN  /\ ~InConsole /\ Busy(s) /\ job.op = "save" /\ job.phase = "served"
      /\ ui' = [ui EXCEPT !.inputs[k] = IF job.ok THEN job.queue[k] ELSE @,
                          !.busy = DOMAIN rest # {}]
      /\ hist' = [hist EXCEPT !.told = IF job.ok THEN @ ELSE @ \cup {k}]
      /\ jobs' = [jobs EXCEPT ![s] = Then(rest)]
      /\ UNCHANGED <<section, server>>

\* The fields a text decides on: what it is, and whether the list it opens is saved.
Affects(k) == {k} \cup {j \in Fields : Is(k, {"gate"}) /\ Is(j, {"gated"})}

\* handleInputChange of a text: shown, or saved with every key.
Enter(k, v) ==
  /\ Legacy /\ (ui.busy => section \in AlwaysOpen) /\ ~Is(k, Switches) /\ v \in Texts(k) \ {ui.inputs[k]}
  /\ IF Is(k, {"typed", "spelled"})
     THEN Saves(k, v, Saving)
     ELSE /\ hist.asked < MaxAsked
          /\ ui' = IF Is(k, {"stuck"}) THEN [ui EXCEPT !.kept[k] = v] ELSE [ui EXCEPT !.inputs[k] = v]
          /\ hist' = [hist EXCEPT !.asked = @ + 1, !.meant = @ \ Affects(k), !.touched = @ \cup {k},
                                  !.raced = @ \/ \E s \in InFlight : jobs[s].op = "find"]
          /\ UNCHANGED <<section, server, jobs>>

\* A switch saves the opposite of what it shows; the password login, when it is
\* on, is switched off after a warning.
Switch(k) ==
  /\ Legacy /\ Is(k, {"switch", "guarded"})
  /\ IF Is(k, {"guarded"}) /\ ui.inputs[k] = "true" /\ ~ui.asking
     THEN /\ hist.asked < MaxAsked
          /\ ui' = [ui EXCEPT !.asking = TRUE]
          /\ hist' = [hist EXCEPT !.asked = @ + 1]
          /\ UNCHANGED <<section, server, jobs>>
     ELSE Saves(k, Flip(ui.inputs[k]), Saving)
Warned(k) ==
  /\ ui.asking /\ Is(k, {"guarded"})
  /\ \/ Saves(k, Flip(ui.inputs[k]), [Saving EXCEPT !.asking = FALSE])
     \/ ui' = [ui EXCEPT !.asking = FALSE] /\ UNCHANGED <<section, server, jobs, hist>>

BugDiffersAlways(k, inputs) == inputs[k] # Absent

\* Whether the button saves the field, given the inputs it was clicked with.
Differs(k, inputs) == inputs[k] # ui.origin[k]
Sends(k, inputs) ==
  CASE Is(k, {"always", "address"}) -> TRUE
    [] Is(k, {"filled", "secret", "spelled"}) -> Differs(k, inputs) /\ inputs[k] # Blank
    [] Is(k, {"gated"}) -> /\ Differs(k, inputs) /\ (ui.loaded \/ inputs[k] # Blank)
                           /\ \A g \in Fields : Is(g, {"gate"}) => inputs[g] # Blank
    [] Is(k, Switches \cup {"stuck", "gate"}) -> FALSE
    [] OTHER -> Differs(k, inputs)
Stops(k, inputs) == Is(k, {"checked"}) /\ Sends(k, inputs) /\ inputs[k] \in {"bad", Blank}
\* What is not JSON ends the submission: the fields behind it are not saved.
Before(k, inputs) == \A j \in 1..k : ~Stops(j, inputs)
Queue(inputs) ==
  [k \in {j \in Fields : Sends(j, inputs) /\ Before(j, inputs)} |->
     IF Is(k, Trimming) THEN Trim(inputs[k]) ELSE inputs[k]]

Wells == {k \in Fields : Is(k, {"well"})}
Found(k) == Is(k, {"found", "endpoint"})
ButtonFields == {k \in Fields : ~Is(k, Switches \cup {"gate"})}

\* submitSMTP, submitConfig and the others.
Submit ==
  LET queue == Queue(ui.inputs)
  IN  /\ Legacy /\ HasButton
      /\ \A k \in Wells : ui.inputs[k] = Blank
      /\ Acts(Saver(queue), [ui EXCEPT !.busy = @ \/ DOMAIN queue # {}],
              ButtonFields, {k \in ButtonFields : ~Before(k, ui.inputs)})

\* submitOidc looks the endpoints up first, and does not say that it is busy; it
\* works on the inputs it was started with.
SubmitOidc ==
  /\ Legacy /\ HasButton
  /\ \E k \in Wells :
       \/ /\ ui.inputs[k] \notin {Blank, "bad"}
          /\ Acts(Handler("find", Nothing, ui.inputs), ui, ButtonFields, {})
       \/ /\ ui.inputs[k] = "bad"
          /\ Acts(Saver(Nothing), ui, ButtonFields, ButtonFields)
OidcFound(s) ==
  /\ ~InConsole /\ Busy(s) /\ jobs[s].op = "find"
  /\ \E v \in {"a", "b", None} :
       LET inputs == [k \in Fields |-> IF Found(k) /\ v # None THEN v ELSE jobs[s].data[k]]
           queue == Queue(inputs)
       IN  /\ v = None => Trouble
           /\ ui' = [ui EXCEPT !.inputs = IF @ = jobs[s].data THEN inputs ELSE @,
                               !.busy = @ \/ DOMAIN queue # {}]
           /\ jobs' = [jobs EXCEPT ![s] = Then(queue)]
           /\ hist' = [hist EXCEPT !.troubles = IF v = None THEN @ + 1 ELSE @,
                                   !.touched = @ \cup {k \in Fields : Found(k)}]
  /\ UNCHANGED <<section, server>>

LegacyNext ==
  \/ \E k \in Fields : (\E v \in Texts(k) : Enter(k, v)) \/ Switch(k) \/ Warned(k)
  \/ Submit \/ SubmitOidc
  \/ \E s \in Slots : Updated(s) \/ OidcFound(s)

-----------------------------------------------------------------------------
(* The console: SystemSettings and SsoSetup                                *)

Boxes == {k \in Fields : ~Is(k, Switches \cup {"lookup"})}
Known(k) == IF ui.inputs[k] = Absent THEN Blank ELSE ui.inputs[k]
\* A field shows what was entered, or else what the component knows.
Box(k) == IF ui.kept[k] # None THEN ui.kept[k] ELSE IF Is(k, {"hidden"}) THEN Blank ELSE Known(k)

\* save: shown as saved at once.
Shown(u, k, v) == [u EXCEPT !.inputs[k] = v]
Save(k, v, u) == Saves(k, v, Shown(u, k, v))

\* A field is left with v in it: what is known, or nothing, is not saved.
Leave(k, v) ==
  LET u == IF v = Box(k) THEN ui ELSE [ui EXCEPT !.kept[k] = v]
  IN  /\ InConsole /\ ui.loaded /\ k \in Boxes /\ v \in Texts(k)
      /\ IF v # Known(k) /\ (v # Blank \/ Is(k, {"area"}))
         THEN Save(k, v, u)
         ELSE /\ u # ui /\ hist.asked < MaxAsked
              /\ ui' = u
              /\ hist' = [hist EXCEPT !.asked = @ + 1, !.meant = IF v = Known(k) THEN @ ELSE @ \ {k}]
              /\ UNCHANGED <<section, server, jobs>>

BugReadyWithClient == \A k \in Boxes : Is(k, {"text"}) => Known(k) # Blank

\* Single sign-on is switched on when the client and the endpoints are known.
Ready == \A k \in Boxes : Known(k) # Blank
Click(k) ==
  /\ InConsole /\ ui.loaded /\ Is(k, {"switch", "enable"})
  /\ Is(k, {"enable"}) => Ready
  /\ Save(k, Flip(ui.inputs[k]), ui)

\* pickPreset, and the address entered; discover asks the server to look it up.
PickWell(k, v) ==
  /\ InConsole /\ ui.loaded /\ Is(k, {"lookup"}) /\ v \in Texts(k) \ {ui.kept[k]}
  /\ hist.asked < MaxAsked
  /\ ui' = [ui EXCEPT !.kept[k] = v]
  /\ hist' = [hist EXCEPT !.asked = @ + 1, !.meant = @ \ {k}]
  /\ UNCHANGED <<section, server, jobs>>
Discover(k) ==
  /\ InConsole /\ ui.loaded /\ Is(k, {"lookup"}) /\ ui.kept[k] # Blank /\ ~ui.busy
  /\ Acts(Handler("find", Nothing, [j \in {k} |-> ui.kept[k]]), [ui EXCEPT !.busy = TRUE], {}, {})
\* What was found is saved one by one, the address last.
Discovered(s) ==
  /\ InConsole /\ Busy(s) /\ jobs[s].op = "find"
  /\ \/ /\ Trouble
        /\ \E hung \in BOOLEAN : ui' = [ui EXCEPT !.busy = hung]
        /\ jobs' = [jobs EXCEPT ![s] = Nobody]
        /\ hist' = [hist EXCEPT !.troubles = @ + 1]
     \/ \E v \in {"a", "b"} :
          LET queue == [k \in {j \in Fields : Found(j) \/ Is(j, {"lookup"})} |->
                          IF Found(k) THEN v ELSE jobs[s].data[k]]
          IN  /\ ui' = Shown([ui EXCEPT !.busy = FALSE], First(queue), queue[First(queue)])
              /\ jobs' = [jobs EXCEPT ![s] = Saver(queue)]
              /\ hist' = [hist EXCEPT !.touched = @ \cup DOMAIN queue, !.meant = @ \cup DOMAIN queue,
                                      !.unsaved = @ \ DOMAIN queue]
  /\ UNCHANGED <<section, server>>
\* The answer is not looked at: a refused save is shown as a saved one.
Saved(s) ==
  LET rest == Rest(jobs[s].queue)
  IN  /\ InConsole /\ Busy(s) /\ jobs[s].op = "save" /\ jobs[s].phase = "served"
      /\ ui' = IF DOMAIN rest = {} THEN ui ELSE Shown(ui, First(rest), rest[First(rest)])
      /\ jobs' = [jobs EXCEPT ![s] = Then(rest)]
      /\ hist' = [hist EXCEPT !.unsaved = IF jobs[s].ok THEN @ ELSE @ \cup {First(jobs[s].queue)}]
      /\ UNCHANGED <<section, server>>

ConsoleNext ==
  \/ \E k \in Fields :
       \/ \E v \in Texts(k) : Leave(k, v) \/ PickWell(k, v)
       \/ Click(k) \/ Discover(k)
  \/ \E s \in Slots : Discovered(s) \/ Saved(s)

-----------------------------------------------------------------------------
\* The options of a fresh server, or of one in use, which has the switches on.
Fresh(k) == IF Is(k, Switches) THEN "false" ELSE IF Is(k, {"checked"}) THEN EmptyMap ELSE Blank
InUse(k) == IF Is(k, Switches) THEN "true" ELSE "a"
Init ==
  /\ section \in Studied
  /\ server \in {[k \in Fields |-> Fresh(k)], [k \in Fields |-> InUse(k)]}
  /\ ui = [inputs |-> [k \in Fields |-> Blank], origin |-> [k \in Fields |-> Absent],
           kept |-> [k \in Fields |-> IF Is(k, {"stuck", "lookup"}) THEN Blank ELSE None],
           loaded |-> FALSE, busy |-> FALSE, asking |-> FALSE]
  /\ jobs = [s \in Slots |-> IF s = CHOOSE first \in Slots : TRUE
                             THEN Handler("load", Nothing, Nothing) ELSE Nobody]
  /\ hist = [asked |-> 0, troubles |-> 0, meant |-> {}, told |-> {}, touched |-> {}, foreign |-> {},
             blind |-> FALSE, raced |-> FALSE, unsaved |-> {}]
Next ==
  \/ \E s \in Slots : Serve(s) \/ Lost(s) \/ Loaded(s)
  \/ \E k \in Fields : Elsewhere(k)
  \/ LegacyNext \/ ConsoleNext
Spec == Init /\ [][Next]_vars

-----------------------------------------------------------------------------
\* A field that its button does not save although it shows something else than
\* the server has: it was changed back to what was loaded, or is never blank;
\* the list of default, and that of air once the token was cleared, are not
\* saved at all.
Unsendable(k) ==
  IF InConsole THEN Is(k, {"endpoint"}) /\ ui.kept[k] # None
  ELSE ui.inputs[k] = Absent \/ ~(Is(k, Switches \cup {"typed", "spelled"}) \/ Sends(k, ui.inputs))

\* At rest, what root meant to save on a page that was loaded is what the server
\* has, whichever of its saves were refused or lost half-way, and whatever other
\* handlers did meanwhile.  Excepted are the options somebody else changed; on the
\* inherited pages those an error was shown for; on the console, which looks at no
\* answer, those whose last save was refused or lost (unsaved); those no button
\* sends (Unsendable); and the whole page once something was asked before it was
\* loaded (blind), or two handlers that save the same option, or look up,
\* overlapped (raced).
SavedMeansSaved ==
  Quiet /\ ui.loaded /\ ~hist.blind /\ ~hist.raced =>
    \A k \in hist.meant \ (hist.told \cup hist.foreign \cup hist.unsaved) :
      Unsendable(k) \/ Display(server[k]) = IF InConsole /\ k \in Boxes THEN Box(k) ELSE ui.inputs[k]

\* Saving a section leaves alone the options root has not entered, also those
\* that somebody else changes meanwhile; a button that saves one option saves it
\* whatever it shows.
OthersChangesStand ==
  [][\A k \in DOMAIN server :
       server'[k] # server[k] /\ jobs' # jobs =>
         k \in hist.touched \/ hist.blind \/ Is(k, {"always", "address"})]_vars

\* Single sign-on is never on without its client and endpoints, in whatever
\* order the saves arrive, if nobody interfered; a field that is missing is one
\* whose last save was refused or lost, of which the console says nothing.
SignOnIsComplete ==
  section = "console/sso" /\ Quiet /\ hist.foreign = {} =>
    \A k \in Fields : Is(k, {"enable"}) /\ server[k] = "true" =>
      \A b \in Boxes \ hist.unsaved : server[b] # Blank
=============================================================================
