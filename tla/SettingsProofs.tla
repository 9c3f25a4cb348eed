---------------------------- MODULE SettingsProofs ----------------------------
(***************************************************************************)
(* Proofs about Settings: what an inductive invariant says of the saves    *)
(* that are under way, of what the page shows and of what the server has,  *)
(* and the safety properties that follow from it.                          *)
(***************************************************************************)
EXTENDS Settings, Sequences, TLAPS

-----------------------------------------------------------------------------
(* The sections                                                            *)

LegacyRules == {"changed", "trimmed", "filled", "secret", "checked", "gated", "gate", "stuck",
                "always", "address", "typed", "spelled", "switch", "guarded", "well", "found"}
Typing == {"typed", "spelled"}

\* Up to four fields; in default and air nothing is looked up, and fields that
\* are saved with every key are among themselves; in berry and in the console
\* there are none of those, and what is looked up is on a page of its own.
Short(rules) == {r \in Seq(rules) : Len(r) <= 4}
CoveredRules ==
  {r \in Short(LegacyRules \ {"well", "found"}) :
     \A i, j \in DOMAIN r : r[i] \in Typing => r[j] \in Typing}
OpenRules ==
  {r \in Short(LegacyRules \ Typing) :
     \A i, j \in DOMAIN r : r[i] \in {"well"} => r[j] \in {"well", "secret", "found"}}
SystemRules == <<"text", "hidden", "area", "switch">>
SsoRules == <<"text", "endpoint", "lookup", "enable">>

Has(f, T) == f \in [DOMAIN f -> T]

(* Sections of one sort put together are of that sort. *)
LEMMA Joined ==
  ASSUME NEW T
  PROVE  /\ \A n, r : r \in T => Has(n :> r, T)
         /\ \A f, g : Has(f, T) /\ Has(g, T) => Has(f @@ g, T)
BY DEF Has, :>, @@

(* Every section of default and of air is as CoveredRules says. *)
LEMMA CoveredAre == Has(DefaultSections, CoveredRules) /\ Has(AirSections, CoveredRules)
<1> DEFINE T == CoveredRules
<1>1. /\ <<"address">> \in T /\ <<"guarded", "switch">> \in T /\ <<"stuck", "switch">> \in T
      /\ <<"changed", "changed", "filled", "secret">> \in T /\ Pair \in T
      /\ <<"trimmed", "changed", "secret">> \in T
  BY DEF CoveredRules, Short, LegacyRules, Typing, Pair
<1>2. /\ <<"changed", "changed">> \in T /\ <<"checked", "checked">> \in T /\ <<"switch">> \in T
      /\ <<"changed", "changed", "switch">> \in T /\ <<"always">> \in T
      /\ <<"gated", "gate", "switch">> \in T /\ <<"typed", "spelled">> \in T
  BY DEF CoveredRules, Short, LegacyRules, Typing
<1> HIDE DEF T
<1>3. Has(DefaultSystem, T) /\ Has(DefaultSwitches, T)
  BY <1>1, Joined, Zenon DEF DefaultSystem, DefaultSwitches, DefaultGeneral, DefaultLogin,
     DefaultDomains, DefaultSmtp, DefaultGitHub, DefaultLark, DefaultWeChat, DefaultTurnstile
<1>4. Has(DefaultOperation, T) /\ Has(DefaultOperationSwitches, T) /\ Has(DefaultOther, T)
  BY <1>2, Joined, Zenon DEF DefaultOperation, DefaultOperationSwitches, DefaultOther, DefaultQuota,
     DefaultRatio, DefaultLog, DefaultMonitor, DefaultGeneralOperation, DefaultNotice
<1>5. Has(AirSystem, T) /\ Has(AirSwitches, T)
  BY <1>1, <1>2, Joined, Zenon DEF AirSystem, AirSwitches, AirGeneral, AirLogin,
     AirDomains, AirSmtp, AirGitHub, AirWeChat, AirPusher, AirTurnstile
<1>6. Has(AirOperation, T) /\ Has(AirOperationSwitches, T) /\ Has(AirOther, T)
  BY <1>2, Joined, Zenon DEF AirOperation, AirOperationSwitches, AirOther, AirQuota,
     AirRatio, AirLog, AirMonitor, AirGeneralOperation, AirNotice
<1>7. Has(DefaultSections, T)
  BY <1>3, <1>4, Joined, Zenon DEF DefaultSections
<1>8. Has(AirSections, T)
  BY <1>5, <1>6, Joined, Zenon DEF AirSections
<1> QED
  BY <1>7, <1>8 DEF T

(* Every section of berry is as OpenRules says. *)
LEMMA OpenAre == Has(BerrySections, OpenRules)
<1> DEFINE T == OpenRules
<1>1. /\ <<"address">> \in T /\ <<"guarded", "switch">> \in T /\ <<"always", "switch">> \in T
      /\ <<"changed", "changed", "filled", "secret">> \in T /\ Pair \in T
      /\ <<"trimmed", "changed", "secret">> \in T /\ <<"well", "secret", "found">> \in T
      /\ <<"trimmed", "secret">> \in T
  BY DEF OpenRules, Short, LegacyRules, Typing, Pair
<1>2. /\ <<"changed", "changed">> \in T /\ <<"checked", "checked">> \in T /\ <<"switch">> \in T
      /\ <<"changed", "changed", "switch">> \in T /\ <<"always">> \in T
  BY DEF OpenRules, Short, LegacyRules, Typing
<1> HIDE DEF T
<1>3. Has(BerrySystem, T) /\ Has(BerrySwitches, T)
  BY <1>1, Joined, Zenon DEF BerrySystem, BerrySwitches, BerryGeneral, BerryLogin, BerryDomains,
     BerrySmtp, BerryGitHub, BerryLark, BerryWeChat, BerryOidc, BerryPusher, BerryTurnstile
<1>4. Has(BerryOperation, T) /\ Has(BerryOperationSwitches, T) /\ Has(BerryOther, T)
  BY <1>2, Joined, Zenon DEF BerryOperation, BerryOperationSwitches, BerryOther, BerryQuota,
     BerryRatio, BerryLog, BerryMonitor, BerryGeneralOperation, BerryNotice, BerryLook
<1> QED
  BY <1>3, <1>4, Joined, Zenon DEF BerrySections, T

(* The sections of the console are called like no section of another page. *)
LEMMA ConsoleApart ==
  /\ DOMAIN ConsoleSections = {"console/system", "console/sso"}
  /\ ConsoleSections["console/system"] = SystemRules
  /\ ConsoleSections["console/sso"] = SsoRules
  /\ DOMAIN ConsoleSections
       \cap (DOMAIN DefaultSections \cup DOMAIN AirSections \cup DOMAIN BerrySections) = {}
<1>1. /\ DOMAIN ConsoleSections = {"console/system", "console/sso"}
      /\ ConsoleSections["console/system"] = SystemRules
      /\ ConsoleSections["console/sso"] = SsoRules
  BY DEF ConsoleSections, ConsoleSystem, ConsoleSso, SystemRules, SsoRules, :>, @@
<1> DEFINE Apart(f) == "console/system" \notin DOMAIN f /\ "console/sso" \notin DOMAIN f
<1>2. /\ \A n, r : n # "console/system" /\ n # "console/sso" => Apart(n :> r)
      /\ \A f, g : Apart(f) /\ Apart(g) => Apart(f @@ g)
  BY DEF :>, @@
<1> HIDE DEF Apart
<1>3. Apart(DefaultSections)
  BY <1>2 DEF DefaultSections, DefaultSystem, DefaultSwitches, DefaultOperation,
     DefaultOperationSwitches, DefaultOther
<1>4. Apart(AirSections)
  BY <1>2 DEF AirSections, AirSystem, AirSwitches, AirOperation, AirOperationSwitches, AirOther
<1>5. Apart(BerrySections)
  BY <1>2 DEF BerrySections, BerrySystem, BerrySwitches, BerryOperation, BerryOperationSwitches,
     BerryOther
<1> QED
  BY <1>1, <1>3, <1>4, <1>5 DEF Apart

(* The names and the rules of all sections. *)
LEMMA SectionNames ==
  LET d == DefaultSections  a == AirSections  b == BerrySections  c == ConsoleSections
  IN  /\ DOMAIN Sections = DOMAIN d \cup DOMAIN a \cup DOMAIN b \cup DOMAIN c
      /\ \A n \in DOMAIN Sections :
           Sections[n] = IF n \in DOMAIN d THEN d[n]
                         ELSE IF n \in DOMAIN a THEN a[n]
                         ELSE IF n \in DOMAIN b THEN b[n] ELSE c[n]
<1> DEFINE d == DefaultSections
           a == AirSections
           b == BerrySections
           c == ConsoleSections
           da == d @@ a
           dab == da @@ b
<1>1. /\ DOMAIN da = DOMAIN d \cup DOMAIN a
      /\ \A n \in DOMAIN da : da[n] = IF n \in DOMAIN d THEN d[n] ELSE a[n]
  BY DEF @@
<1>2. /\ DOMAIN dab = DOMAIN da \cup DOMAIN b
      /\ \A n \in DOMAIN dab : dab[n] = IF n \in DOMAIN da THEN da[n] ELSE b[n]
  <2> HIDE DEF da
  <2> QED
    BY DEF @@
<1>3. /\ DOMAIN (dab @@ c) = DOMAIN dab \cup DOMAIN c
      /\ \A n \in DOMAIN (dab @@ c) : (dab @@ c)[n] = IF n \in DOMAIN dab THEN dab[n] ELSE c[n]
  <2> HIDE DEF dab
  <2> QED
    BY DEF @@
<1>4. Sections = dab @@ c
  BY Zenon DEF Sections
<1> HIDE DEF da, dab
<1> QED
  BY <1>1, <1>2, <1>3, <1>4

(* What sort of section root works on. *)
LEMMA SectionSorts ==
  ASSUME section \in Studied
  PROVE  /\ Covered => Rules \in CoveredRules /\ ~InConsole
         /\ ~Covered /\ ~InConsole => Rules \in OpenRules
         /\ InConsole => Rules \in {SystemRules, SsoRules}
         /\ section = "console/sso" => InConsole /\ Rules = SsoRules
<1> DEFINE Dn == DOMAIN DefaultSections
           An == DOMAIN AirSections
           Bn == DOMAIN BerrySections
           Cn == DOMAIN ConsoleSections
<1>1. DOMAIN Sections = Dn \cup An \cup Bn \cup Cn
  BY SectionNames
<1>2. section \in Dn \cup An \cup Bn \cup Cn
  BY <1>1, SettingsAssumption DEF SettingsAssumption
<1>3. Rules = IF section \in Dn THEN DefaultSections[section]
              ELSE IF section \in An THEN AirSections[section]
              ELSE IF section \in Bn THEN BerrySections[section]
              ELSE ConsoleSections[section]
  <2>1. section \in DOMAIN Sections
    BY <1>1, <1>2
  <2> QED
    BY <2>1, SectionNames DEF Rules
<1>4. /\ Covered <=> section \in Dn \cup An
      /\ InConsole <=> section \in Cn
  BY DEF Covered, InConsole
<1>5. /\ section \in Dn => DefaultSections[section] \in CoveredRules
      /\ section \in An => AirSections[section] \in CoveredRules
  BY CoveredAre DEF Has
<1>6. section \in Bn => BerrySections[section] \in OpenRules
  BY OpenAre DEF Has
<1>7. section \in Cn => section \notin Dn \cup An \cup Bn
  BY ConsoleApart
<1>8. /\ section \in Cn => ConsoleSections[section] \in {SystemRules, SsoRules}
      /\ section = "console/sso" => section \in Cn /\ ConsoleSections[section] = SsoRules
  BY ConsoleApart
<1> HIDE DEF Dn, An, Bn, Cn
<1> QED
  BY <1>2, <1>3, <1>4, <1>5, <1>6, <1>7, <1>8

(* The fields are numbered from 1, up to 4 of them; what their rules exclude. *)
LEMMA FieldFacts ==
  ASSUME section \in Studied
  PROVE  /\ Fields \in SUBSET (1..4)
         /\ \A k \in Fields : Rules[k] \in LegacyRules \cup {"text", "hidden", "area", "lookup", "endpoint", "enable"}
         /\ ~InConsole => \A k \in Fields : Rules[k] \in LegacyRules
         /\ InConsole => \A k \in Fields :
              Rules[k] \in {"text", "hidden", "area", "switch", "lookup", "endpoint", "enable"}
         /\ Covered => ~InConsole /\ Wells = {}
         /\ \A j, k \in Fields : Rules[j] \in Typing => Rules[k] \in Typing /\ Covered
         /\ ~InConsole /\ Wells # {} => \A k \in Fields : Rules[k] \in {"well", "secret", "found"}
         /\ \A j, k \in Fields : Rules[j] = "lookup" /\ Rules[k] = "lookup" => j = k
         /\ InConsole /\ (\E j \in Fields : Rules[j] = "lookup") => Rules = SsoRules
         /\ section = "console/sso" => InConsole /\ Rules = SsoRules /\ Fields = 1..4
<1>1. CASE Covered
  <2>1. Rules \in CoveredRules /\ ~InConsole
    BY <1>1, SectionSorts
  <2>2. Fields \in SUBSET (1..4) /\ \A k \in Fields : Rules[k] \in LegacyRules \ {"well", "found"}
    BY <2>1 DEF CoveredRules, Short, Fields
  <2>3. Wells = {}
    BY <2>2 DEF Wells, Is, LegacyRules
  <2>4. section # "console/sso"
    BY <2>1, SectionSorts
  <2> QED
    BY <1>1, <2>1, <2>2, <2>3, <2>4 DEF CoveredRules, LegacyRules, Typing, Fields
<1>2. CASE ~Covered /\ ~InConsole
  <2>1. Rules \in OpenRules
    BY <1>2, SectionSorts
  <2>2. Fields \in SUBSET (1..4) /\ \A k \in Fields : Rules[k] \in LegacyRules \ Typing
    BY <2>1 DEF OpenRules, Short, Fields
  <2>3. Wells # {} => \A k \in Fields : Rules[k] \in {"well", "secret", "found"}
    BY <2>1 DEF OpenRules, Wells, Is, Fields
  <2>4. section # "console/sso"
    BY <1>2, SectionSorts
  <2> QED
    BY <1>2, <2>2, <2>3, <2>4 DEF LegacyRules, Typing
<1>3. CASE InConsole
  <2>1. Rules \in {SystemRules, SsoRules} /\ ~Covered
    BY <1>3, SectionSorts
  <2>2. section = "console/sso" => Rules = SsoRules
    BY SectionSorts
  <2>3. CASE Rules = SystemRules
    BY <1>3, <2>1, <2>2, <2>3 DEF SystemRules, SsoRules, Fields, Typing, LegacyRules
  <2>4. CASE Rules = SsoRules
    BY <1>3, <2>1, <2>2, <2>4 DEF SystemRules, SsoRules, Fields, Typing, LegacyRules
  <2> QED
    BY <2>1, <2>3, <2>4
<1> QED
  BY <1>1, <1>2, <1>3

-----------------------------------------------------------------------------
(* Types                                                                   *)

Values == {Blank, "a", "b", "a/", "bad", "true", "false", Absent, None}
Stored == Values \cup {EmptyMap}
Maps(S) == UNION {[K -> S] : K \in SUBSET Fields}
Job == [op : {"save", "find", "load"}, queue : Maps(Values), data : Maps(Stored),
        phase : {"asked", "served"}, ok : BOOLEAN]
UiType == [inputs : [Fields -> Values], origin : [Fields -> Values], kept : [Fields -> Values],
           loaded : BOOLEAN, busy : BOOLEAN, asking : BOOLEAN]
HistType == [asked : Nat, troubles : Nat, meant : SUBSET Fields, told : SUBSET Fields,
             touched : SUBSET Fields, foreign : SUBSET Fields,
             unsaved : SUBSET Fields, blind : BOOLEAN, raced : BOOLEAN]

\* Only a field that should be JSON can be an empty map.
Mapped(options) == \A k \in Fields : options[k] = EmptyMap => Is(k, {"checked"})

TypeInv ==
  /\ section \in Studied
  /\ server \in [Fields -> Stored] /\ Mapped(server)
  /\ ui \in UiType
  /\ jobs \in [Slots -> Job \cup {Nobody}]
  /\ hist \in HistType

Does(s, op) == jobs[s].op = op

\* What a handler under way holds; only one of them loads.
JobInv ==
  \A s \in Slots :
    /\ Does(s, "load") => \A t \in Slots : Does(t, "load") => t = s
    /\ Does(s, "save") =>
         /\ DOMAIN jobs[s].queue # {}
         /\ ~InConsole => \A k \in DOMAIN jobs[s].queue : ~Is(k, {"gate"})
    /\ Does(s, "load") =>
         /\ ~ui.loaded /\ DOMAIN jobs[s].queue = {}
         /\ jobs[s].phase = "served" => DOMAIN jobs[s].data = Fields /\ Mapped(jobs[s].data)
    /\ Does(s, "find") =>
         /\ DOMAIN jobs[s].queue = {} /\ jobs[s].data \in Maps(Values)
         /\ InConsole => \E k \in Fields : Is(k, {"lookup"}) /\ k \in DOMAIN jobs[s].data
         /\ ~InConsole => Wells # {} /\ DOMAIN jobs[s].data = Fields

-----------------------------------------------------------------------------
(* Values, maps and queues                                                 *)

(* What is entered, trimmed, flipped and displayed are values of the
   interface, and the literals are different values. *)
LEMMA ValueFacts ==
  /\ \A k : Texts(k) \subseteq Values \ {Absent, None}
  /\ \A v \in Values : Trim(v) \in Values /\ Flip(v) \in Values \ {Absent, None, Blank}
  /\ \A v \in Values : Display(v) = v /\ (v # Absent => Trim(v) # Absent)
  /\ \A v \in Values : v # Blank => Trim(v) # Blank
  /\ \A v \in Stored : Display(v) \in Values
  /\ EmptyMap \notin Values /\ Blank # Absent /\ None # Absent /\ None # Blank
  /\ {"a", "b", "true", "false", Blank} \subseteq Values \ {Absent, None}
  /\ Blank \notin {"a", "b", "true", "false", "bad"}
  /\ Absent \in Values /\ None \in Values /\ Values \subseteq Stored
<1>1. /\ EmptyMap \notin Values /\ Blank # Absent /\ None # Absent /\ None # Blank
      /\ {"a", "b", "true", "false", Blank, "a/", "bad"} \subseteq Values \ {Absent, None}
      /\ Blank \notin {"a", "b", "true", "false", "bad"} /\ "a" # Absent
  BY Zenon DEF EmptyMap, Blank, Absent, None, Values
<1>2. \A v \in Values : v # EmptyMap
  BY <1>1
<1>3. \A v \in Values : Display(v) = v
  BY <1>2, Zenon DEF Display
<1>4. \A v \in Stored : Display(v) \in Values
  BY <1>1, <1>2 DEF Display, Stored
<1>5. \A k : Texts(k) \subseteq Values \ {Absent, None}
  <2> SUFFICES ASSUME NEW k PROVE Texts(k) \subseteq Values \ {Absent, None}
    OBVIOUS
  <2> QED
    BY <1>1, Zenon DEF Texts
<1>6. \A v \in Values : Trim(v) \in Values /\ (v # Absent => Trim(v) # Absent)
                          /\ (v # Blank => Trim(v) # Blank)
  BY <1>1, Zenon DEF Trim
<1>7. \A v \in Values : Flip(v) \in Values \ {Absent, None, Blank}
  BY <1>1, Zenon DEF Flip
<1>8. Absent \in Values /\ None \in Values /\ Values \subseteq Stored
  BY Zenon DEF Values, Stored
<1> QED
  BY <1>1, <1>3, <1>4, <1>5, <1>6, <1>7, <1>8

(* What it is to be in Maps. *)
LEMMA MapFacts ==
  ASSUME NEW S
  PROVE  /\ \A q \in Maps(S) : DOMAIN q \subseteq Fields /\ q \in [DOMAIN q -> S]
         /\ \A K \in SUBSET Fields : \A q \in [K -> S] : q \in Maps(S)
BY DEF Maps

(* The first field of a queue is one of its fields, and the least. *)
LEMMA FirstIn ==
  ASSUME section \in Studied, NEW q, DOMAIN q \subseteq Fields, DOMAIN q # {}
  PROVE  First(q) \in DOMAIN q /\ \A k \in DOMAIN q : First(q) <= k
<1> DEFINE K == DOMAIN q
<1>1. K \subseteq 1..4 /\ K # {}
  BY FieldFacts
<1>2. \E k \in K : \A j \in K : k <= j
  <2> HIDE DEF K
  <2>1. CASE 1 \in K
    BY <1>1, <2>1
  <2>2. CASE 1 \notin K /\ 2 \in K
    BY <1>1, <2>2
  <2>3. CASE 1 \notin K /\ 2 \notin K /\ 3 \in K
    BY <1>1, <2>3
  <2>4. CASE 1 \notin K /\ 2 \notin K /\ 3 \notin K
    <3>1. \A k \in K : k \in 1..4 /\ k # 1 /\ k # 2 /\ k # 3
      BY <1>1, <2>4, Zenon
    <3>2. \A k \in K : k = 4
      BY <3>1
    <3>3. 4 \in K /\ \A j \in K : 4 <= j
      <4>1. PICK x : x \in K
        BY <1>1, Zenon
      <4>2. 4 \in K
        BY <3>2, <4>1, Zenon
      <4>3. \A j \in K : 4 <= j
        BY <3>2
      <4> QED
        BY <4>2, <4>3
    <3> QED
      BY <3>3, Zenon
  <2> QED
    BY <2>1, <2>2, <2>3, <2>4
<1>3. First(q) = CHOOSE k \in K : \A j \in K : k <= j
  BY DEF First, Min
<1> HIDE DEF K
<1>4. First(q) \in K /\ \A j \in K : First(q) <= j
  BY <1>2, <1>3
<1> QED
  BY <1>4 DEF K

(* The rest of a queue is the queue without its first save. *)
LEMMA RestFacts ==
  ASSUME NEW S, NEW q \in Maps(S)
  PROVE  /\ Rest(q) \in Maps(S)
         /\ DOMAIN Rest(q) = DOMAIN q \ {First(q)}
         /\ \A k \in DOMAIN Rest(q) : Rest(q)[k] = q[k]
<1>1. DOMAIN q \subseteq Fields /\ q \in [DOMAIN q -> S]
  BY MapFacts
<1>2. /\ DOMAIN Rest(q) = DOMAIN q \ {First(q)}
      /\ \A k \in DOMAIN Rest(q) : Rest(q)[k] = q[k]
      /\ Rest(q) \in [DOMAIN q \ {First(q)} -> S]
  BY <1>1 DEF Rest
<1>3. Rest(q) \in Maps(S)
  BY <1>1, <1>2, MapFacts
<1> QED
  BY <1>2, <1>3

(* Nothing to save, and a single save. *)
LEMMA SmallQueues ==
  /\ DOMAIN Nothing = {} /\ \A S : Nothing \in Maps(S)
  /\ \A k \in Fields : \A S : \A v \in S :
       /\ [j \in {k} |-> v] \in Maps(S) /\ DOMAIN [j \in {k} |-> v] = {k}
       /\ [j \in {k} |-> v][k] = v
<1>1. DOMAIN Nothing = {}
  BY DEF Nothing
<1>2. ASSUME NEW S PROVE Nothing \in Maps(S)
  <2>1. {} \in SUBSET Fields /\ Nothing \in [{} -> S]
    BY DEF Nothing
  <2> QED
    BY <2>1, MapFacts
<1>3. ASSUME NEW k \in Fields, NEW S, NEW v \in S
      PROVE  /\ [j \in {k} |-> v] \in Maps(S) /\ DOMAIN [j \in {k} |-> v] = {k}
             /\ [j \in {k} |-> v][k] = v
  <2>1. {k} \in SUBSET Fields /\ [j \in {k} |-> v] \in [{k} -> S]
    OBVIOUS
  <2> QED
    BY <2>1, MapFacts
<1> QED
  BY <1>1, <1>2, <1>3

(* A handler that is under way is a job, and one that is not is none. *)
LEMMA JobFacts ==
  ASSUME TypeInv
  PROVE  \A s \in Slots :
           /\ Busy(s) <=> jobs[s].op \in {"save", "find", "load"}
           /\ Busy(s) => jobs[s] \in Job
           /\ ~Busy(s) => jobs[s].op = "none" /\ jobs[s] = Nobody
BY DEF TypeInv, Busy, Job, Nobody

-----------------------------------------------------------------------------
(* Steps                                                                   *)

(* Nothing of the section changes with a step. *)
LEMMA SameSection ==
  ASSUME section' = section
  PROVE  /\ Rules' = Rules /\ Fields' = Fields /\ InConsole' = InConsole /\ Covered' = Covered
         /\ Boxes' = Boxes /\ Wells' = Wells
<1>1. Rules' = Rules /\ Fields' = Fields
  BY DEF Rules, Fields
<1>2. InConsole' = InConsole /\ Covered' = Covered
  BY DEF InConsole, Covered
<1>3. Boxes' = Boxes /\ Wells' = Wells
  BY <1>1 DEF Boxes, Wells, Is, Switches
<1> QED
  BY <1>1, <1>2, <1>3

(* A handler that saves. *)
LEMMA SaverFacts ==
  ASSUME NEW q \in Maps(Values)
  PROVE  LET j == Saver(q)
         IN  /\ j \in Job /\ j # Nobody
             /\ j.op = "save" /\ j.queue = q /\ j.phase = "asked" /\ j.ok = TRUE
<1>1. Nothing \in Maps(Stored)
  BY SmallQueues, Zenon
<1>2. "save" \in {"save", "find", "load"}
  OBVIOUS
<1> DEFINE h == Handler("save", q, Nothing)
<1>3. /\ h \in Job /\ h # Nobody
      /\ h.op = "save" /\ h.queue = q /\ h.phase = "asked" /\ h.ok = TRUE
  BY <1>1, <1>2 DEF Handler, Job, Nobody
<1>4. Saver(q) = h
  BY DEF Saver
<1> HIDE DEF h
<1> QED
  BY <1>3, <1>4, Zenon

(* The idle handler has an operation of its own. *)
LEMMA NobodyFacts == Nobody.op = "none"
BY DEF Nobody

(* What a button saves. *)
LEMMA QueueFacts ==
  ASSUME section \in Studied, NEW inputs \in [Fields -> Values]
  PROVE  /\ Queue(inputs) \in Maps(Values)
         /\ \A k \in DOMAIN Queue(inputs) :
              /\ k \in Fields /\ Sends(k, inputs)
              /\ Queue(inputs)[k] = IF Is(k, Trimming) THEN Trim(inputs[k]) ELSE inputs[k]
         /\ \A k \in Fields :
              Sends(k, inputs) /\ Before(k, inputs) => k \in DOMAIN Queue(inputs)
<1> DEFINE K == {j \in Fields : Sends(j, inputs) /\ Before(j, inputs)}
           val(k) == IF Is(k, Trimming) THEN Trim(inputs[k]) ELSE inputs[k]
           q == [k \in K |-> val(k)]
<1>1. Queue(inputs) = q
  BY Zenon DEF Queue
<1>2. \A k \in K : val(k) \in Values
  BY ValueFacts, Zenon
<1>3. K \in SUBSET Fields /\ q \in [K -> Values]
  <2> HIDE DEF val
  <2> QED
    BY <1>2, Zenon
<1>4. q \in Maps(Values)
  <2> HIDE DEF q, K
  <2> QED
    BY <1>3, MapFacts, Zenon
<1>5. DOMAIN q = K /\ \A k \in K : q[k] = val(k)
  BY Zenon
<1> QED
  BY <1>1, <1>4, <1>5, Zenon

\* What starting a handler leaves behind: the handler in a slot that was free,
\* unless there is nothing to save.
Started(job) ==
  \E s \in Slots : /\ jobs[s] = Nobody /\ jobs'[s] = job
                   /\ \A t \in Slots \ {s} : jobs'[t] = jobs[t]
Recorded(ks, quit, touched) ==
  /\ hist'.asked = hist.asked + 1 /\ hist'.troubles = hist.troubles
  /\ hist'.meant = hist.meant \cup ks /\ hist'.told = (hist.told \ ks) \cup quit
  /\ hist'.touched = hist.touched \cup touched /\ hist'.foreign = hist.foreign
  /\ hist'.blind = (hist.blind \/ ~ui.loaded) /\ hist'.unsaved = hist.unsaved \ ks
Begun(job, u, ks, quit, touched) ==
  /\ section' = section /\ server' = server /\ ui' = u
  /\ hist' \in HistType /\ jobs' \in [Slots -> Job \cup {Nobody}]
  /\ Recorded(ks, quit, touched)
  /\ hist'.raced <=> hist.raced \/ Races(job)
  /\ IF job.op = "save" /\ DOMAIN job.queue = {} THEN jobs' = jobs ELSE Started(job)

(* What Begins does, conjunct by conjunct: a handler is put into a free
   slot, or nothing is if it has nothing to save. *)
LEMMA BeginFacts ==
  ASSUME TypeInv, NEW job \in Job, NEW u, NEW ks \in SUBSET Fields, NEW quit \in SUBSET Fields,
         NEW touched \in SUBSET Fields, Begins(job, u, ks, quit, touched)
  PROVE  Begun(job, u, ks, quit, touched)
<1>1. section' = section /\ server' = server /\ ui' = u
  BY DEF Begins
<1> DEFINE raced == hist.raced \/ Races(job)
           blind == hist.blind \/ ~ui.loaded
<1>2. hist' = [hist EXCEPT !.asked = @ + 1, !.meant = @ \cup ks, !.told = (@ \ ks) \cup quit,
                          !.touched = @ \cup touched, !.unsaved = @ \ ks, !.blind = blind, !.raced = raced]
  BY DEF Begins
<1>3. blind \in BOOLEAN /\ raced \in BOOLEAN /\ hist \in HistType
  BY DEF TypeInv
<1>4. hist' \in HistType /\ Recorded(ks, quit, touched) /\ hist'.raced = raced
  <2> DEFINE a == hist.asked + 1
             m == hist.meant \cup ks
             to == (hist.told \ ks) \cup quit
             tc == hist.touched \cup touched
             un == hist.unsaved \ ks
  <2>1. a \in Nat /\ m \in SUBSET Fields /\ to \in SUBSET Fields /\ tc \in SUBSET Fields
        /\ un \in SUBSET Fields
    BY <1>3 DEF HistType
  <2>2. hist' = [hist EXCEPT !.asked = a, !.meant = m, !.told = to, !.touched = tc,
                            !.unsaved = un, !.blind = blind, !.raced = raced]
    BY <1>2, Zenon
  <2> HIDE DEF a, m, to, tc, un, blind, raced
  <2>3. hist' \in HistType
    BY <1>3, <2>1, <2>2 DEF HistType
  <2>4. /\ hist'.asked = a /\ hist'.meant = m /\ hist'.told = to /\ hist'.touched = tc
        /\ hist'.blind = blind /\ hist'.raced = raced
        /\ hist'.troubles = hist.troubles /\ hist'.foreign = hist.foreign
        /\ hist'.unsaved = un
    BY <1>3, <2>2 DEF HistType
  <2> QED
    BY <2>3, <2>4, Zenon DEF a, m, to, tc, un, blind, Recorded
<1>5. Recorded(ks, quit, touched)
  BY <1>4
<1>6. hist'.raced <=> hist.raced \/ Races(job)
  BY <1>4, Zenon
<1>7. CASE job.op = "save" /\ DOMAIN job.queue = {}
  <2>1. jobs' = jobs
    BY <1>7 DEF Begins
  <2> QED
    BY <1>1, <1>4, <1>5, <1>6, <1>7, <2>1 DEF Begun, TypeInv
<1>8. CASE ~(job.op = "save" /\ DOMAIN job.queue = {})
  <2>1. jobs' = [jobs EXCEPT ![Free] = job] /\ InFlight # Slots
    BY <1>8 DEF Begins
  <2>2. Free \in Slots /\ ~Busy(Free)
    <3>1. \E s \in Slots : ~Busy(s)
      BY <2>1 DEF InFlight
    <3> QED
      BY <3>1 DEF Free
  <2>3. jobs[Free] = Nobody
    BY <2>2, JobFacts
  <2>4. /\ jobs' \in [Slots -> Job \cup {Nobody}] /\ jobs'[Free] = job
        /\ \A t \in Slots \ {Free} : jobs'[t] = jobs[t]
    <3> DEFINE f == Free
    <3> HIDE DEF f
    <3>1. f \in Slots /\ jobs' = [jobs EXCEPT ![f] = job]
      BY <2>1, <2>2, Zenon DEF f
    <3>2. /\ jobs' \in [Slots -> Job \cup {Nobody}] /\ jobs'[f] = job
          /\ \A t \in Slots \ {f} : jobs'[t] = jobs[t]
      BY <3>1 DEF TypeInv
    <3> QED
      BY <3>2 DEF f
  <2>5. Started(job)
    BY <2>2, <2>3, <2>4, Zenon DEF Started
  <2> QED
    BY <1>1, <1>4, <1>5, <1>6, <1>8, <2>4, <2>5, Zenon DEF Begun
<1> QED
  BY <1>7, <1>8

\* What a step makes of the page, of the record, and of the handler in a slot.
Page(inputs, kept, busy, asking) ==
  /\ ui' \in UiType
  /\ ui'.inputs = inputs /\ ui'.kept = kept /\ ui'.busy = busy /\ ui'.asking = asking
  /\ ui'.origin = ui.origin /\ ui'.loaded = ui.loaded
Noted(meant, told, touched, raced, unsaved) ==
  /\ hist' \in HistType
  /\ hist'.meant = meant /\ hist'.told = told /\ hist'.touched = touched
  /\ hist'.raced = raced /\ hist'.unsaved = unsaved
  /\ hist'.foreign = hist.foreign /\ hist'.blind = hist.blind
Moved(s, job) ==
  /\ jobs' \in [Slots -> Job \cup {Nobody}] /\ jobs'[s] = job
  /\ \A t \in Slots \ {s} : jobs'[t] = jobs[t]

(* A page changed field by field is the page with these fields. *)
LEMMA PageFacts ==
  ASSUME TypeInv, NEW i \in [Fields -> Values], NEW c \in [Fields -> Values], NEW b \in BOOLEAN,
         NEW a \in BOOLEAN,
         ui' = [ui EXCEPT !.inputs = i, !.kept = c, !.busy = b, !.asking = a]
  PROVE  Page(i, c, b, a)
BY DEF TypeInv, UiType, Page

(* A history changed field by field is the history with these fields. *)
LEMMA NotedFacts ==
  ASSUME TypeInv, NEW n \in Nat, NEW x \in Nat, NEW m \in SUBSET Fields, NEW t \in SUBSET Fields,
         NEW c \in SUBSET Fields, NEW r \in BOOLEAN, NEW u \in SUBSET Fields,
         hist' = [hist EXCEPT !.asked = n, !.troubles = x, !.meant = m, !.told = t, !.touched = c,
                              !.raced = r, !.unsaved = u]
  PROVE  Noted(m, t, c, r, u)
<1>0. PICK F : F = SUBSET Fields
  OBVIOUS
<1>1. hist' \in HistType
  <2>1. /\ m \in F /\ t \in F /\ c \in F /\ u \in F
        /\ hist \in [asked : Nat, troubles : Nat, meant : F, told : F, touched : F, foreign : F,
                     unsaved : F, blind : BOOLEAN, raced : BOOLEAN]
    BY <1>0 DEF TypeInv, HistType
  <2>2. hist' \in [asked : Nat, troubles : Nat, meant : F, told : F, touched : F, foreign : F,
                   unsaved : F, blind : BOOLEAN, raced : BOOLEAN]
    BY <2>1
  <2> QED
    BY <1>0, <2>2 DEF HistType
<1> QED
  BY <1>1 DEF TypeInv, HistType, Noted

(* Changing one handler leaves the others alone. *)
LEMMA MovedFacts ==
  ASSUME TypeInv, NEW s \in Slots, NEW job \in Job \cup {Nobody}, jobs' = [jobs EXCEPT ![s] = job]
  PROVE  Moved(s, job)
BY DEF TypeInv, Moved

(* An update that names fewer parts of the page or of the record. *)
LEMMA UiParts ==
  ASSUME TypeInv
  PROVE  /\ \A i : [ui EXCEPT !.inputs = i]
                     = [ui EXCEPT !.inputs = i, !.kept = ui.kept, !.busy = ui.busy, !.asking = ui.asking]
         /\ \A c : [ui EXCEPT !.kept = c]
                     = [ui EXCEPT !.inputs = ui.inputs, !.kept = c, !.busy = ui.busy, !.asking = ui.asking]
         /\ \A b : [ui EXCEPT !.busy = b]
                     = [ui EXCEPT !.inputs = ui.inputs, !.kept = ui.kept, !.busy = b, !.asking = ui.asking]
         /\ \A i, b : [ui EXCEPT !.inputs = i, !.busy = b]
                     = [ui EXCEPT !.inputs = i, !.kept = ui.kept, !.busy = b, !.asking = ui.asking]
         /\ \A a : [ui EXCEPT !.asking = a]
                     = [ui EXCEPT !.inputs = ui.inputs, !.kept = ui.kept, !.busy = ui.busy, !.asking = a]
         /\ ui = [ui EXCEPT !.inputs = ui.inputs, !.kept = ui.kept, !.busy = ui.busy, !.asking = ui.asking]
BY DEF TypeInv, UiType

-----------------------------------------------------------------------------
(* What each action does                                                   *)

\* The rest of the record stays.
Silent == Noted(hist.meant, hist.told, hist.touched, hist.raced, hist.unsaved)

(* Counting a trouble changes nothing else that root has done or was told. *)
LEMMA Troubled ==
  ASSUME TypeInv, NEW x \in Nat, hist' = [hist EXCEPT !.troubles = x]
  PROVE  Silent
<1>1. hist' \in HistType
  BY DEF TypeInv, HistType
<1> QED
  BY <1>1 DEF TypeInv, HistType, Noted, Silent

(* What the server does with a call: the answer is kept with the handler,
   and a save that is not refused changes the one option. *)
LEMMA ServeFacts ==
  ASSUME TypeInv, NEW s \in Slots, Serve(s)
  PROVE  /\ section' = section /\ ui' = ui /\ Silent
         /\ jobs[s] \in Job /\ jobs[s].phase = "asked" /\ jobs[s].op \in {"save", "load"}
         /\ Moved(s, jobs'[s]) /\ jobs'[s] \in Job
         /\ jobs'[s].op = jobs[s].op /\ jobs'[s].queue = jobs[s].queue /\ jobs'[s].phase = "served"
         /\ jobs'[s].data = IF jobs[s].op = "load" THEN server ELSE jobs[s].data
         /\ server' = IF jobs[s].op = "save" /\ jobs'[s].ok
                      THEN [server EXCEPT ![First(jobs[s].queue)] = jobs[s].queue[First(jobs[s].queue)]]
                      ELSE server
<1>1. /\ section' = section /\ ui' = ui
      /\ Busy(s) /\ jobs[s].phase = "asked" /\ jobs[s].op # "find"
  BY DEF Serve
<1>2. jobs[s] \in Job /\ jobs[s].op \in {"save", "load"} /\ hist \in HistType
      /\ server \in [Fields -> Stored]
  BY <1>1, JobFacts DEF Job, TypeInv
<1> DEFINE data == IF jobs[s].op = "load" THEN server ELSE jobs[s].data
<1>3. PICK ok \in BOOLEAN :
       /\ jobs' = [jobs EXCEPT ![s].phase = "served", ![s].ok = ok,
                               ![s].data = IF jobs[s].op = "load" THEN server ELSE @]
       /\ server' = IF jobs[s].op = "save" /\ ok
                    THEN LET k == First(jobs[s].queue) IN [server EXCEPT ![k] = jobs[s].queue[k]]
                    ELSE server
       /\ hist' = [hist EXCEPT !.troubles = IF ok THEN @ ELSE @ + 1]
  BY DEF Serve
<1>4. data \in Maps(Stored)
  <2>1. Fields \in SUBSET Fields
    OBVIOUS
  <2>2. server \in Maps(Stored)
    BY <1>2, <2>1, MapFacts, Zenon
  <2> QED
    BY <1>2, <2>2 DEF Job
<1> DEFINE job == [jobs[s] EXCEPT !.phase = "served", !.ok = ok, !.data = data]
<1>5. jobs' = [jobs EXCEPT ![s] = job]
  BY <1>2, <1>3 DEF TypeInv
<1>6. job \in Job
  <2> HIDE DEF data
  <2> QED
    BY <1>2, <1>4 DEF Job
<1>7. /\ job.op = jobs[s].op /\ job.queue = jobs[s].queue /\ job.phase = "served" /\ job.ok = ok
      /\ job.data = data
  <2> HIDE DEF data
  <2> QED
    BY <1>2 DEF Job
<1> HIDE DEF job
<1>8. Moved(s, job)
  BY <1>5, <1>6, MovedFacts
<1>9. jobs'[s] = job
  BY <1>8 DEF Moved
<1>10. Silent
  <2> DEFINE x == IF ok THEN hist.troubles ELSE hist.troubles + 1
  <2>1. x \in Nat
    BY <1>2 DEF HistType
  <2>2. hist' = [hist EXCEPT !.troubles = x]
    BY <1>3
  <2> QED
    BY <2>1, <2>2, Troubled
<1>11. server' = IF jobs[s].op = "save" /\ job.ok
                 THEN [server EXCEPT ![First(jobs[s].queue)] = jobs[s].queue[First(jobs[s].queue)]]
                 ELSE server
  BY <1>3, <1>7
<1> QED
  BY <1>1, <1>2, <1>6, <1>7, <1>8, <1>9, <1>10, <1>11

(* What a lost call does: its handler is gone and an error is shown for its
   saves, or nothing is, in the console. *)
LEMMA LostFacts ==
  ASSUME TypeInv, NEW s \in Slots, Lost(s)
  PROVE  /\ section' = section /\ server' = server /\ ui' = ui
         /\ jobs[s] \in Job /\ jobs[s].op \in {"save", "load"} /\ Moved(s, Nobody)
         /\ Noted(hist.meant, IF InConsole THEN hist.told ELSE hist.told \cup DOMAIN jobs[s].queue,
                  hist.touched, hist.raced,
                  IF InConsole THEN hist.unsaved \cup DOMAIN jobs[s].queue ELSE hist.unsaved)
<1>1. /\ section' = section /\ server' = server /\ ui' = ui
      /\ Busy(s) /\ jobs[s].op # "find" /\ jobs' = [jobs EXCEPT ![s] = Nobody]
  BY DEF Lost
<1>2. jobs[s] \in Job /\ jobs[s].op \in {"save", "load"} /\ hist \in HistType
  BY <1>1, JobFacts DEF Job, TypeInv
<1>3. Moved(s, Nobody)
  BY <1>1, MovedFacts
<1>4. DOMAIN jobs[s].queue \subseteq Fields
  <2>1. jobs[s].queue \in Maps(Values)
    BY <1>2 DEF Job
  <2> QED
    BY <2>1, MapFacts, Zenon
<1> DEFINE x == hist.troubles + 1
           t == IF InConsole THEN hist.told ELSE hist.told \cup DOMAIN jobs[s].queue
           u == IF InConsole THEN hist.unsaved \cup DOMAIN jobs[s].queue ELSE hist.unsaved
<1>5. hist' = [hist EXCEPT !.troubles = x, !.told = t, !.unsaved = u]
  BY DEF Lost
<1>6. x \in Nat /\ t \in SUBSET Fields /\ u \in SUBSET Fields
  BY <1>2, <1>4 DEF HistType
<1>7. Noted(hist.meant, t, hist.touched, hist.raced, u)
  <2> HIDE DEF x, t, u
  <2>1. hist' \in HistType
    BY <1>2, <1>5, <1>6 DEF HistType
  <2> QED
    BY <1>2, <1>5, <2>1 DEF HistType, Noted
<1> QED
  BY <1>1, <1>2, <1>3, <1>7

(* What a change made elsewhere does: one option is another, and is noted
   as foreign. *)
LEMMA ElsewhereFacts ==
  ASSUME TypeInv, NEW k \in Fields, Elsewhere(k)
  PROVE  /\ section' = section /\ ui' = ui /\ jobs' = jobs
         /\ \E v \in {"a", "b", "true", "false"} : server' = [server EXCEPT ![k] = v]
         /\ hist' \in HistType /\ hist'.foreign = hist.foreign \cup {k}
         /\ hist'.meant = hist.meant /\ hist'.told = hist.told /\ hist'.touched = hist.touched
         /\ hist'.raced = hist.raced /\ hist'.unsaved = hist.unsaved /\ hist'.blind = hist.blind
<1>1. section' = section /\ ui' = ui /\ jobs' = jobs
  BY DEF Elsewhere
<1>2. \E v \in {"a", "b", "true", "false"} : server' = [server EXCEPT ![k] = v]
  BY Zenon DEF Elsewhere
<1> DEFINE x == hist.troubles + 1
           f == hist.foreign \cup {k}
<1>3. hist' = [hist EXCEPT !.troubles = x, !.foreign = f] /\ hist \in HistType
  BY DEF Elsewhere, TypeInv
<1>4. x \in Nat /\ f \in SUBSET Fields
  BY <1>3 DEF HistType
<1>5. hist' \in HistType
  <2> HIDE DEF x, f
  <2> QED
    BY <1>3, <1>4 DEF HistType
<1> QED
  BY <1>1, <1>2, <1>3, <1>5 DEF HistType

(* What the page makes of the options sent: secrets are absent, the others
   displayed. *)
LEMMA ReceivedFacts ==
  ASSUME NEW data \in [Fields -> Stored], Mapped(data)
  PROVE  /\ Received(data) \in [Fields -> Values]
         /\ \A k \in Fields : Received(data)[k] = IF Is(k, Secrets) THEN Absent ELSE Display(data[k])
<1>1. \A k \in Fields : ~Is(k, {"checked"}) => data[k] \in Values
  BY DEF Mapped, Stored
<1>2. \A k \in Fields : ~Is(k, {"checked"}) => Display(data[k]) = data[k]
  BY <1>1, ValueFacts, Zenon
<1>3. \A k \in Fields : Display(data[k]) \in Values
  BY ValueFacts, Zenon
<1>4. \A k \in Fields : Received(data)[k] = IF Is(k, Secrets) THEN Absent ELSE Display(data[k])
  BY <1>2, Zenon DEF Received
<1>5. \A k \in Fields : Received(data)[k] \in Values
  BY <1>3, <1>4, ValueFacts, Zenon
<1>6. Received(data) \in [Fields -> Values]
  <2> DEFINE r == Received(data)
  <2>1. r = [k \in Fields |-> r[k]]
    BY DEF Received
  <2> HIDE DEF r
  <2> QED
    BY <1>5, <2>1 DEF r
<1> QED
  BY <1>4, <1>6

(* What the answer of a load does: inputs and origin are what was sent. *)
LEMMA LoadedFacts ==
  ASSUME TypeInv, JobInv, NEW s \in Slots, Loaded(s)
  PROVE  /\ section' = section /\ server' = server /\ hist' = hist
         /\ jobs[s] \in Job /\ Does(s, "load") /\ jobs[s].phase = "served" /\ Moved(s, Nobody)
         /\ DOMAIN jobs[s].data = Fields /\ Mapped(jobs[s].data)
         /\ ui' \in UiType /\ ui'.loaded = TRUE
         /\ ui'.inputs = ui'.origin /\ ui'.busy = ui.busy /\ ui'.asking = ui.asking
         /\ \A k \in Fields :
              ui'.inputs[k] = IF Is(k, Secrets) THEN Absent ELSE Display(jobs[s].data[k])
         /\ \A k \in Fields :
              ui'.kept[k] = IF Is(k, {"stuck", "lookup"}) THEN ui'.inputs[k] ELSE ui.kept[k]
<1> DEFINE data == jobs[s].data
           got == Received(data)
           kept == [k \in Fields |-> IF Is(k, {"stuck", "lookup"}) THEN got[k] ELSE ui.kept[k]]
<1>1. /\ section' = section /\ server' = server /\ hist' = hist
      /\ Busy(s) /\ Does(s, "load") /\ jobs[s].phase = "served" /\ jobs' = [jobs EXCEPT ![s] = Nobody]
      /\ ui' = [ui EXCEPT !.inputs = got, !.origin = got, !.loaded = TRUE, !.kept = kept]
  BY DEF Loaded, Does
<1>2. jobs[s] \in Job /\ ui \in UiType
  BY <1>1, JobFacts DEF TypeInv
<1>3. Moved(s, Nobody)
  BY <1>1, MovedFacts
<1>4. DOMAIN data = Fields /\ Mapped(data)
  BY <1>1 DEF JobInv
<1>5. data \in [Fields -> Stored]
  <2>1. data \in Maps(Stored)
    BY <1>2 DEF Job
  <2> HIDE DEF data
  <2> QED
    BY <1>4, <2>1, MapFacts
<1>6. /\ got \in [Fields -> Values]
      /\ \A k \in Fields : got[k] = IF Is(k, Secrets) THEN Absent ELSE Display(data[k])
  BY <1>4, <1>5, ReceivedFacts, Zenon
<1> HIDE DEF got, data
<1>7. kept \in [Fields -> Values]
  BY <1>2, <1>6 DEF UiType
<1>8. \A k \in Fields : kept[k] = IF Is(k, {"stuck", "lookup"}) THEN got[k] ELSE ui.kept[k]
  BY Zenon
<1> HIDE DEF kept
<1>9. /\ ui' \in UiType /\ ui'.loaded = TRUE /\ ui'.inputs = got /\ ui'.origin = got
      /\ ui'.busy = ui.busy /\ ui'.asking = ui.asking /\ ui'.kept = kept
  BY <1>1, <1>2, <1>6, <1>7 DEF UiType
<1> QED
  BY <1>1, <1>2, <1>3, <1>4, <1>6, <1>8, <1>9 DEF data

(* A handler goes on with what is left to save, and is gone when nothing
   is. *)
LEMMA ThenFacts ==
  ASSUME NEW q \in Maps(Values)
  PROVE  /\ DOMAIN q = {} => Then(q) = Nobody
         /\ DOMAIN q # {} => Then(q) = Saver(q)
         /\ Then(q) \in Job \cup {Nobody}
BY SaverFacts DEF Then

(* A handler that has an answer: what it saved, and what is left. *)
LEMMA AnswerFacts ==
  ASSUME TypeInv, JobInv, NEW s \in Slots, Does(s, "save")
  PROVE  LET q == jobs[s].queue
         IN  /\ jobs[s] \in Job /\ q \in Maps(Values) /\ DOMAIN q \subseteq Fields
             /\ First(q) \in DOMAIN q /\ q[First(q)] \in Values
             /\ Rest(q) \in Maps(Values) /\ DOMAIN Rest(q) = DOMAIN q \ {First(q)}
             /\ \A k \in DOMAIN Rest(q) : Rest(q)[k] = q[k]
             /\ DOMAIN Rest(q) # {} =>
                  First(Rest(q)) \in DOMAIN Rest(q) /\ Rest(q)[First(Rest(q))] \in Values
<1> DEFINE q == jobs[s].queue
           r == Rest(q)
<1>1. jobs[s] \in Job /\ q \in Maps(Values)
  BY JobFacts DEF Does, Job
<1>2. DOMAIN q \subseteq Fields /\ q \in [DOMAIN q -> Values] /\ DOMAIN q # {}
  BY <1>1, MapFacts, Zenon DEF JobInv
<1>3. /\ r \in Maps(Values) /\ DOMAIN r = DOMAIN q \ {First(q)}
      /\ \A k \in DOMAIN r : r[k] = q[k]
  BY <1>1, RestFacts, Zenon
<1>4. DOMAIN r \subseteq Fields /\ r \in [DOMAIN r -> Values]
  BY <1>3, MapFacts, Zenon
<1> HIDE DEF q, r
<1>5. section \in Studied
  BY DEF TypeInv
<1>6. First(q) \in DOMAIN q
  BY <1>2, <1>5, FirstIn
<1>7. DOMAIN r # {} => First(r) \in DOMAIN r
  BY <1>4, <1>5, FirstIn
<1> QED
  BY <1>1, <1>2, <1>3, <1>4, <1>6, <1>7 DEF q, r

(* What the answer of a save does in the inherited interfaces. *)
LEMMA UpdatedFacts ==
  ASSUME TypeInv, JobInv, NEW s \in Slots, Updated(s)
  PROVE  LET q == jobs[s].queue
             k == First(q)
         IN  /\ section' = section /\ server' = server
             /\ ~InConsole /\ Does(s, "save") /\ jobs[s].phase = "served" /\ jobs[s] \in Job
             /\ Page(IF jobs[s].ok THEN [ui.inputs EXCEPT ![k] = q[k]] ELSE ui.inputs,
                     ui.kept, DOMAIN Rest(q) # {}, ui.asking)
             /\ Noted(hist.meant, IF jobs[s].ok THEN hist.told ELSE hist.told \cup {k}, hist.touched,
                      hist.raced, hist.unsaved)
             /\ Moved(s, Then(Rest(q)))
<1> DEFINE q == jobs[s].queue
           k == First(q)
           v == IF jobs[s].ok THEN q[k] ELSE ui.inputs[k]
           b == DOMAIN Rest(q) # {}
           t == IF jobs[s].ok THEN hist.told ELSE hist.told \cup {k}
           i == IF jobs[s].ok THEN [ui.inputs EXCEPT ![k] = q[k]] ELSE ui.inputs
<1>1. /\ section' = section /\ server' = server
      /\ ~InConsole /\ Does(s, "save") /\ jobs[s].phase = "served"
      /\ ui' = [ui EXCEPT !.inputs[k] = v, !.busy = b]
      /\ hist' = [hist EXCEPT !.told = t]
      /\ jobs' = [jobs EXCEPT ![s] = Then(Rest(q))]
  BY Zenon DEF Updated, Does
<1>2. /\ jobs[s] \in Job /\ k \in Fields /\ q[k] \in Values /\ Rest(q) \in Maps(Values)
      /\ ui \in UiType /\ hist \in HistType
  BY <1>1, AnswerFacts, Zenon DEF TypeInv
<1>3. Moved(s, Then(Rest(q)))
  BY <1>1, <1>2, ThenFacts, MovedFacts, Zenon
<1> HIDE DEF q, k, b
<1>4. ui' = [ui EXCEPT !.inputs = i, !.kept = ui.kept, !.busy = b, !.asking = ui.asking]
  <2>1. ui' = [ui EXCEPT !.inputs = [ui.inputs EXCEPT ![k] = v], !.busy = b]
    BY <1>1, <1>2 DEF UiType
  <2>2. i = [ui.inputs EXCEPT ![k] = v]
    <3>1. [ui.inputs EXCEPT ![k] = ui.inputs[k]] = ui.inputs
      BY <1>2 DEF UiType
    <3> QED
      BY <3>1
  <2>3. ui' = [ui EXCEPT !.inputs = i, !.busy = b]
    BY <2>1, <2>2, Zenon
  <2> HIDE DEF i
  <2> QED
    BY <2>3, UiParts
<1>5. i \in [Fields -> Values] /\ b \in BOOLEAN /\ ui.kept \in [Fields -> Values] /\ ui.asking \in BOOLEAN
  BY <1>2 DEF UiType, b
<1>6. Page(i, ui.kept, b, ui.asking)
  <2> HIDE DEF i
  <2> QED
    BY <1>4, <1>5, PageFacts
<1>7. t \in SUBSET Fields
  BY <1>2 DEF HistType
<1>8. Noted(hist.meant, t, hist.touched, hist.raced, hist.unsaved)
  <2> HIDE DEF t
  <2>1. hist' \in HistType
    BY <1>1, <1>2, <1>7 DEF HistType
  <2> QED
    BY <1>1, <1>2, <2>1 DEF HistType, Noted
<1> QED
  BY <1>1, <1>2, <1>3, <1>6, <1>8, Zenon DEF q, k, b

(* What the answer of a save does in the console: the next field is shown
   as saved at once. *)
LEMMA SavedFacts ==
  ASSUME TypeInv, JobInv, NEW s \in Slots, Saved(s)
  PROVE  LET rest == Rest(jobs[s].queue)
         IN  /\ section' = section /\ server' = server
             /\ InConsole /\ Does(s, "save") /\ jobs[s].phase = "served" /\ jobs[s] \in Job
             /\ Page(IF DOMAIN rest = {} THEN ui.inputs
                     ELSE [ui.inputs EXCEPT ![First(rest)] = rest[First(rest)]],
                     ui.kept, ui.busy, ui.asking)
             /\ Noted(hist.meant, hist.told, hist.touched, hist.raced,
                      IF jobs[s].ok THEN hist.unsaved ELSE hist.unsaved \cup {First(jobs[s].queue)})
             /\ Moved(s, Then(rest))
<1> DEFINE rest == Rest(jobs[s].queue)
           k == First(rest)
           i == IF DOMAIN rest = {} THEN ui.inputs ELSE [ui.inputs EXCEPT ![k] = rest[k]]
           u == IF jobs[s].ok THEN hist.unsaved ELSE hist.unsaved \cup {First(jobs[s].queue)}
<1>1. /\ section' = section /\ server' = server
      /\ InConsole /\ Does(s, "save") /\ jobs[s].phase = "served"
      /\ ui' = IF DOMAIN rest = {} THEN ui ELSE [ui EXCEPT !.inputs[k] = rest[k]]
      /\ hist' = [hist EXCEPT !.unsaved = u]
      /\ jobs' = [jobs EXCEPT ![s] = Then(rest)]
  BY Zenon DEF Saved, Does, Shown
<1>2. /\ jobs[s] \in Job /\ rest \in Maps(Values)
      /\ DOMAIN rest # {} => k \in Fields /\ rest[k] \in Values
      /\ ui \in UiType /\ hist \in HistType
  BY <1>1, AnswerFacts DEF TypeInv
<1>3. Moved(s, Then(rest))
  BY <1>1, <1>2, ThenFacts, MovedFacts, Zenon
<1> HIDE DEF rest, k
<1>4. i \in [Fields -> Values] /\ ui.kept \in [Fields -> Values] /\ ui.asking \in BOOLEAN /\ ui.busy \in BOOLEAN
  BY <1>2 DEF UiType
<1>5. ui' = [ui EXCEPT !.inputs = i, !.kept = ui.kept, !.busy = ui.busy, !.asking = ui.asking]
  <2>1. CASE DOMAIN rest = {}
    BY <1>1, <2>1, UiParts, Zenon
  <2>2. CASE DOMAIN rest # {}
    <3>1. ui' = [ui EXCEPT !.inputs = [ui.inputs EXCEPT ![k] = rest[k]]]
      BY <1>1, <1>2, <2>2 DEF UiType
    <3>2. ui' = [ui EXCEPT !.inputs = i]
      BY <2>2, <3>1, Zenon
    <3> HIDE DEF i
    <3> QED
      BY <3>2, UiParts
  <2> QED
    BY <2>1, <2>2
<1>6. Page(i, ui.kept, ui.busy, ui.asking)
  <2> HIDE DEF i
  <2> QED
    BY <1>4, <1>5, PageFacts
<1>7. Noted(hist.meant, hist.told, hist.touched, hist.raced, u)
  <2>1. u \in SUBSET Fields
    <3>1. First(jobs[s].queue) \in Fields
      BY <1>1, AnswerFacts
    <3> QED
      BY <1>2, <3>1 DEF HistType
  <2> HIDE DEF u
  <2>2. hist' \in HistType
    BY <1>1, <1>2, <2>1 DEF HistType
  <2> QED
    BY <1>1, <1>2, <2>2 DEF HistType, Noted
<1> QED
  BY <1>1, <1>2, <1>3, <1>6, <1>7, Zenon DEF rest, k

(* What the answer of a look-up does in the inherited interfaces: only the
   endpoints among the inputs may be others, and these inputs are saved. *)
LEMMA OidcFoundFacts ==
  ASSUME TypeInv, JobInv, NEW s \in Slots, OidcFound(s)
  PROVE  /\ section' = section /\ server' = server
         /\ ~InConsole /\ Does(s, "find") /\ jobs[s] \in Job /\ Wells # {}
         /\ jobs[s].data \in [Fields -> Values]
         /\ \E inputs \in [Fields -> Values] :
              /\ \A k \in Fields : inputs[k] = jobs[s].data[k] \/ Found(k)
              /\ Page(IF ui.inputs = jobs[s].data THEN inputs ELSE ui.inputs, ui.kept,
                      ui.busy \/ DOMAIN Queue(inputs) # {}, ui.asking)
              /\ Moved(s, Then(Queue(inputs)))
         /\ Noted(hist.meant, hist.told, hist.touched \cup {k \in Fields : Found(k)}, hist.raced,
                  hist.unsaved)
<1> DEFINE data == jobs[s].data
           inputs(v) == [k \in Fields |-> IF Found(k) /\ v # None THEN v ELSE data[k]]
           shown(v) == IF ui.inputs = data THEN inputs(v) ELSE ui.inputs
           busy(v) == ui.busy \/ DOMAIN Queue(inputs(v)) # {}
           c == hist.touched \cup {k \in Fields : Found(k)}
           x(v) == IF v = None THEN hist.troubles + 1 ELSE hist.troubles
<1>1. PICK v \in {"a", "b", None} :
        /\ ui' = [ui EXCEPT !.inputs = shown(v), !.busy = busy(v)]
        /\ jobs' = [jobs EXCEPT ![s] = Then(Queue(inputs(v)))]
        /\ hist' = [hist EXCEPT !.troubles = x(v), !.touched = c]
  BY Zenon DEF OidcFound
<1>2. /\ section' = section /\ server' = server
      /\ ~InConsole /\ Does(s, "find") /\ Busy(s)
  BY DEF OidcFound, Does
<1>3. /\ jobs[s] \in Job /\ ui \in UiType /\ hist \in HistType /\ section \in Studied
      /\ Wells # {} /\ data \in Maps(Values) /\ DOMAIN data = Fields
  BY <1>2, JobFacts DEF JobInv, TypeInv
<1>4. data \in [Fields -> Values]
  <2> HIDE DEF data
  <2> QED
    BY <1>3, MapFacts
<1> HIDE DEF data
<1>5. v \in Values
  BY ValueFacts, Zenon
<1>6. \A k \in Fields : inputs(v)[k] = data[k] \/ Found(k)
  BY Zenon
<1>7. inputs(v) \in [Fields -> Values]
  BY <1>4, <1>5
<1> HIDE DEF inputs
<1>8. Queue(inputs(v)) \in Maps(Values)
  BY <1>3, <1>7, QueueFacts
<1>9. Moved(s, Then(Queue(inputs(v))))
  BY <1>1, <1>8, ThenFacts, MovedFacts, Zenon
<1>10. Page(shown(v), ui.kept, busy(v), ui.asking)
  <2>1. /\ shown(v) \in [Fields -> Values] /\ ui.kept \in [Fields -> Values] /\ busy(v) \in BOOLEAN
        /\ ui.asking \in BOOLEAN
    BY <1>3, <1>7 DEF UiType
  <2> HIDE DEF shown, busy
  <2>2. ui' = [ui EXCEPT !.inputs = shown(v), !.kept = ui.kept, !.busy = busy(v), !.asking = ui.asking]
    BY <1>1, UiParts
  <2> QED
    BY <2>1, <2>2, PageFacts
<1>11. Noted(hist.meant, hist.told, c, hist.raced, hist.unsaved)
  <2>1. c \in SUBSET Fields /\ x(v) \in Nat
    BY <1>3 DEF HistType
  <2> HIDE DEF c, x
  <2>2. hist' \in HistType
    BY <1>1, <1>3, <2>1 DEF HistType
  <2> QED
    BY <1>1, <1>3, <2>2 DEF HistType, Noted
<1>12. \E i \in [Fields -> Values] :
              /\ \A k \in Fields : i[k] = data[k] \/ Found(k)
              /\ Page(IF ui.inputs = data THEN i ELSE ui.inputs, ui.kept,
                      ui.busy \/ DOMAIN Queue(i) # {}, ui.asking)
              /\ Moved(s, Then(Queue(i)))
  <2> WITNESS inputs(v) \in [Fields -> Values]
  <2> QED
    BY <1>6, <1>9, <1>10, Zenon
<1> QED
  BY <1>2, <1>3, <1>4, <1>11, <1>12, Zenon DEF data

(* What the answer of a look-up does in the console: it fails, or the
   endpoints and then the address are saved. *)
LEMMA DiscoveredFacts ==
  ASSUME TypeInv, JobInv, NEW s \in Slots, Discovered(s)
  PROVE  /\ section' = section /\ server' = server
         /\ InConsole /\ Rules = SsoRules /\ Does(s, "find") /\ jobs[s] \in Job
         /\ \/ /\ Moved(s, Nobody) /\ Silent
               /\ \E hung \in BOOLEAN : Page(ui.inputs, ui.kept, hung, ui.asking)
            \/ \E q \in Maps(Values) :
                 /\ DOMAIN q = {2, 3} /\ q[2] \in {"a", "b"}
                 /\ Moved(s, Saver(q))
                 /\ Page([ui.inputs EXCEPT ![2] = q[2]], ui.kept, FALSE, ui.asking)
                 /\ Noted(hist.meant \cup {2, 3}, hist.told, hist.touched \cup {2, 3}, hist.raced,
                          hist.unsaved \ {2, 3})
<1>1. /\ section' = section /\ server' = server
      /\ InConsole /\ Does(s, "find") /\ Busy(s)
  BY DEF Discovered, Does
<1>2. PICK l \in Fields : Is(l, {"lookup"}) /\ l \in DOMAIN jobs[s].data
  BY <1>1 DEF JobInv
<1>3. /\ jobs[s] \in Job /\ ui \in UiType /\ hist \in HistType /\ section \in Studied
      /\ jobs[s].data \in Maps(Values)
  BY <1>1, JobFacts DEF JobInv, TypeInv
<1>4. Rules = SsoRules
  BY <1>1, <1>2, <1>3, FieldFacts DEF Is
<1>5. Fields = 1..4 /\ l = 3 /\ {j \in Fields : Found(j) \/ Is(j, {"lookup"})} = {2, 3}
      /\ Found(2) /\ ~Found(3)
  BY <1>2, <1>4 DEF Fields, SsoRules, Found, Is
<1>6. CASE /\ \E hung \in BOOLEAN : ui' = [ui EXCEPT !.busy = hung]
           /\ jobs' = [jobs EXCEPT ![s] = Nobody]
           /\ hist' = [hist EXCEPT !.troubles = @ + 1]
  <2>1. Moved(s, Nobody)
    BY <1>6, MovedFacts
  <2>2. Silent
    <3>1. hist.troubles + 1 \in Nat
      BY <1>3 DEF HistType
    <3> QED
      BY <1>6, <3>1, Troubled
  <2>3. PICK hung \in BOOLEAN : ui' = [ui EXCEPT !.busy = hung]
    BY <1>6
  <2>4. Page(ui.inputs, ui.kept, hung, ui.asking)
    <3>1. /\ ui.inputs \in [Fields -> Values] /\ ui.kept \in [Fields -> Values]
          /\ ui.asking \in BOOLEAN
      BY <1>3 DEF UiType
    <3>2. ui' = [ui EXCEPT !.inputs = ui.inputs, !.kept = ui.kept, !.busy = hung, !.asking = ui.asking]
      BY <2>3, UiParts
    <3> QED
      BY <3>1, <3>2, PageFacts
  <2> QED
    BY <1>1, <1>3, <1>4, <2>1, <2>2, <2>4
<1>7. CASE \E v \in {"a", "b"} :
          LET queue == [k \in {j \in Fields : Found(j) \/ Is(j, {"lookup"})} |->
                          IF Found(k) THEN v ELSE jobs[s].data[k]]
          IN  /\ ui' = Shown([ui EXCEPT !.busy = FALSE], First(queue), queue[First(queue)])
              /\ jobs' = [jobs EXCEPT ![s] = Saver(queue)]
              /\ hist' = [hist EXCEPT !.touched = @ \cup DOMAIN queue, !.meant = @ \cup DOMAIN queue,
                                      !.unsaved = @ \ DOMAIN queue]
  <2> DEFINE queue(v) == [k \in {j \in Fields : Found(j) \/ Is(j, {"lookup"})} |->
                          IF Found(k) THEN v ELSE jobs[s].data[k]]
  <2>1. PICK v \in {"a", "b"} :
          /\ ui' = Shown([ui EXCEPT !.busy = FALSE], First(queue(v)), queue(v)[First(queue(v))])
          /\ jobs' = [jobs EXCEPT ![s] = Saver(queue(v))]
          /\ hist' = [hist EXCEPT !.touched = @ \cup DOMAIN queue(v), !.meant = @ \cup DOMAIN queue(v),
                                  !.unsaved = @ \ DOMAIN queue(v)]
    BY <1>7, Zenon
  <2>2. jobs[s].data[3] \in Values
    BY <1>2, <1>3, <1>5, MapFacts
  <2>3. DOMAIN queue(v) = {2, 3} /\ queue(v)[2] = v
    BY <1>5
  <2>4. v \in Values
    BY ValueFacts, Zenon
  <2>5. queue(v) \in [{2, 3} -> Values]
    BY <1>5, <2>2, <2>4
  <2> HIDE DEF queue
  <2>6. queue(v) \in Maps(Values)
    BY <1>5, <2>5, MapFacts
  <2>7. First(queue(v)) = 2
    <3>1. First(queue(v)) \in {2, 3} /\ First(queue(v)) <= 2
      BY <1>3, <1>5, <2>3, FirstIn
    <3> QED
      BY <3>1
  <2>8. Moved(s, Saver(queue(v)))
    BY <2>1, <2>6, SaverFacts, MovedFacts
  <2> DEFINE i == [ui.inputs EXCEPT ![2] = queue(v)[2]]
  <2>9. Page(i, ui.kept, FALSE, ui.asking)
    <3>1. ui' = [ui EXCEPT !.busy = FALSE, !.inputs[2] = queue(v)[2]]
      BY <2>1, <2>7, Zenon DEF Shown
    <3>2. ui' = [ui EXCEPT !.inputs = i, !.kept = ui.kept, !.busy = FALSE, !.asking = ui.asking]
      BY <1>3, <3>1 DEF UiType
    <3>3. i \in [Fields -> Values] /\ ui.kept \in [Fields -> Values] /\ ui.asking \in BOOLEAN
      BY <1>3, <2>3, <2>4 DEF UiType
    <3> HIDE DEF i
    <3> QED
      BY <3>2, <3>3, PageFacts
  <2>10. Noted(hist.meant \cup {2, 3}, hist.told, hist.touched \cup {2, 3}, hist.raced, hist.unsaved \ {2, 3})
    <3> DEFINE m == hist.meant \cup {2, 3}
               c == hist.touched \cup {2, 3}
               u == hist.unsaved \ {2, 3}
    <3>1. hist' = [hist EXCEPT !.touched = c, !.meant = m, !.unsaved = u]
      BY <2>1, <2>3
    <3>2. m \in SUBSET Fields /\ c \in SUBSET Fields /\ u \in SUBSET Fields
      BY <1>3, <1>5 DEF HistType
    <3> HIDE DEF m, c, u
    <3>3. hist' \in HistType
      BY <1>3, <3>1, <3>2 DEF HistType
    <3>4. Noted(m, hist.told, c, hist.raced, u)
      BY <1>3, <3>1, <3>3 DEF HistType, Noted
    <3> QED
      BY <3>4 DEF m, c, u
  <2>11. queue(v)[2] \in {"a", "b"}
    BY <2>3
  <2>12. \E q \in Maps(Values) :
                 /\ DOMAIN q = {2, 3} /\ q[2] \in {"a", "b"}
                 /\ Moved(s, Saver(q))
                 /\ Page([ui.inputs EXCEPT ![2] = q[2]], ui.kept, FALSE, ui.asking)
                 /\ Noted(hist.meant \cup {2, 3}, hist.told, hist.touched \cup {2, 3}, hist.raced,
                          hist.unsaved \ {2, 3})
    <3> WITNESS queue(v) \in Maps(Values)
    <3> QED
      BY <2>3, <2>8, <2>9, <2>10, <2>11, Zenon
  <2> QED
    BY <1>1, <1>3, <1>4, <2>12, Zenon
<1> QED
  BY <1>6, <1>7, Zenon DEF Discovered

\* Starting a handler that saves, and one that looks up.
Asks(q, ks, quit, touched) ==
  /\ section' = section /\ server' = server
  /\ hist' \in HistType /\ jobs' \in [Slots -> Job \cup {Nobody}]
  /\ Recorded(ks, quit, touched)
  /\ hist'.raced <=> hist.raced \/ Races(Saver(q))
  /\ IF DOMAIN q = {} THEN jobs' = jobs ELSE Started(Saver(q))
One(k, v) == [j \in {k} |-> v]
Finder(data) == Handler("find", Nothing, data)
Looks(data, ks) ==
  /\ section' = section /\ server' = server
  /\ hist' \in HistType /\ jobs' \in [Slots -> Job \cup {Nobody}]
  /\ Recorded(ks, {}, {})
  /\ hist'.raced <=> hist.raced \/ InFlight # {}
  /\ Started(Finder(data))

(* A handler that saves is begun. *)
LEMMA AskFacts ==
  ASSUME TypeInv, NEW q \in Maps(Values), NEW u, NEW ks \in SUBSET Fields, NEW quit \in SUBSET Fields,
         NEW touched \in SUBSET Fields, Begins(Saver(q), u, ks, quit, touched)
  PROVE  ui' = u /\ Asks(q, ks, quit, touched)
<1>1. Begun(Saver(q), u, ks, quit, touched)
  BY SaverFacts, BeginFacts
<1> QED
  BY <1>1, SaverFacts DEF Begun, Asks

(* The queue of a single save. *)
LEMMA OneFacts ==
  ASSUME NEW k \in Fields, NEW v \in Values
  PROVE  One(k, v) \in Maps(Values) /\ DOMAIN One(k, v) = {k} /\ One(k, v)[k] = v
BY SmallQueues, Zenon DEF One

(* A single save is begun. *)
LEMMA SavesFacts ==
  ASSUME TypeInv, NEW k \in Fields, NEW v \in Values, NEW u, Saves(k, v, u)
  PROVE  ui' = u /\ Asks(One(k, v), {k}, {}, {k})
<1>1. Begins(Saver(One(k, v)), u, {k}, {}, {k})
  BY Zenon DEF Saves, One
<1>2. One(k, v) \in Maps(Values) /\ {k} \in SUBSET Fields /\ {} \in SUBSET Fields
  BY OneFacts
<1> QED
  BY <1>1, <1>2, AskFacts

(* The handler of a look-up. *)
LEMMA FinderFacts ==
  ASSUME NEW d \in Maps(Stored)
  PROVE  LET j == Finder(d)
         IN  /\ j \in Job /\ j # Nobody
             /\ j.op = "find" /\ j.queue = Nothing /\ j.data = d /\ j.phase = "asked" /\ j.ok = TRUE
<1> DEFINE h == Handler("find", Nothing, d)
<1>1. Nothing \in Maps(Values)
  BY SmallQueues, Zenon
<1>3. /\ h \in Job /\ h # Nobody
      /\ h.op = "find" /\ h.queue = Nothing /\ h.data = d /\ h.phase = "asked" /\ h.ok = TRUE
  BY <1>1 DEF Handler, Job, Nobody
<1>4. Finder(d) = h
  BY DEF Finder
<1> HIDE DEF h
<1> QED
  BY <1>3, <1>4, Zenon

(* A look-up is begun. *)
LEMMA LookFacts ==
  ASSUME TypeInv, NEW d \in Maps(Stored), NEW u, NEW ks \in SUBSET Fields,
         Begins(Finder(d), u, ks, {}, {})
  PROVE  ui' = u /\ Looks(d, ks)
<1>1. Finder(d) \in Job /\ Finder(d).op = "find"
  BY FinderFacts
<1>2. Begun(Finder(d), u, ks, {}, {})
  BY <1>1, BeginFacts
<1>3. Races(Finder(d)) <=> InFlight # {}
  BY <1>1 DEF Races
<1> QED
  BY <1>1, <1>2, <1>3 DEF Begun, Looks

-----------------------------------------------------------------------------

(* What entering a text does: it is saved with every key, or shown and no
   longer meant to be saved. *)
LEMMA EnterFacts ==
  ASSUME TypeInv, NEW k \in Fields, NEW v \in Texts(k), Enter(k, v)
  PROVE  /\ Legacy /\ (ui.busy => section \in AlwaysOpen) /\ ~Is(k, Switches)
         /\ v \in Values \ {Absent, None} /\ v # ui.inputs[k]
         /\ IF Is(k, Typing)
            THEN Asks(One(k, v), {k}, {}, {k}) /\ Page(ui.inputs, ui.kept, TRUE, ui.asking)
            ELSE /\ section' = section /\ server' = server /\ jobs' = jobs
                 /\ Page(IF Is(k, {"stuck"}) THEN ui.inputs ELSE [ui.inputs EXCEPT ![k] = v],
                         IF Is(k, {"stuck"}) THEN [ui.kept EXCEPT ![k] = v] ELSE ui.kept,
                         ui.busy, ui.asking)
                 /\ Noted(hist.meant \ Affects(k), hist.told, hist.touched \cup {k}, hist'.raced,
                          hist.unsaved)
                 /\ hist'.raced <=> hist.raced \/ \E s \in InFlight : Does(s, "find")
<1>1. /\ Legacy /\ (ui.busy => section \in AlwaysOpen) /\ ~Is(k, Switches) /\ v # ui.inputs[k]
  BY DEF Enter
<1>2. v \in Values \ {Absent, None}
  BY ValueFacts, Zenon
<1>3. ui \in UiType /\ hist \in HistType
  BY DEF TypeInv
<1>4. CASE Is(k, Typing)
  <2>1. Saves(k, v, Saving)
    BY <1>4, Zenon DEF Enter, Typing
  <2>2. ui' = [ui EXCEPT !.busy = TRUE] /\ Asks(One(k, v), {k}, {}, {k})
    BY <1>2, <2>1, SavesFacts DEF Saving
  <2>3. Page(ui.inputs, ui.kept, TRUE, ui.asking)
    <3>1. /\ ui.inputs \in [Fields -> Values] /\ ui.kept \in [Fields -> Values]
          /\ ui.asking \in BOOLEAN
      BY <1>3 DEF UiType
    <3>2. ui' = [ui EXCEPT !.inputs = ui.inputs, !.kept = ui.kept, !.busy = TRUE, !.asking = ui.asking]
      BY <2>2, UiParts
    <3> QED
      BY <3>1, <3>2, PageFacts
  <2> QED
    BY <1>1, <1>2, <1>4, <2>2, <2>3
<1>5. CASE ~Is(k, Typing)
  <2> DEFINE i == IF Is(k, {"stuck"}) THEN ui.inputs ELSE [ui.inputs EXCEPT ![k] = v]
             c == IF Is(k, {"stuck"}) THEN [ui.kept EXCEPT ![k] = v] ELSE ui.kept
             r == hist.raced \/ \E s \in InFlight : jobs[s].op = "find"
             m == hist.meant \ Affects(k)
             t == hist.touched \cup {k}
             n == hist.asked + 1
  <2>1. /\ section' = section /\ server' = server /\ jobs' = jobs
        /\ ui' = IF Is(k, {"stuck"}) THEN [ui EXCEPT !.kept[k] = v] ELSE [ui EXCEPT !.inputs[k] = v]
        /\ hist' = [hist EXCEPT !.asked = n, !.meant = m, !.touched = t, !.raced = r]
    BY <1>5, Zenon DEF Enter, Typing
  <2>2. Page(i, c, ui.busy, ui.asking)
    <3>1. i \in [Fields -> Values] /\ c \in [Fields -> Values] /\ ui.busy \in BOOLEAN /\ ui.asking \in BOOLEAN
      BY <1>2, <1>3 DEF UiType
    <3>2. CASE Is(k, {"stuck"})
      <4>1. ui' = [ui EXCEPT !.kept = c]
        BY <2>1, <3>2
      <4>2. i = ui.inputs
        BY <3>2
      <4> HIDE DEF c, i
      <4>3. ui' = [ui EXCEPT !.inputs = i, !.kept = c, !.busy = ui.busy, !.asking = ui.asking]
        BY <4>1, <4>2, UiParts
      <4> QED
        BY <3>1, <4>3, PageFacts
    <3>3. CASE ~Is(k, {"stuck"})
      <4>1. ui' = [ui EXCEPT !.inputs = i]
        BY <2>1, <3>3
      <4>2. c = ui.kept
        BY <3>3
      <4> HIDE DEF c, i
      <4>3. ui' = [ui EXCEPT !.inputs = i, !.kept = c, !.busy = ui.busy, !.asking = ui.asking]
        BY <4>1, <4>2, UiParts
      <4> QED
        BY <3>1, <4>3, PageFacts
    <3> QED
      BY <3>2, <3>3
  <2>3. n \in Nat /\ m \in SUBSET Fields /\ t \in SUBSET Fields /\ r \in BOOLEAN
    BY <1>3 DEF HistType
  <2>4. Noted(m, hist.told, t, r, hist.unsaved)
    <3> HIDE DEF n, m, t, r
    <3>1. hist' \in HistType
      BY <1>3, <2>1, <2>3 DEF HistType
    <3> QED
      BY <1>3, <2>1, <3>1 DEF HistType, Noted
  <2>5. hist'.raced = r
    BY <2>4, Zenon DEF Noted
  <2>6. Noted(m, hist.told, t, hist'.raced, hist.unsaved)
    BY <2>4, <2>5
  <2> QED
    BY <1>1, <1>2, <1>5, <2>1, <2>2, <2>5, <2>6, Zenon DEF Does
<1> QED
  BY <1>4, <1>5

(* Updates of the page that leave all or some of it. *)
LEMMA PageParts ==
  ASSUME TypeInv
  PROVE  /\ \A i \in [Fields -> Values] :
              ui' = [ui EXCEPT !.inputs = i] => Page(i, ui.kept, ui.busy, ui.asking)
         /\ \A i \in [Fields -> Values], b \in BOOLEAN :
              ui' = [ui EXCEPT !.inputs = i, !.busy = b] => Page(i, ui.kept, b, ui.asking)
         /\ \A c \in [Fields -> Values] :
              ui' = [ui EXCEPT !.kept = c] => Page(ui.inputs, c, ui.busy, ui.asking)
         /\ \A b \in BOOLEAN :
              ui' = [ui EXCEPT !.busy = b] => Page(ui.inputs, ui.kept, b, ui.asking)
         /\ \A a \in BOOLEAN :
              ui' = [ui EXCEPT !.asking = a] => Page(ui.inputs, ui.kept, ui.busy, a)
         /\ ui' = ui => Page(ui.inputs, ui.kept, ui.busy, ui.asking)
<1> DEFINE i0 == ui.inputs
           c0 == ui.kept
           b0 == ui.busy
           a0 == ui.asking
<1>1. /\ i0 \in [Fields -> Values] /\ c0 \in [Fields -> Values] /\ b0 \in BOOLEAN /\ a0 \in BOOLEAN
  BY DEF TypeInv, UiType
<1>2. ASSUME NEW i \in [Fields -> Values], ui' = [ui EXCEPT !.inputs = i]
      PROVE  Page(i, c0, b0, a0)
  <2>1. ui' = [ui EXCEPT !.inputs = i, !.kept = c0, !.busy = b0, !.asking = a0]
    BY <1>2, UiParts
  <2> HIDE DEF c0, b0, a0
  <2> QED
    BY <1>1, <2>1, PageFacts
<1>3. ASSUME NEW i \in [Fields -> Values], NEW b \in BOOLEAN, ui' = [ui EXCEPT !.inputs = i, !.busy = b]
      PROVE  Page(i, c0, b, a0)
  <2>1. ui' = [ui EXCEPT !.inputs = i, !.kept = c0, !.busy = b, !.asking = a0]
    BY <1>3, UiParts
  <2> HIDE DEF c0, a0
  <2> QED
    BY <1>1, <2>1, PageFacts
<1>4. ASSUME NEW c \in [Fields -> Values], ui' = [ui EXCEPT !.kept = c]
      PROVE  Page(i0, c, b0, a0)
  <2>1. ui' = [ui EXCEPT !.inputs = i0, !.kept = c, !.busy = b0, !.asking = a0]
    BY <1>4, UiParts
  <2> HIDE DEF i0, b0, a0
  <2> QED
    BY <1>1, <2>1, PageFacts
<1>5. ASSUME NEW b \in BOOLEAN, ui' = [ui EXCEPT !.busy = b]
      PROVE  Page(i0, c0, b, a0)
  <2>1. ui' = [ui EXCEPT !.inputs = i0, !.kept = c0, !.busy = b, !.asking = a0]
    BY <1>5, UiParts
  <2> HIDE DEF i0, c0, a0
  <2> QED
    BY <1>1, <2>1, PageFacts
<1>6. ASSUME NEW a \in BOOLEAN, ui' = [ui EXCEPT !.asking = a]
      PROVE  Page(i0, c0, b0, a)
  <2>1. ui' = [ui EXCEPT !.inputs = i0, !.kept = c0, !.busy = b0, !.asking = a]
    BY <1>6, UiParts
  <2> HIDE DEF i0, c0, b0
  <2> QED
    BY <1>1, <2>1, PageFacts
<1>7. ASSUME ui' = ui
      PROVE  Page(i0, c0, b0, a0)
  <2>1. ui' = [ui EXCEPT !.inputs = i0, !.kept = c0, !.busy = b0, !.asking = a0]
    BY <1>7, UiParts
  <2> HIDE DEF i0, c0, b0, a0
  <2> QED
    BY <1>1, <2>1, PageFacts
<1> QED
  BY <1>2, <1>3, <1>4, <1>5, <1>6, <1>7, Zenon

(* What a switch does: it asks for confirmation, or saves the opposite. *)
LEMMA SwitchFacts ==
  ASSUME TypeInv, NEW k \in Fields, Switch(k)
  PROVE  /\ Legacy /\ Is(k, {"switch", "guarded"}) /\ Flip(ui.inputs[k]) \in Values
         /\ \/ /\ section' = section /\ server' = server /\ jobs' = jobs /\ Silent
               /\ Page(ui.inputs, ui.kept, ui.busy, TRUE)
            \/ /\ Asks(One(k, Flip(ui.inputs[k])), {k}, {}, {k})
               /\ Page(ui.inputs, ui.kept, TRUE, ui.asking)
<1>1. Legacy /\ Is(k, {"switch", "guarded"})
  BY DEF Switch
<1>2. ui \in UiType /\ hist \in HistType
  BY DEF TypeInv
<1>3. Flip(ui.inputs[k]) \in Values
  <2>1. ui.inputs[k] \in Values
    BY <1>2 DEF UiType
  <2> QED
    BY <2>1, ValueFacts, Zenon
<1>4. CASE Is(k, {"guarded"}) /\ ui.inputs[k] = "true" /\ ~ui.asking
  <2>1. /\ section' = section /\ server' = server /\ jobs' = jobs
        /\ ui' = [ui EXCEPT !.asking = TRUE] /\ hist' = [hist EXCEPT !.asked = @ + 1]
    BY <1>4 DEF Switch
  <2>2. Silent
    <3> DEFINE n == hist.asked + 1
    <3>1. n \in Nat /\ hist' = [hist EXCEPT !.asked = n]
      BY <1>2, <2>1 DEF HistType
    <3> HIDE DEF n
    <3>2. hist' \in HistType
      BY <1>2, <3>1 DEF HistType
    <3> QED
      BY <1>2, <3>1, <3>2 DEF HistType, Noted, Silent
  <2> QED
    BY <1>1, <1>3, <2>1, <2>2, PageParts
<1>5. CASE ~(Is(k, {"guarded"}) /\ ui.inputs[k] = "true" /\ ~ui.asking)
  <2>1. Saves(k, Flip(ui.inputs[k]), Saving)
    BY <1>5, Zenon DEF Switch
  <2>2. ui' = [ui EXCEPT !.busy = TRUE] /\ Asks(One(k, Flip(ui.inputs[k])), {k}, {}, {k})
    BY <1>3, <2>1, SavesFacts DEF Saving
  <2> QED
    BY <1>1, <1>3, <2>2, PageParts
<1> QED
  BY <1>4, <1>5

(* What the answer to the warning does: the switch is saved, or nothing is. *)
LEMMA WarnedFacts ==
  ASSUME TypeInv, NEW k \in Fields, Warned(k)
  PROVE  /\ ui.asking /\ Is(k, {"guarded"}) /\ Flip(ui.inputs[k]) \in Values
         /\ \/ /\ Asks(One(k, Flip(ui.inputs[k])), {k}, {}, {k})
               /\ Page(ui.inputs, ui.kept, TRUE, FALSE)
            \/ /\ section' = section /\ server' = server /\ jobs' = jobs /\ hist' = hist
               /\ Page(ui.inputs, ui.kept, ui.busy, FALSE)
<1>1. ui.asking /\ Is(k, {"guarded"})
  BY DEF Warned
<1>2. ui \in UiType
  BY DEF TypeInv
<1>3. Flip(ui.inputs[k]) \in Values
  <2>1. ui.inputs[k] \in Values
    BY <1>2 DEF UiType
  <2> QED
    BY <2>1, ValueFacts, Zenon
<1>4. CASE Saves(k, Flip(ui.inputs[k]), [Saving EXCEPT !.asking = FALSE])
  <2>1. ui' = [Saving EXCEPT !.asking = FALSE] /\ Asks(One(k, Flip(ui.inputs[k])), {k}, {}, {k})
    BY <1>3, <1>4, SavesFacts
  <2>2. Page(ui.inputs, ui.kept, TRUE, FALSE)
    <3>1. /\ ui.inputs \in [Fields -> Values] /\ ui.kept \in [Fields -> Values]
      BY <1>2 DEF UiType
    <3>2. ui' = [ui EXCEPT !.inputs = ui.inputs, !.kept = ui.kept, !.busy = TRUE, !.asking = FALSE]
      BY <1>2, <2>1 DEF UiType, Saving
    <3> QED
      BY <3>1, <3>2, PageFacts
  <2> QED
    BY <1>1, <1>3, <2>1, <2>2
<1>5. CASE ui' = [ui EXCEPT !.asking = FALSE] /\ UNCHANGED <<section, server, jobs, hist>>
  <2>1. Page(ui.inputs, ui.kept, ui.busy, FALSE)
    BY <1>5, PageParts
  <2> QED
    BY <1>1, <1>3, <1>5, <2>1
<1> QED
  BY <1>4, <1>5 DEF Warned

(* What a submission does: the queue of the inputs is asked for, and what
   is in error is told at once. *)
LEMMA SubmitFacts ==
  ASSUME TypeInv, Submit
  PROVE  /\ Legacy /\ HasButton /\ \A k \in Wells : ui.inputs[k] = Blank
         /\ Queue(ui.inputs) \in Maps(Values)
         /\ Asks(Queue(ui.inputs), ButtonFields, {k \in ButtonFields : ~Before(k, ui.inputs)}, {})
         /\ Page(ui.inputs, ui.kept, ui.busy \/ DOMAIN Queue(ui.inputs) # {}, ui.asking)
<1> DEFINE q == Queue(ui.inputs)
           quit == {k \in ButtonFields : ~Before(k, ui.inputs)}
           b == ui.busy \/ DOMAIN q # {}
<1>1. /\ Legacy /\ HasButton /\ \A k \in Wells : ui.inputs[k] = Blank
      /\ Begins(Saver(q), [ui EXCEPT !.busy = b], ButtonFields, quit, {})
  BY Zenon DEF Submit, Acts
<1>2. section \in Studied /\ ui \in UiType
  BY DEF TypeInv
<1>3. q \in Maps(Values)
  <2>1. ui.inputs \in [Fields -> Values]
    BY <1>2 DEF UiType
  <2> QED
    BY <1>2, <2>1, QueueFacts
<1>4. ButtonFields \in SUBSET Fields /\ quit \in SUBSET Fields /\ {} \in SUBSET Fields
  BY DEF ButtonFields
<1>5. b \in BOOLEAN
  BY <1>2 DEF UiType
<1> HIDE DEF q, quit, b
<1>6. ui' = [ui EXCEPT !.busy = b] /\ Asks(q, ButtonFields, quit, {})
  BY <1>1, <1>3, <1>4, AskFacts
<1>7. Page(ui.inputs, ui.kept, b, ui.asking)
  BY <1>5, <1>6, PageParts
<1> QED
  BY <1>1, <1>3, <1>6, <1>7 DEF q, quit, b

(* What submitOidc does: it looks the endpoints up, or is in error. *)
LEMMA SubmitOidcFacts ==
  ASSUME TypeInv, SubmitOidc
  PROVE  /\ Legacy /\ HasButton /\ Wells # {} /\ ui' = ui /\ ui.inputs \in Maps(Stored)
         /\ \/ Looks(ui.inputs, ButtonFields)
            \/ Asks(Nothing, ButtonFields, ButtonFields, {})
<1>1. Legacy /\ HasButton /\ Wells # {}
  BY DEF SubmitOidc
<1>2. ui.inputs \in Maps(Stored)
  <2>1. ui.inputs \in [Fields -> Stored]
    BY ValueFacts DEF TypeInv, UiType
  <2>2. Fields \in SUBSET Fields
    OBVIOUS
  <2> QED
    BY <2>1, <2>2, MapFacts, Zenon
<1>3. ButtonFields \in SUBSET Fields /\ {} \in SUBSET Fields
  BY DEF ButtonFields
<1>4. CASE Acts(Handler("find", Nothing, ui.inputs), ui, ButtonFields, {})
  <2>1. Begins(Finder(ui.inputs), ui, ButtonFields, {}, {})
    BY <1>4, Zenon DEF Acts, Finder
  <2> QED
    BY <1>1, <1>2, <1>3, <2>1, LookFacts
<1>5. CASE Acts(Saver(Nothing), ui, ButtonFields, ButtonFields)
  <2>1. Begins(Saver(Nothing), ui, ButtonFields, ButtonFields, {})
    BY <1>5, Zenon DEF Acts
  <2>2. Nothing \in Maps(Values)
    BY SmallQueues, Zenon
  <2> QED
    BY <1>1, <1>2, <1>3, <2>1, <2>2, AskFacts
<1> QED
  BY <1>4, <1>5 DEF SubmitOidc

(* What leaving a field of the console does: what was entered is saved, or
   only kept. *)
LEMMA LeaveFacts ==
  ASSUME TypeInv, NEW k \in Fields, NEW v \in Texts(k), Leave(k, v)
  PROVE  LET kept == IF v = Box(k) THEN ui.kept ELSE [ui.kept EXCEPT ![k] = v]
         IN  /\ InConsole /\ ui.loaded /\ k \in Boxes /\ v \in Values \ {Absent, None}
             /\ \/ /\ v # Known(k) /\ (v # Blank \/ Is(k, {"area"}))
                   /\ Asks(One(k, v), {k}, {}, {k})
                   /\ Page([ui.inputs EXCEPT ![k] = v], kept, ui.busy, ui.asking)
                \/ /\ v = Known(k) \/ (v = Blank /\ ~Is(k, {"area"}))
                   /\ section' = section /\ server' = server /\ jobs' = jobs
                   /\ v # Box(k) /\ Page(ui.inputs, kept, ui.busy, ui.asking)
                   /\ Noted(IF v = Known(k) THEN hist.meant ELSE hist.meant \ {k}, hist.told,
                            hist.touched, hist.raced, hist.unsaved)
<1> DEFINE kept == IF v = Box(k) THEN ui.kept ELSE [ui.kept EXCEPT ![k] = v]
           u == IF v = Box(k) THEN ui ELSE [ui EXCEPT !.kept[k] = v]
<1>1. InConsole /\ ui.loaded /\ k \in Boxes
  BY DEF Leave
<1>2. v \in Values \ {Absent, None}
  BY ValueFacts, Zenon
<1>3. ui \in UiType /\ hist \in HistType
  BY DEF TypeInv
<1>4. u = [ui EXCEPT !.kept = kept] /\ kept \in [Fields -> Values]
  <2>1. ui.kept \in [Fields -> Values] /\ ui = [ui EXCEPT !.kept = ui.kept]
    BY <1>3 DEF UiType
  <2> QED
    BY <1>2, <1>3, <2>1 DEF UiType
<1>5. CASE v # Known(k) /\ (v # Blank \/ Is(k, {"area"}))
  <2>1. Saves(k, v, Shown(u, k, v))
    BY <1>5, Zenon DEF Leave, Save
  <2> HIDE DEF u
  <2>2. ui' = Shown(u, k, v) /\ Asks(One(k, v), {k}, {}, {k})
    BY <1>2, <2>1, SavesFacts
  <2> DEFINE i == [ui.inputs EXCEPT ![k] = v]
  <2>3. Page(i, kept, ui.busy, ui.asking)
    <3> HIDE DEF kept
    <3>1. ui' = [ui EXCEPT !.kept = kept, !.inputs[k] = v]
      BY <1>4, <2>2, Zenon DEF Shown
    <3>2. ui' = [ui EXCEPT !.inputs = i, !.kept = kept, !.busy = ui.busy, !.asking = ui.asking]
      BY <1>3, <1>4, <3>1 DEF UiType
    <3>3. i \in [Fields -> Values] /\ ui.busy \in BOOLEAN /\ ui.asking \in BOOLEAN
      BY <1>2, <1>3 DEF UiType
    <3> HIDE DEF i
    <3> QED
      BY <1>4, <3>2, <3>3, PageFacts
  <2> QED
    BY <1>1, <1>2, <1>5, <2>2, <2>3, Zenon
<1>6. CASE ~(v # Known(k) /\ (v # Blank \/ Is(k, {"area"})))
  <2> DEFINE n == hist.asked + 1
             m == IF v = Known(k) THEN hist.meant ELSE hist.meant \ {k}
  <2>1. /\ u # ui /\ ui' = u
        /\ section' = section /\ server' = server /\ jobs' = jobs
        /\ hist' = [hist EXCEPT !.asked = n, !.meant = m]
    BY <1>6, Zenon DEF Leave
  <2>2. v # Box(k)
    BY <2>1, Zenon
  <2> HIDE DEF u
  <2>3. Page(ui.inputs, kept, ui.busy, ui.asking)
    <3> HIDE DEF kept
    <3> QED
      BY <1>4, <2>1, PageParts
  <2>4. Noted(m, hist.told, hist.touched, hist.raced, hist.unsaved)
    <3>1. n \in Nat /\ m \in SUBSET Fields
      BY <1>3 DEF HistType
    <3> HIDE DEF n, m
    <3>2. hist' \in HistType
      BY <1>3, <2>1, <3>1 DEF HistType
    <3> QED
      BY <1>3, <2>1, <3>2 DEF HistType, Noted
  <2> QED
    BY <1>1, <1>2, <1>6, <2>1, <2>2, <2>3, <2>4, Zenon
<1> QED
  BY <1>5, <1>6, Zenon

(* What a switch of the console does: it is shown and saved at once, single
   sign-on only if it is ready. *)
LEMMA ClickFacts ==
  ASSUME TypeInv, NEW k \in Fields, Click(k)
  PROVE  LET v == Flip(ui.inputs[k])
         IN  /\ InConsole /\ ui.loaded /\ Is(k, {"switch", "enable"}) /\ (Is(k, {"enable"}) => Ready)
             /\ v \in Values \ {Absent, None, Blank} /\ Asks(One(k, v), {k}, {}, {k})
             /\ Page([ui.inputs EXCEPT ![k] = v], ui.kept, ui.busy, ui.asking)
<1> DEFINE v == Flip(ui.inputs[k])
<1>1. /\ InConsole /\ ui.loaded /\ Is(k, {"switch", "enable"}) /\ (Is(k, {"enable"}) => Ready)
      /\ Saves(k, v, Shown(ui, k, v))
  BY Zenon DEF Click, Save
<1>2. ui \in UiType
  BY DEF TypeInv
<1>3. v \in Values \ {Absent, None, Blank}
  <2>1. ui.inputs[k] \in Values
    BY <1>2 DEF UiType
  <2> QED
    BY <2>1, ValueFacts, Zenon
<1> HIDE DEF v
<1>4. ui' = Shown(ui, k, v) /\ Asks(One(k, v), {k}, {}, {k})
  BY <1>1, <1>3, SavesFacts
<1> DEFINE i == [ui.inputs EXCEPT ![k] = v]
<1>5. Page(i, ui.kept, ui.busy, ui.asking)
  <2>1. ui' = [ui EXCEPT !.inputs = i] /\ i \in [Fields -> Values]
    BY <1>2, <1>3, <1>4 DEF Shown, UiType
  <2> HIDE DEF i
  <2> QED
    BY <2>1, PageParts
<1> QED
  BY <1>1, <1>3, <1>4, <1>5, Zenon DEF v

(* What choosing the address to look up does: it is kept, and not yet meant
   to be saved. *)
LEMMA PickWellFacts ==
  ASSUME TypeInv, NEW k \in Fields, NEW v \in Texts(k), PickWell(k, v)
  PROVE  /\ InConsole /\ ui.loaded /\ Is(k, {"lookup"}) /\ v \in Values \ {Absent, None}
         /\ section' = section /\ server' = server /\ jobs' = jobs
         /\ Page(ui.inputs, [ui.kept EXCEPT ![k] = v], ui.busy, ui.asking)
         /\ Noted(hist.meant \ {k}, hist.told, hist.touched, hist.raced, hist.unsaved)
<1> DEFINE n == hist.asked + 1
           m == hist.meant \ {k}
           c == [ui.kept EXCEPT ![k] = v]
<1>1. /\ InConsole /\ ui.loaded /\ Is(k, {"lookup"})
      /\ section' = section /\ server' = server /\ jobs' = jobs
      /\ ui' = [ui EXCEPT !.kept[k] = v]
      /\ hist' = [hist EXCEPT !.asked = n, !.meant = m]
  BY DEF PickWell
<1>2. ui \in UiType /\ hist \in HistType
  BY DEF TypeInv
<1>3. v \in Values \ {Absent, None}
  BY ValueFacts, Zenon
<1>4. Page(ui.inputs, c, ui.busy, ui.asking)
  <2>1. ui' = [ui EXCEPT !.kept = c] /\ c \in [Fields -> Values]
    BY <1>1, <1>2, <1>3 DEF UiType
  <2> HIDE DEF c
  <2> QED
    BY <2>1, PageParts
<1>5. Noted(m, hist.told, hist.touched, hist.raced, hist.unsaved)
  <2>1. n \in Nat /\ m \in SUBSET Fields
    BY <1>2 DEF HistType
  <2> HIDE DEF n, m
  <2>2. hist' \in HistType
    BY <1>1, <1>2, <2>1 DEF HistType
  <2> QED
    BY <1>1, <1>2, <2>2 DEF HistType, Noted
<1> QED
  BY <1>1, <1>3, <1>4, <1>5

(* What discover does: the look-up is asked for, and the form is busy. *)
LEMMA DiscoverFacts ==
  ASSUME TypeInv, NEW k \in Fields, Discover(k)
  PROVE  /\ InConsole /\ ui.loaded /\ Is(k, {"lookup"}) /\ ~ui.busy
         /\ One(k, ui.kept[k]) \in Maps(Values) /\ One(k, ui.kept[k]) \in Maps(Stored)
         /\ DOMAIN One(k, ui.kept[k]) = {k} /\ Looks(One(k, ui.kept[k]), {})
         /\ Page(ui.inputs, ui.kept, TRUE, ui.asking)
<1> DEFINE d == One(k, ui.kept[k])
<1>1. /\ InConsole /\ ui.loaded /\ Is(k, {"lookup"}) /\ ~ui.busy
      /\ Begins(Finder(d), [ui EXCEPT !.busy = TRUE], {}, {}, {})
  BY Zenon DEF Discover, Acts, Finder, One
<1>2. ui \in UiType
  BY DEF TypeInv
<1>3. ui.kept[k] \in Values /\ ui.kept[k] \in Stored
  BY <1>2, ValueFacts DEF UiType
<1>4. d \in Maps(Values) /\ DOMAIN d = {k} /\ d \in Maps(Stored)
  BY <1>3, SmallQueues, Zenon DEF One
<1> HIDE DEF d
<1>5. {} \in SUBSET Fields
  OBVIOUS
<1>6. ui' = [ui EXCEPT !.busy = TRUE] /\ Looks(d, {})
  BY <1>1, <1>4, <1>5, LookFacts
<1>7. Page(ui.inputs, ui.kept, TRUE, ui.asking)
  BY <1>6, PageParts
<1> QED
  BY <1>1, <1>4, <1>6, <1>7 DEF d

-----------------------------------------------------------------------------
(* The types, and what a handler holds, are kept                           *)

(* The section does not change, nor do the types that depend on it. *)
LEMMA SameTypes ==
  ASSUME section' = section
  PROVE  /\ UiType' = UiType /\ HistType' = HistType /\ Job' = Job /\ Nobody' = Nobody
         /\ [Fields -> Stored]' = [Fields -> Stored] /\ Maps(Values)' = Maps(Values)
<1>1. Fields' = Fields
  BY SameSection
<1>2. Values' = Values /\ Stored' = Stored
  BY DEF Values, Stored, Blank, Absent, None, EmptyMap
<1>3. UiType' = UiType
  BY <1>1, <1>2 DEF UiType
<1>4. HistType' = HistType
  BY <1>1 DEF HistType
<1>5. Maps(Values)' = Maps(Values) /\ Maps(Stored)' = Maps(Stored)
  BY <1>1, <1>2 DEF Maps
<1>6. Job' = Job
  BY <1>5 DEF Job
<1>7. Nobody' = Nobody
  BY DEF Nobody
<1> QED
  BY <1>1, <1>2, <1>3, <1>4, <1>5, <1>6, <1>7

\* What a step does to the handler in a slot: nothing, it ends it, or starts it on
\* what is to be saved or looked up, or it is answered.
Gateless(q) == ~InConsole => \A k \in DOMAIN q : ~Is(k, {"gate"})
Sought(d) ==
  /\ d \in Maps(Values)
  /\ InConsole => \E k \in Fields : Is(k, {"lookup"}) /\ k \in DOMAIN d
  /\ ~InConsole => Wells # {} /\ DOMAIN d = Fields
Ends(s) == jobs'[s] = Nobody
StartsSaving(s) == \E q \in Maps(Values) : jobs'[s] = Saver(q) /\ DOMAIN q # {} /\ Gateless(q)
StartsLooking(s) == \E d \in Maps(Stored) : jobs'[s] = Finder(d) /\ Sought(d)
Answered(s) ==
  /\ jobs'[s].op = jobs[s].op /\ jobs[s].op \in {"save", "load"} /\ jobs'[s].queue = jobs[s].queue
  /\ jobs[s].op = "load" => jobs'[s].data = server
HandlerStep(s) ==
  jobs'[s] = jobs[s] \/ Ends(s) \/ StartsSaving(s) \/ StartsLooking(s) \/ Answered(s)

\* What a step has to do to keep the types and what handlers hold.
WellTyped ==
  /\ section' = section
  /\ server' \in [Fields -> Stored] /\ Mapped(server')
  /\ ui' \in UiType /\ hist' \in HistType /\ jobs' \in [Slots -> Job \cup {Nobody}]
  /\ \A s \in Slots : HandlerStep(s)
  /\ ui'.loaded => ui.loaded \/ \A s \in Slots : jobs'[s].op # "load"

(* A step that is well typed keeps the types. *)
LEMMA TypeStep ==
  ASSUME TypeInv, JobInv, WellTyped
  PROVE  TypeInv' /\ JobInv'
<1>1. section' = section /\ Fields' = Fields /\ InConsole' = InConsole /\ Rules' = Rules /\ Wells' = Wells
  BY SameSection DEF WellTyped
<1>2. TypeInv'
  <2>1. Mapped(server') <=> Mapped(server)'
    BY <1>1 DEF Mapped, Is, EmptyMap
  <2> QED
    BY <1>1, <2>1, SameTypes DEF TypeInv, WellTyped
<1>3. JobInv'
  <2> SUFFICES ASSUME NEW s \in Slots
               PROVE  /\ Does(s, "load")' => \A t \in Slots : Does(t, "load")' => t = s
                      /\ Does(s, "save")' =>
                           /\ DOMAIN jobs'[s].queue # {}
                           /\ ~InConsole => \A k \in DOMAIN jobs'[s].queue : ~Is(k, {"gate"})
                      /\ Does(s, "load")' =>
                           /\ ~ui'.loaded /\ DOMAIN jobs'[s].queue = {}
                           /\ jobs'[s].phase = "served" => DOMAIN jobs'[s].data = Fields /\ Mapped(jobs'[s].data)
                      /\ Does(s, "find")' =>
                           /\ DOMAIN jobs'[s].queue = {} /\ jobs'[s].data \in Maps(Values)
                           /\ InConsole => \E k \in Fields : Is(k, {"lookup"}) /\ k \in DOMAIN jobs'[s].data
                           /\ ~InConsole => Wells # {} /\ DOMAIN jobs'[s].data = Fields
    BY <1>1, SameTypes, Zenon DEF JobInv, Is, Mapped, EmptyMap
  <2>0. \A t \in Slots : Does(t, "load")' => Does(t, "load")
    <3> SUFFICES ASSUME NEW t \in Slots, Does(t, "load")' PROVE Does(t, "load")
      OBVIOUS
    <3>1. HandlerStep(t) /\ jobs'[t].op = "load"
      BY DEF WellTyped, Does
    <3>2. ~Ends(t) /\ ~StartsSaving(t) /\ ~StartsLooking(t)
      BY <3>1, NobodyFacts, SaverFacts, FinderFacts DEF Ends, StartsSaving, StartsLooking
    <3> QED
      BY <3>1, <3>2 DEF HandlerStep, Answered, Does
  <2>1. HandlerStep(s)
    BY DEF WellTyped
  <2>2. /\ Does(s, "load")' => \A t \in Slots : Does(t, "load")' => t = s
        /\ Does(s, "load")' => ~ui'.loaded
    <3>1. Does(s, "load") => ~ui.loaded /\ \A t \in Slots : Does(t, "load") => t = s
      BY DEF JobInv
    <3> QED
      BY <2>0, <3>1 DEF WellTyped, Does
  <2>3. CASE jobs'[s] = jobs[s]
    BY <2>2, <2>3 DEF JobInv, Does
  <2>4. CASE Ends(s)
    BY <2>4, NobodyFacts DEF Ends, Does
  <2>5. CASE StartsSaving(s)
    BY <2>5, SaverFacts DEF StartsSaving, Does, Gateless
  <2>6. CASE StartsLooking(s)
    BY <2>6, FinderFacts, SmallQueues DEF StartsLooking, Does, Sought
  <2>7. CASE Answered(s)
    <3>1. DOMAIN server = Fields /\ Mapped(server)
      BY DEF TypeInv
    <3> QED
      BY <2>2, <2>7, <3>1 DEF JobInv, Answered, Does
  <2> QED
    BY <2>1, <2>3, <2>4, <2>5, <2>6, <2>7 DEF HandlerStep
<1> QED
  BY <1>2, <1>3

(* A handler that saves no gate is well typed. *)
LEMMA AsksTyped ==
  ASSUME TypeInv, JobInv, NEW q \in Maps(Values), Gateless(q), NEW ks, NEW quit, NEW touched,
         Asks(q, ks, quit, touched), ui' \in UiType, ui'.loaded = ui.loaded
  PROVE  WellTyped
<1>1. \A s \in Slots : HandlerStep(s)
  BY DEF Asks, Started, HandlerStep, StartsSaving
<1> QED
  BY <1>1 DEF WellTyped, Asks, TypeInv

(* So is a look-up for what can be sought. *)
LEMMA LooksTyped ==
  ASSUME TypeInv, JobInv, NEW d \in Maps(Stored), Sought(d), NEW ks, Looks(d, ks),
         ui' \in UiType, ui'.loaded = ui.loaded
  PROVE  WellTyped
<1>1. \A s \in Slots : HandlerStep(s)
  BY DEF Looks, Started, HandlerStep, StartsLooking
<1> QED
  BY <1>1 DEF WellTyped, Looks, TypeInv

(* So is a handler that goes on with a queue. *)
LEMMA MovedTyped ==
  ASSUME TypeInv, JobInv, section' = section, server' = server, ui' \in UiType, ui'.loaded = ui.loaded,
         hist' \in HistType, NEW q \in Maps(Values), Gateless(q), NEW s \in Slots, Moved(s, Then(q))
  PROVE  WellTyped
<1>1. HandlerStep(s)
  BY ThenFacts DEF Moved, HandlerStep, StartsSaving, Ends
<1>2. \A t \in Slots : HandlerStep(t)
  BY <1>1 DEF HandlerStep, Moved
<1> QED
  BY <1>2 DEF WellTyped, Moved, TypeInv

(* So is a handler that ends; only that of a load may have changed whether
   the page is loaded. *)
LEMMA EndedTyped ==
  ASSUME TypeInv, JobInv, section' = section, server' = server, ui' \in UiType,
         hist' \in HistType, NEW s \in Slots, Moved(s, Nobody),
         ui'.loaded = ui.loaded \/ Does(s, "load")
  PROVE  WellTyped
<1>1. \A t \in Slots : HandlerStep(t)
  BY DEF Moved, HandlerStep, Ends
<1>2. Does(s, "load") => \A t \in Slots : jobs'[t].op # "load"
  BY NobodyFacts DEF JobInv, Moved, Does
<1> QED
  BY <1>1, <1>2 DEF WellTyped, Moved, TypeInv

(* So is a step that starts, moves and ends no handler. *)
LEMMA IdleTyped ==
  ASSUME TypeInv, JobInv, section' = section, server' = server, ui' \in UiType, jobs' = jobs,
         hist' \in HistType, ui'.loaded = ui.loaded
  PROVE  WellTyped
BY DEF WellTyped, HandlerStep, TypeInv

(* So is an answer of the server. *)
LEMMA ServeTyped ==
  ASSUME TypeInv, JobInv, NEW s \in Slots, Serve(s)
  PROVE  WellTyped
<1> DEFINE q == jobs[s].queue
           k == First(q)
<1>1. /\ section' = section /\ ui' = ui /\ hist' \in HistType
      /\ jobs[s].op \in {"save", "load"} /\ Moved(s, jobs'[s])
      /\ jobs'[s].op = jobs[s].op /\ jobs'[s].queue = jobs[s].queue
      /\ jobs'[s].data = IF jobs[s].op = "load" THEN server ELSE jobs[s].data
      /\ server' = IF jobs[s].op = "save" /\ jobs'[s].ok THEN [server EXCEPT ![k] = q[k]] ELSE server
  BY ServeFacts DEF Silent, Noted
<1>2. \A t \in Slots : HandlerStep(t)
  BY <1>1 DEF Moved, HandlerStep, Answered
<1>3. server' \in [Fields -> Stored] /\ Mapped(server')
  <2>1. CASE jobs[s].op = "save"
    <3>1. k \in Fields /\ q[k] \in Values /\ q[k] \in Stored /\ q[k] # EmptyMap
      BY <2>1, AnswerFacts, ValueFacts, Zenon DEF Does
    <3> HIDE DEF k, q
    <3>2. server \in [Fields -> Stored] /\ Mapped(server)
      BY DEF TypeInv
    <3>3. [server EXCEPT ![k] = q[k]] \in [Fields -> Stored]
      BY <3>1, <3>2
    <3>4. Mapped([server EXCEPT ![k] = q[k]])
      BY <3>1, <3>2 DEF Mapped
    <3> QED
      BY <1>1, <3>2, <3>3, <3>4, Zenon
  <2>2. CASE jobs[s].op # "save"
    BY <1>1, <2>2 DEF TypeInv
  <2> QED
    BY <2>1, <2>2
<1>4. jobs' \in [Slots -> Job \cup {Nobody}] /\ ui' \in UiType
  BY <1>1 DEF Moved, TypeInv
<1> QED
  BY <1>1, <1>2, <1>3, <1>4 DEF WellTyped

(* So is a change made elsewhere. *)
LEMMA ElsewhereTyped ==
  ASSUME TypeInv, JobInv, NEW k \in Fields, Elsewhere(k)
  PROVE  WellTyped
<1>1. /\ section' = section /\ ui' = ui /\ jobs' = jobs /\ hist' \in HistType
  BY ElsewhereFacts
<1>2. PICK v \in {"a", "b", "true", "false"} : server' = [server EXCEPT ![k] = v]
  BY ElsewhereFacts
<1>3. v \in Stored /\ v # EmptyMap
  <2>1. {"a", "b", "true", "false", Blank} \subseteq Values \ {Absent, None}
    BY ValueFacts, Zenon
  <2>2. EmptyMap \notin Values /\ Values \subseteq Stored
    BY ValueFacts, Zenon
  <2>3. v \in Values
    BY <2>1
  <2> QED
    BY <2>2, <2>3
<1>4. server' \in [Fields -> Stored] /\ Mapped(server')
  BY <1>2, <1>3 DEF TypeInv, Mapped
<1> QED
  BY <1>1, <1>4 DEF WellTyped, HandlerStep, TypeInv

(* What a legacy page saves is never the token of another section. *)
LEMMA NoGate ==
  /\ \A k \in Fields : \A v \in Values : ~Is(k, {"gate"}) => Gateless(One(k, v))
  /\ TypeInv => \A i \in [Fields -> Values] : Gateless(Queue(i))
  /\ \A q, r : DOMAIN r \subseteq DOMAIN q /\ Gateless(q) => Gateless(r)
<1>1. \A k \in Fields : \A v \in Values : ~Is(k, {"gate"}) => Gateless(One(k, v))
  BY DEF Gateless, One
<1>2. ASSUME TypeInv, NEW i \in [Fields -> Values] PROVE Gateless(Queue(i))
  <2>1. \A k \in DOMAIN Queue(i) : Sends(k, i)
    BY <1>2, QueueFacts DEF TypeInv
  <2>2. \A k : Is(k, {"gate"}) => ~Sends(k, i)
    BY DEF Is, Sends, Switches
  <2> QED
    BY <2>1, <2>2 DEF Gateless
<1>3. \A q, r : DOMAIN r \subseteq DOMAIN q /\ Gateless(q) => Gateless(r)
  BY DEF Gateless
<1> QED
  BY <1>1, <1>2, <1>3

(* What is left of a queue saves no gate either. *)
LEMMA RestGateless ==
  ASSUME TypeInv, JobInv, NEW s \in Slots, Does(s, "save")
  PROVE  Rest(jobs[s].queue) \in Maps(Values) /\ Gateless(Rest(jobs[s].queue))
<1> DEFINE q == jobs[s].queue
           r == Rest(q)
<1>1. Gateless(q)
  BY DEF JobInv, Gateless
<1>2. r \in Maps(Values) /\ DOMAIN r \subseteq DOMAIN q
  BY AnswerFacts
<1> HIDE DEF q, r
<1>3. Gateless(r)
  BY <1>1, <1>2 DEF Gateless
<1> QED
  BY <1>2, <1>3 DEF q, r

(* Every action is well typed. *)
LEMMA NextTyped ==
  ASSUME TypeInv, JobInv, Next
  PROVE  WellTyped
<1>0. section \in Studied /\ ui.inputs \in [Fields -> Values] /\ ui \in UiType
  BY DEF TypeInv, UiType
<1>1. ASSUME NEW s \in Slots, Serve(s) PROVE WellTyped
  BY <1>1, ServeTyped
<1>2. ASSUME NEW s \in Slots, Lost(s) PROVE WellTyped
  BY <1>0, <1>2, LostFacts, EndedTyped DEF Noted
<1>3. ASSUME NEW s \in Slots, Loaded(s) PROVE WellTyped
  <2>1. hist' \in HistType
    BY <1>3, LoadedFacts DEF TypeInv
  <2> QED
    BY <1>3, <2>1, LoadedFacts, EndedTyped
<1>4. ASSUME NEW k \in Fields, Elsewhere(k) PROVE WellTyped
  BY <1>4, ElsewhereTyped
<1>5. ASSUME NEW k \in Fields, NEW v \in Texts(k), Enter(k, v) PROVE WellTyped
  <2>1. CASE Is(k, Typing)
    <3>1. v \in Values /\ ~Is(k, {"gate"})
      BY <1>5, <2>1, EnterFacts DEF Is, Typing
    <3>2. One(k, v) \in Maps(Values) /\ Gateless(One(k, v))
      BY <3>1, OneFacts, NoGate
    <3>3. Asks(One(k, v), {k}, {}, {k}) /\ ui' \in UiType /\ ui'.loaded = ui.loaded
      BY <1>5, <2>1, EnterFacts DEF Page
    <3> QED
      BY <3>2, <3>3, AsksTyped
  <2>2. CASE ~Is(k, Typing)
    BY <1>5, <2>2, EnterFacts, IdleTyped DEF Page, Noted
  <2> QED
    BY <2>1, <2>2
<1>6. ASSUME NEW k \in Fields, Switch(k) \/ Warned(k) PROVE WellTyped
  <2> DEFINE v == Flip(ui.inputs[k])
  <2>1. v \in Values /\ ~Is(k, {"gate"})
    BY <1>6, SwitchFacts, WarnedFacts DEF Is
  <2>2. One(k, v) \in Maps(Values) /\ Gateless(One(k, v))
    BY <2>1, OneFacts, NoGate
  <2>3. ui' \in UiType /\ ui'.loaded = ui.loaded
    BY <1>6, SwitchFacts, WarnedFacts DEF Page
  <2>4. CASE Asks(One(k, v), {k}, {}, {k})
    BY <2>2, <2>3, <2>4, AsksTyped
  <2>5. CASE section' = section /\ server' = server /\ jobs' = jobs /\ hist' \in HistType
    BY <2>3, <2>5, IdleTyped
  <2>6. hist' = hist => hist' \in HistType
    BY DEF TypeInv
  <2>7. Silent => hist' \in HistType
    BY DEF Silent, Noted
  <2> QED
    BY <1>6, <2>4, <2>5, <2>6, <2>7, SwitchFacts, WarnedFacts
<1>7. ASSUME Submit PROVE WellTyped
  <2>1. Gateless(Queue(ui.inputs))
    BY <1>0, NoGate
  <2>2. ui' \in UiType /\ ui'.loaded = ui.loaded
    BY <1>7, SubmitFacts DEF Page
  <2> QED
    BY <1>7, <2>1, <2>2, SubmitFacts, AsksTyped
<1>8. ASSUME SubmitOidc PROVE WellTyped
  <2>1. Wells # {} /\ ui' = ui /\ ui.inputs \in Maps(Stored) /\ ~InConsole
    BY <1>8, SubmitOidcFacts DEF Legacy
  <2>2. Sought(ui.inputs)
    <3>1. Fields \in SUBSET Fields
      OBVIOUS
    <3>2. ui.inputs \in Maps(Values)
      BY <1>0, <3>1, MapFacts, Zenon
    <3>3. DOMAIN ui.inputs = Fields
      BY <1>0
    <3> QED
      BY <2>1, <3>2, <3>3 DEF Sought
  <2>3. CASE Looks(ui.inputs, ButtonFields)
    BY <1>0, <2>1, <2>2, <2>3, LooksTyped
  <2>4. CASE Asks(Nothing, ButtonFields, ButtonFields, {})
    <3>1. Nothing \in Maps(Values) /\ Gateless(Nothing)
      BY SmallQueues DEF Gateless
    <3> QED
      BY <1>0, <2>1, <2>4, <3>1, AsksTyped
  <2> QED
    BY <1>8, <2>3, <2>4, SubmitOidcFacts
<1>9. ASSUME NEW s \in Slots, Updated(s) PROVE WellTyped
  <2>1. Rest(jobs[s].queue) \in Maps(Values) /\ Gateless(Rest(jobs[s].queue))
    BY <1>9, UpdatedFacts, RestGateless
  <2> QED
    BY <1>9, <2>1, UpdatedFacts, MovedTyped DEF Page, Noted
<1>10. ASSUME NEW s \in Slots, OidcFound(s) PROVE WellTyped
  <2>1. PICK i \in [Fields -> Values] :
          /\ Page(IF ui.inputs = jobs[s].data THEN i ELSE ui.inputs, ui.kept,
                      ui.busy \/ DOMAIN Queue(i) # {}, ui.asking)
          /\ Moved(s, Then(Queue(i)))
    BY <1>10, OidcFoundFacts, Zenon
  <2>2. ui' \in UiType /\ ui'.loaded = ui.loaded
    BY <2>1 DEF Page
  <2>3. Queue(i) \in Maps(Values) /\ Gateless(Queue(i))
    BY <1>0, QueueFacts, NoGate
  <2>4. section' = section /\ server' = server /\ hist' \in HistType
    BY <1>10, OidcFoundFacts DEF Noted
  <2> QED
    BY <2>1, <2>2, <2>3, <2>4, MovedTyped
<1>11. ASSUME NEW k \in Fields, NEW v \in Texts(k), Leave(k, v) PROVE WellTyped
  <2>1. InConsole /\ v \in Values
    BY <1>11, LeaveFacts
  <2>2. One(k, v) \in Maps(Values) /\ Gateless(One(k, v))
    BY <2>1, OneFacts DEF Gateless
  <2>3. ui' \in UiType /\ ui'.loaded = ui.loaded
    BY <1>11, LeaveFacts DEF Page
  <2>4. CASE Asks(One(k, v), {k}, {}, {k})
    BY <2>2, <2>3, <2>4, AsksTyped
  <2>5. CASE section' = section /\ server' = server /\ jobs' = jobs /\ hist' \in HistType
    BY <2>3, <2>5, IdleTyped
  <2> QED
    BY <1>11, <2>4, <2>5, LeaveFacts DEF Noted
<1>12. ASSUME NEW k \in Fields, Click(k) PROVE WellTyped
  <2> DEFINE v == Flip(ui.inputs[k])
  <2>1. InConsole /\ v \in Values
    BY <1>12, ClickFacts
  <2>2. One(k, v) \in Maps(Values) /\ Gateless(One(k, v))
    BY <2>1, OneFacts DEF Gateless
  <2>3. ui' \in UiType /\ ui'.loaded = ui.loaded /\ Asks(One(k, v), {k}, {}, {k})
    BY <1>12, ClickFacts DEF Page
  <2> QED
    BY <2>2, <2>3, AsksTyped
<1>13. ASSUME NEW k \in Fields, NEW v \in Texts(k), PickWell(k, v) PROVE WellTyped
  BY <1>13, PickWellFacts, IdleTyped DEF Page, Noted
<1>14. ASSUME NEW k \in Fields, Discover(k) PROVE WellTyped
  <2>1. ui' \in UiType /\ ui'.loaded = ui.loaded
    BY <1>14, DiscoverFacts DEF Page
  <2>2. Sought(One(k, ui.kept[k]))
    BY <1>14, DiscoverFacts DEF Sought
  <2> QED
    BY <1>14, <2>1, <2>2, DiscoverFacts, LooksTyped
<1>15. ASSUME NEW s \in Slots, Discovered(s) PROVE WellTyped
  <2>1. section' = section /\ server' = server /\ InConsole
    BY <1>15, DiscoveredFacts
  <2>2. CASE /\ Moved(s, Nobody) /\ Silent
             /\ \E hung \in BOOLEAN : Page(ui.inputs, ui.kept, hung, ui.asking)
    BY <2>1, <2>2, EndedTyped DEF Page, Silent, Noted
  <2>3. CASE \E q \in Maps(Values) :
                 /\ DOMAIN q = {2, 3} /\ q[2] \in {"a", "b"}
                 /\ Moved(s, Saver(q))
                 /\ Page([ui.inputs EXCEPT ![2] = q[2]], ui.kept, FALSE, ui.asking)
                 /\ Noted(hist.meant \cup {2, 3}, hist.told, hist.touched \cup {2, 3}, hist.raced,
                          hist.unsaved \ {2, 3})
    <3>1. PICK q \in Maps(Values) :
             DOMAIN q = {2, 3} /\ Moved(s, Saver(q)) /\ ui' \in UiType /\ ui'.loaded = ui.loaded
             /\ hist' \in HistType
      BY <2>3 DEF Page, Noted
    <3>2. Then(q) = Saver(q) /\ Gateless(q)
      BY <2>1, <3>1, ThenFacts DEF Gateless
    <3> QED
      BY <2>1, <3>1, <3>2, MovedTyped
  <2> QED
    BY <1>15, <2>2, <2>3, DiscoveredFacts, Zenon
<1>16. ASSUME NEW s \in Slots, Saved(s) PROVE WellTyped
  <2>1. Rest(jobs[s].queue) \in Maps(Values) /\ Gateless(Rest(jobs[s].queue))
    BY <1>16, SavedFacts, RestGateless
  <2> QED
    BY <1>16, <2>1, SavedFacts, MovedTyped DEF Page, Noted
<1> QED
  BY <1>1, <1>2, <1>3, <1>4, <1>5, <1>6, <1>7, <1>8, <1>9, <1>10, <1>11, <1>12, <1>13, <1>14, <1>15,
     <1>16, Zenon DEF Next, LegacyNext, ConsoleNext

(* The types, and what handlers hold, at the beginning. *)
LEMMA InitTyped ==
  ASSUME Init
  PROVE  TypeInv /\ JobInv
<1>1. section \in Studied
  BY DEF Init
<1>2. server \in [Fields -> Stored] /\ Mapped(server)
  <2>1. \A k \in Fields : /\ Fresh(k) \in Stored /\ (Fresh(k) = EmptyMap => Is(k, {"checked"}))
                          /\ InUse(k) \in Stored /\ InUse(k) # EmptyMap
    BY ValueFacts, Zenon DEF Fresh, InUse, Stored
  <2>2. CASE server = [k \in Fields |-> Fresh(k)]
    BY <2>1, <2>2 DEF Mapped
  <2>3. CASE server = [k \in Fields |-> InUse(k)]
    BY <2>1, <2>3 DEF Mapped
  <2> QED
    BY <2>2, <2>3 DEF Init
<1>3. ui \in UiType
  <2> DEFINE i == [k \in Fields |-> Blank]
             o == [k \in Fields |-> Absent]
             c == [k \in Fields |-> IF Is(k, {"stuck", "lookup"}) THEN Blank ELSE None]
  <2>1. i \in [Fields -> Values] /\ o \in [Fields -> Values] /\ c \in [Fields -> Values]
    BY ValueFacts
  <2>2. ui = [inputs |-> i, origin |-> o, kept |-> c, loaded |-> FALSE, busy |-> FALSE, asking |-> FALSE]
    BY DEF Init
  <2> HIDE DEF i, o, c
  <2> QED
    BY <2>1, <2>2 DEF UiType
<1>4. hist \in HistType
  BY DEF Init, HistType
<1> DEFINE first == CHOOSE x \in Slots : TRUE
           h == Handler("load", Nothing, Nothing)
<1>5. h \in Job /\ h.op = "load" /\ h.phase = "asked" /\ h.queue = Nothing
  BY SmallQueues DEF Handler, Job
<1>6. \A s \in Slots : jobs[s] = IF s = first THEN h ELSE Nobody
  BY DEF Init
<1>7. jobs \in [Slots -> Job \cup {Nobody}]
  <2> HIDE DEF first, h
  <2> QED
    BY <1>5, Zenon DEF Init, first, h
<1>8. TypeInv
  BY <1>1, <1>2, <1>3, <1>4, <1>7 DEF TypeInv
<1>9. \A s \in Slots : Does(s, "load") => s = first /\ jobs[s] = h
  BY <1>6, NobodyFacts, Zenon DEF Does
<1>10. \A s \in Slots : ~Does(s, "save") /\ ~Does(s, "find")
  <2> HIDE DEF first, h
  <2> QED
    BY <1>5, <1>6, NobodyFacts DEF Does
<1>11. ~ui.loaded
  BY DEF Init
<1>12. JobInv
  <2> HIDE DEF first, h
  <2> QED
    BY <1>5, <1>9, <1>10, <1>11, SmallQueues DEF JobInv
<1> QED
  BY <1>8, <1>12

(* Every step keeps the types. *)
LEMMA StepTyped ==
  ASSUME TypeInv, JobInv, [Next]_vars
  PROVE  TypeInv' /\ JobInv'
<1>1. CASE Next
  BY <1>1, NextTyped, TypeStep
<1>2. CASE UNCHANGED vars
  <2>1. WellTyped
    BY <1>2 DEF vars, WellTyped, HandlerStep, TypeInv
  <2> QED
    BY <2>1, TypeStep
<1> QED
  BY <1>1, <1>2

(* Every variable has its type, in every section and with any number of handlers,
   and what a handler holds is what it needs for its next call. *)
THEOREM TypesHold == Spec => [](TypeInv /\ JobInv)
<1>1. Init => TypeInv /\ JobInv
  BY InitTyped
<1>2. TypeInv /\ JobInv /\ [Next]_vars => TypeInv' /\ JobInv'
  BY StepTyped
<1> QED
  BY <1>1, <1>2, PTL DEF Spec

-----------------------------------------------------------------------------
(* What is not entered is not saved                                        *)

Touched(k) == k \in hist.touched \/ hist.blind \/ Is(k, {"always", "address"})

\* What differs from what was loaded, and what is to be saved, was entered.
DiffersTouched(inputs) == \A k \in Fields : inputs[k] # ui.origin[k] => Touched(k)
TouchInv ==
  /\ ui.loaded => DiffersTouched(ui.inputs)
  /\ \A s \in Slots :
       /\ Does(s, "save") => \A k \in DOMAIN jobs[s].queue : Touched(k)
       /\ Does(s, "find") /\ ~InConsole => (ui.loaded \/ hist.blind) /\ DiffersTouched(jobs[s].data)

\* What a step has to do to keep this.
TouchedAll(q) == \A k \in DOMAIN q : Touched(k)'
TouchedLook(d) ==
  ~InConsole => (ui.loaded \/ hist'.blind) /\ \A k \in Fields : d[k] # ui'.origin[k] => Touched(k)'
StaysTouched ==
  /\ hist.blind => hist'.blind
  /\ \A k \in Fields : Touched(k) => Touched(k)'
  /\ ui'.origin = ui.origin \/ hist.blind \/ (~ui.loaded /\ \A s \in Slots : ~(Does(s, "find") /\ ~InConsole))
  /\ ui.loaded => ui'.loaded
  /\ ui'.loaded => \A k \in Fields : ui'.inputs[k] # ui'.origin[k] => Touched(k)'
  /\ \A s \in Slots :
       \/ jobs'[s] = jobs[s] \/ Ends(s) \/ Answered(s)
       \/ \E q \in Maps(Values) : jobs'[s] = Saver(q) /\ TouchedAll(q)
       \/ \E d \in Maps(Stored) : jobs'[s] = Finder(d) /\ TouchedLook(d)

(* Touched in the next state, spelled out. *)
LEMMA SameTouched ==
  ASSUME section' = section
  PROVE  \A k : Touched(k)' <=> \/ k \in hist'.touched \/ hist'.blind
                                \/ Is(k, {"always", "address"})
<1>1. Rules' = Rules
  BY SameSection
<1> QED
  BY <1>1 DEF Touched, Is

(* A step after which whatever is not touched is as it was keeps the
   invariant of the untouched fields. *)
LEMMA TouchStep ==
  ASSUME TypeInv, JobInv, TouchInv, section' = section, StaysTouched
  PROVE  TouchInv'
<1>1. Fields' = Fields /\ InConsole' = InConsole
  BY SameSection
<1>2. (ui.loaded => DiffersTouched(ui.inputs))'
  BY <1>1 DEF DiffersTouched, StaysTouched
<1>3. ASSUME NEW s \in Slots
      PROVE  /\ Does(s, "save")' => \A k \in DOMAIN jobs'[s].queue : Touched(k)'
             /\ Does(s, "find")' /\ ~InConsole =>
                  /\ ui'.loaded \/ hist'.blind
                  /\ \A k \in Fields : jobs'[s].data[k] # ui'.origin[k] => Touched(k)'
  <2>1. CASE jobs'[s] = jobs[s]
    <3>1. Does(s, "save") => \A k \in DOMAIN jobs[s].queue : k \in Fields /\ Touched(k)
      BY AnswerFacts DEF TouchInv
    <3>2. Does(s, "find") /\ ~InConsole =>
            (ui.loaded \/ hist.blind) /\ \A k \in Fields : jobs[s].data[k] # ui.origin[k] => Touched(k)
      BY DEF TouchInv, DiffersTouched
    <3>3. hist.blind => \A k : Touched(k)
      BY DEF Touched
    <3>4. hist.blind => hist'.blind
      BY DEF StaysTouched
    <3> QED
      BY <2>1, <3>1, <3>2, <3>3, <3>4 DEF StaysTouched, Does
  <2>2. CASE Ends(s)
    BY <2>2, NobodyFacts DEF Ends, Does
  <2>3. CASE Answered(s)
    <3>1. Does(s, "save") => \A k \in DOMAIN jobs[s].queue : k \in Fields /\ Touched(k)
      BY AnswerFacts DEF TouchInv
    <3> QED
      BY <2>3, <3>1 DEF StaysTouched, Does, Answered
  <2>4. CASE \E q \in Maps(Values) : jobs'[s] = Saver(q) /\ TouchedAll(q)
    BY <2>4, SaverFacts DEF Does, TouchedAll
  <2>5. CASE \E d \in Maps(Stored) : jobs'[s] = Finder(d) /\ TouchedLook(d)
    <3>1. PICK d \in Maps(Stored) : jobs'[s] = Finder(d) /\ TouchedLook(d)
      BY <2>5
    <3>2. jobs'[s].op = "find" /\ jobs'[s].data = d
      BY <3>1, FinderFacts
    <3>3. ui.loaded => ui'.loaded
      BY DEF StaysTouched
    <3> QED
      BY <3>1, <3>2, <3>3 DEF Does, TouchedLook
  <2> QED
    BY <2>1, <2>2, <2>3, <2>4, <2>5 DEF StaysTouched
<1> QED
  BY <1>1, <1>2, <1>3 DEF TouchInv, DiffersTouched

(* Handlers that save touched fields only, or start before the page was
   loaded. *)
LEMMA AsksTouched ==
  ASSUME TypeInv, JobInv, TouchInv, NEW q \in Maps(Values), NEW ks, NEW quit, NEW touched,
         Asks(q, ks, quit, touched), ui'.origin = ui.origin, ui'.loaded = ui.loaded,
         \A k \in DOMAIN q : Touched(k) \/ k \in touched \/ ~ui.loaded,
         \A k \in Fields : ui'.inputs[k] = ui.inputs[k] \/ k \in touched
  PROVE  StaysTouched
<1>1. /\ section' = section /\ hist'.touched = hist.touched \cup touched
      /\ hist'.blind <=> hist.blind \/ ~ui.loaded
  BY DEF Asks, Recorded
<1>2. \A k : Touched(k) \/ k \in touched \/ ~ui.loaded => Touched(k)'
  BY <1>1, SameTouched DEF Touched
<1>3. TouchedAll(q)
  BY <1>2 DEF TouchedAll
<1>4. \A s \in Slots : \/ jobs'[s] = jobs[s]
                       \/ \E d \in Maps(Values) : jobs'[s] = Saver(d) /\ TouchedAll(d)
  BY <1>3 DEF Asks, Started
<1>5. ui.loaded => \A k \in Fields : ui'.inputs[k] # ui'.origin[k] => Touched(k)'
  BY <1>2 DEF TouchInv, DiffersTouched
<1> QED
  BY <1>1, <1>2, <1>4, <1>5 DEF StaysTouched

(* Look-ups. *)
LEMMA LooksTouched ==
  ASSUME TypeInv, JobInv, TouchInv, NEW d \in Maps(Stored), NEW ks, Looks(d, ks),
         ~InConsole => d = ui.inputs,
         ui'.origin = ui.origin, ui'.loaded = ui.loaded, ui'.inputs = ui.inputs
  PROVE  StaysTouched
<1>1. /\ section' = section /\ hist'.touched = hist.touched \cup {}
      /\ hist'.blind <=> hist.blind \/ ~ui.loaded
  BY DEF Looks, Recorded
<1>2. \A k : Touched(k) \/ ~ui.loaded => Touched(k)'
  BY <1>1, SameTouched DEF Touched
<1>3. \A k \in Fields : ui.inputs[k] # ui.origin[k] => Touched(k)'
  BY <1>2 DEF TouchInv, DiffersTouched
<1>4. TouchedLook(d)
  BY <1>1, <1>3 DEF TouchedLook
<1>5. \A s \in Slots : \/ jobs'[s] = jobs[s]
                       \/ \E e \in Maps(Stored) : jobs'[s] = Finder(e) /\ TouchedLook(e)
  BY <1>4 DEF Looks, Started
<1> QED
  BY <1>1, <1>2, <1>3, <1>5 DEF StaysTouched

(* Handlers that go on with touched fields. *)
LEMMA MovedTouched ==
  ASSUME TypeInv, JobInv, TouchInv, section' = section, ui'.origin = ui.origin, ui'.loaded = ui.loaded,
         hist'.blind = hist.blind, hist.touched \subseteq hist'.touched,
         NEW s \in Slots, NEW q \in Maps(Values), Moved(s, Then(q)),
         \A k \in DOMAIN q : Touched(k) \/ k \in hist'.touched,
         \A k \in Fields : ui'.inputs[k] = ui.inputs[k] \/ k \in hist'.touched \/ Touched(k)
  PROVE  StaysTouched
<1>1. \A k : Touched(k) \/ k \in hist'.touched => Touched(k)'
  BY SameTouched DEF Touched
<1>2. TouchedAll(q)
  BY <1>1 DEF TouchedAll
<1>3. \A t \in Slots : \/ jobs'[t] = jobs[t] \/ Ends(t)
                       \/ \E e \in Maps(Values) : jobs'[t] = Saver(e) /\ TouchedAll(e)
  BY <1>2, ThenFacts DEF Moved, Ends
<1>4. ui.loaded => \A k \in Fields : ui'.inputs[k] # ui'.origin[k] => Touched(k)'
  BY <1>1 DEF TouchInv, DiffersTouched
<1> QED
  BY <1>1, <1>3, <1>4 DEF StaysTouched

(* Steps in which handlers only end or are answered. *)
LEMMA IdleTouched ==
  ASSUME TypeInv, JobInv, TouchInv, section' = section, ui'.origin = ui.origin, ui'.loaded = ui.loaded,
         hist'.blind = hist.blind, hist.touched \subseteq hist'.touched,
         \A s \in Slots : jobs'[s] = jobs[s] \/ Ends(s) \/ Answered(s),
         \A k \in Fields : ui'.inputs[k] = ui.inputs[k] \/ k \in hist'.touched
  PROVE  StaysTouched
<1>1. \A k : Touched(k) \/ k \in hist'.touched => Touched(k)'
  BY SameTouched DEF Touched
<1>4. ui.loaded => \A k \in Fields : ui'.inputs[k] # ui'.origin[k] => Touched(k)'
  BY <1>1 DEF TouchInv, DiffersTouched
<1> QED
  BY <1>1, <1>4 DEF StaysTouched

(* What the button saves was entered, when the page had been loaded. *)
LEMMA QueueTouched ==
  ASSUME TypeInv, NEW inputs \in [Fields -> Values], NEW k \in DOMAIN Queue(inputs)
  PROVE  inputs[k] # ui.origin[k] \/ Is(k, {"always", "address"})
<1>1. k \in Fields /\ Sends(k, inputs)
  BY QueueFacts DEF TypeInv
<1>2. Is(k, {"always", "address"}) \/ Differs(k, inputs)
  BY <1>1 DEF Sends, Is, Switches
<1> QED
  BY <1>2 DEF Differs

(* Every action leaves the untouched fields as they were. *)
LEMMA NextTouched ==
  ASSUME TypeInv, JobInv, TouchInv, Next
  PROVE  StaysTouched
<1>0. section \in Studied /\ ui.inputs \in [Fields -> Values] /\ ui \in UiType
  BY DEF TypeInv, UiType
<1>1. ASSUME NEW s \in Slots, Serve(s) PROVE StaysTouched
  <2>1. \A t \in Slots : jobs'[t] = jobs[t] \/ Answered(t)
    BY <1>1, ServeFacts DEF Moved, Answered
  <2> QED
    BY <1>1, <2>1, ServeFacts, IdleTouched DEF Silent, Noted
<1>2. ASSUME NEW s \in Slots, Lost(s) PROVE StaysTouched
  <2>1. \A t \in Slots : jobs'[t] = jobs[t] \/ Ends(t)
    BY <1>2, LostFacts DEF Moved, Ends
  <2> QED
    BY <1>2, <2>1, LostFacts, IdleTouched DEF Noted
<1>3. ASSUME NEW s \in Slots, Loaded(s) PROVE StaysTouched
  <2>1. /\ section' = section /\ hist' = hist /\ Does(s, "load") /\ Moved(s, Nobody)
        /\ ui'.loaded /\ ui'.inputs = ui'.origin
    BY <1>3, LoadedFacts
  <2>2. \A k : Touched(k) => Touched(k)'
    BY <2>1, SameTouched DEF Touched
  <2>3. hist.blind \/ (~ui.loaded /\ \A t \in Slots : ~(Does(t, "find") /\ ~InConsole))
    BY <2>1 DEF JobInv, TouchInv
  <2>4. \A t \in Slots : jobs'[t] = jobs[t] \/ Ends(t)
    BY <2>1 DEF Moved, Ends
  <2> QED
    BY <2>1, <2>2, <2>3, <2>4 DEF StaysTouched
<1>4. ASSUME NEW k \in Fields, Elsewhere(k) PROVE StaysTouched
  BY <1>4, ElsewhereFacts, IdleTouched
<1>5. ASSUME NEW k \in Fields, NEW v \in Texts(k), Enter(k, v) PROVE StaysTouched
  <2>1. CASE Is(k, Typing)
    <3>1. Asks(One(k, v), {k}, {}, {k}) /\ Page(ui.inputs, ui.kept, TRUE, ui.asking) /\ v \in Values
      BY <1>5, <2>1, EnterFacts
    <3>2. One(k, v) \in Maps(Values) /\ DOMAIN One(k, v) = {k}
      BY <3>1, OneFacts
    <3> QED
      BY <3>1, <3>2, AsksTouched DEF Page
  <2>2. CASE ~Is(k, Typing)
    <3>1. /\ section' = section /\ jobs' = jobs /\ hist'.touched = hist.touched \cup {k}
          /\ hist'.blind = hist.blind /\ ui'.origin = ui.origin /\ ui'.loaded = ui.loaded
          /\ ui'.inputs = IF Is(k, {"stuck"}) THEN ui.inputs ELSE [ui.inputs EXCEPT ![k] = v]
      <4>1. /\ section' = section /\ jobs' = jobs
            /\ Page(IF Is(k, {"stuck"}) THEN ui.inputs ELSE [ui.inputs EXCEPT ![k] = v],
                    IF Is(k, {"stuck"}) THEN [ui.kept EXCEPT ![k] = v] ELSE ui.kept,
                    ui.busy, ui.asking)
            /\ Noted(hist.meant \ Affects(k), hist.told, hist.touched \cup {k}, hist'.raced,
                     hist.unsaved)
        BY <1>5, <2>2, EnterFacts
      <4> QED
        BY <4>1, Zenon DEF Page, Noted
    <3>2. \A j \in Fields : ui'.inputs[j] = ui.inputs[j] \/ j \in hist'.touched
      BY <1>0, <3>1
    <3> QED
      BY <3>1, <3>2, IdleTouched
  <2> QED
    BY <2>1, <2>2
<1>6. ASSUME NEW k \in Fields, Switch(k) \/ Warned(k) PROVE StaysTouched
  <2> DEFINE v == Flip(ui.inputs[k])
  <2>1. v \in Values
    BY <1>6, SwitchFacts, WarnedFacts
  <2>2. One(k, v) \in Maps(Values) /\ DOMAIN One(k, v) = {k}
    BY <2>1, OneFacts
  <2>3. ui'.inputs = ui.inputs /\ ui'.origin = ui.origin /\ ui'.loaded = ui.loaded
    BY <1>6, SwitchFacts, WarnedFacts DEF Page
  <2>4. CASE Asks(One(k, v), {k}, {}, {k})
    BY <2>2, <2>3, <2>4, AsksTouched
  <2>5. CASE section' = section /\ jobs' = jobs /\ hist'.touched = hist.touched /\ hist'.blind = hist.blind
    BY <2>3, <2>5, IdleTouched
  <2>6. Silent => hist'.touched = hist.touched /\ hist'.blind = hist.blind
    BY DEF Silent, Noted
  <2> QED
    BY <1>6, <2>4, <2>5, <2>6, SwitchFacts, WarnedFacts
<1>7. ASSUME Submit PROVE StaysTouched
  <2> DEFINE q == Queue(ui.inputs)
             quit == {k \in ButtonFields : ~Before(k, ui.inputs)}
  <2>1. /\ q \in Maps(Values) /\ Asks(q, ButtonFields, quit, {})
        /\ ui'.inputs = ui.inputs /\ ui'.origin = ui.origin /\ ui'.loaded = ui.loaded
    BY <1>7, SubmitFacts DEF Page
  <2>2. \A k \in DOMAIN q : Touched(k) \/ ~ui.loaded
    <3>1. \A k \in DOMAIN q : k \in Fields /\ (ui.inputs[k] # ui.origin[k] \/ Is(k, {"always", "address"}))
      BY <1>0, QueueTouched, QueueFacts
    <3> QED
      BY <3>1 DEF TouchInv, DiffersTouched, Touched
  <2> HIDE DEF q, quit
  <2> QED
    BY <2>1, <2>2, AsksTouched
<1>8. ASSUME SubmitOidc PROVE StaysTouched
  <2>1. ui' = ui /\ ui.inputs \in Maps(Stored)
    BY <1>8, SubmitOidcFacts
  <2>2. CASE Looks(ui.inputs, ButtonFields)
    BY <2>1, <2>2, LooksTouched
  <2>3. CASE Asks(Nothing, ButtonFields, ButtonFields, {})
    <3>1. Nothing \in Maps(Values) /\ DOMAIN Nothing = {}
      BY SmallQueues
    <3> QED
      BY <2>1, <2>3, <3>1, AsksTouched
  <2> QED
    BY <1>8, <2>2, <2>3, SubmitOidcFacts
<1>9. ASSUME NEW s \in Slots, Updated(s) PROVE StaysTouched
  <2> DEFINE q == jobs[s].queue
             k == First(q)
  <2>1. /\ section' = section /\ Does(s, "save") /\ Moved(s, Then(Rest(q)))
        /\ ui'.inputs = IF jobs[s].ok THEN [ui.inputs EXCEPT ![k] = q[k]] ELSE ui.inputs
        /\ ui'.origin = ui.origin /\ ui'.loaded = ui.loaded
        /\ hist'.touched = hist.touched /\ hist'.blind = hist.blind
    BY <1>9, UpdatedFacts DEF Page, Noted
  <2>2. k \in DOMAIN q /\ Rest(q) \in Maps(Values) /\ DOMAIN Rest(q) \subseteq DOMAIN q
    BY <2>1, AnswerFacts
  <2>3. \A j \in DOMAIN q : Touched(j)
    BY <2>1 DEF TouchInv
  <2> HIDE DEF q, k
  <2>4. \A j \in Fields : ui'.inputs[j] = ui.inputs[j] \/ j \in hist'.touched \/ Touched(j)
    BY <1>0, <2>1, <2>2, <2>3
  <2> QED
    BY <2>1, <2>2, <2>3, <2>4, MovedTouched
<1>10. ASSUME NEW s \in Slots, OidcFound(s) PROVE StaysTouched
  <2> DEFINE data == jobs[s].data
  <2>1. PICK i \in [Fields -> Values] :
          /\ \A k \in Fields : i[k] = data[k] \/ Found(k)
          /\ Page(IF ui.inputs = data THEN i ELSE ui.inputs, ui.kept,
                      ui.busy \/ DOMAIN Queue(i) # {}, ui.asking)
          /\ Moved(s, Then(Queue(i)))
    BY <1>10, OidcFoundFacts, Zenon
  <2>2. /\ section' = section /\ Does(s, "find") /\ ~InConsole
        /\ hist'.touched = hist.touched \cup {k \in Fields : Found(k)} /\ hist'.blind = hist.blind
    BY <1>10, OidcFoundFacts DEF Noted
  <2>3. /\ ui'.inputs = IF ui.inputs = data THEN i ELSE ui.inputs
        /\ ui'.origin = ui.origin /\ ui'.loaded = ui.loaded
    BY <2>1 DEF Page
  <2>4. \A k \in Fields : data[k] # ui.origin[k] => Touched(k)
    BY <2>2 DEF TouchInv, DiffersTouched
  <2>5. \A k \in DOMAIN Queue(i) : Touched(k) \/ k \in hist'.touched
    <3>1. \A k \in DOMAIN Queue(i) :
            k \in Fields /\ (i[k] # ui.origin[k] \/ Is(k, {"always", "address"}))
      BY <1>0, QueueTouched, QueueFacts
    <3> QED
      BY <2>1, <2>2, <2>4, <3>1 DEF Touched
  <2>6. \A k \in Fields : ui'.inputs[k] = ui.inputs[k] \/ k \in hist'.touched
    BY <2>1, <2>2, <2>3
  <2>7. Queue(i) \in Maps(Values)
    BY <1>0, QueueFacts
  <2> HIDE DEF data
  <2> QED
    BY <2>1, <2>2, <2>3, <2>5, <2>6, <2>7, MovedTouched
<1>11. ASSUME NEW k \in Fields, NEW v \in Texts(k), Leave(k, v) PROVE StaysTouched
  <2>1. v \in Values
    BY <1>11, LeaveFacts
  <2>2. One(k, v) \in Maps(Values) /\ DOMAIN One(k, v) = {k}
    BY <2>1, OneFacts
  <2>3. ui'.origin = ui.origin /\ ui'.loaded = ui.loaded
    BY <1>11, LeaveFacts DEF Page
  <2>4. CASE Asks(One(k, v), {k}, {}, {k}) /\ ui'.inputs = [ui.inputs EXCEPT ![k] = v]
    <3>1. \A j \in Fields : ui'.inputs[j] = ui.inputs[j] \/ j \in {k}
      BY <1>0, <2>4
    <3> QED
      BY <2>2, <2>3, <2>4, <3>1, AsksTouched
  <2>5. CASE /\ section' = section /\ jobs' = jobs /\ hist'.touched = hist.touched
             /\ hist'.blind = hist.blind /\ ui'.inputs = ui.inputs
    BY <2>3, <2>5, IdleTouched
  <2> QED
    BY <1>11, <2>4, <2>5, LeaveFacts DEF Noted, Page
<1>12. ASSUME NEW k \in Fields, Click(k) PROVE StaysTouched
  <2> DEFINE v == Flip(ui.inputs[k])
  <2>1. v \in Values
    BY <1>12, ClickFacts
  <2>2. One(k, v) \in Maps(Values) /\ DOMAIN One(k, v) = {k}
    BY <2>1, OneFacts
  <2>3. /\ ui'.origin = ui.origin /\ ui'.loaded = ui.loaded /\ Asks(One(k, v), {k}, {}, {k})
        /\ ui'.inputs = [ui.inputs EXCEPT ![k] = v]
    BY <1>12, ClickFacts DEF Page
  <2>4. \A j \in Fields : ui'.inputs[j] = ui.inputs[j] \/ j \in {k}
    BY <1>0, <2>3
  <2> QED
    BY <2>2, <2>3, <2>4, AsksTouched
<1>13. ASSUME NEW k \in Fields, NEW v \in Texts(k), PickWell(k, v) PROVE StaysTouched
  BY <1>13, PickWellFacts, IdleTouched DEF Page, Noted
<1>14. ASSUME NEW k \in Fields, Discover(k) PROVE StaysTouched
  BY <1>14, DiscoverFacts, LooksTouched DEF Page
<1>15. ASSUME NEW s \in Slots, Discovered(s) PROVE StaysTouched
  <2>1. section' = section /\ InConsole
    BY <1>15, DiscoveredFacts
  <2>2. CASE /\ Moved(s, Nobody) /\ Silent
             /\ \E hung \in BOOLEAN : Page(ui.inputs, ui.kept, hung, ui.asking)
    <3>1. \A t \in Slots : jobs'[t] = jobs[t] \/ Ends(t)
      BY <2>2 DEF Moved, Ends
    <3> QED
      BY <2>1, <2>2, <3>1, IdleTouched DEF Page, Silent, Noted
  <2>3. CASE \E q \in Maps(Values) :
                 /\ DOMAIN q = {2, 3} /\ q[2] \in {"a", "b"}
                 /\ Moved(s, Saver(q))
                 /\ Page([ui.inputs EXCEPT ![2] = q[2]], ui.kept, FALSE, ui.asking)
                 /\ Noted(hist.meant \cup {2, 3}, hist.told, hist.touched \cup {2, 3}, hist.raced,
                          hist.unsaved \ {2, 3})
    <3>1. PICK q \in Maps(Values) :
            /\ DOMAIN q = {2, 3} /\ Moved(s, Saver(q)) /\ ui'.origin = ui.origin /\ ui'.loaded = ui.loaded
            /\ ui'.inputs = [ui.inputs EXCEPT ![2] = q[2]]
            /\ hist'.touched = hist.touched \cup {2, 3} /\ hist'.blind = hist.blind
      BY <2>3 DEF Page, Noted
    <3>2. Then(q) = Saver(q)
      BY <3>1, ThenFacts
    <3>3. \A j \in Fields : ui'.inputs[j] = ui.inputs[j] \/ j \in hist'.touched
      BY <1>0, <3>1
    <3> QED
      BY <2>1, <3>1, <3>2, <3>3, MovedTouched
  <2> QED
    BY <1>15, <2>2, <2>3, DiscoveredFacts, Zenon
<1>16. ASSUME NEW s \in Slots, Saved(s) PROVE StaysTouched
  <2> DEFINE q == jobs[s].queue
             r == Rest(q)
             k == First(r)
  <2>1. /\ section' = section /\ Does(s, "save") /\ Moved(s, Then(r))
        /\ ui'.inputs = IF DOMAIN r = {} THEN ui.inputs ELSE [ui.inputs EXCEPT ![k] = r[k]]
        /\ ui'.origin = ui.origin /\ ui'.loaded = ui.loaded
        /\ hist'.touched = hist.touched /\ hist'.blind = hist.blind
    BY <1>16, SavedFacts DEF Page, Noted
  <2>2. r \in Maps(Values) /\ DOMAIN r \subseteq DOMAIN q /\ (DOMAIN r # {} => k \in DOMAIN r)
    BY <2>1, AnswerFacts
  <2>3. \A j \in DOMAIN q : Touched(j)
    BY <2>1 DEF TouchInv
  <2> HIDE DEF q, r, k
  <2>4. \A j \in Fields : ui'.inputs[j] = ui.inputs[j] \/ j \in hist'.touched \/ Touched(j)
    BY <1>0, <2>1, <2>2, <2>3
  <2> QED
    BY <2>1, <2>2, <2>3, <2>4, MovedTouched
<1> QED
  BY <1>1, <1>2, <1>3, <1>4, <1>5, <1>6, <1>7, <1>8, <1>9, <1>10, <1>11, <1>12, <1>13, <1>14, <1>15,
     <1>16, Zenon DEF Next, LegacyNext, ConsoleNext

(* At first nothing was loaded, and nothing is to be saved. *)
LEMMA InitTouched == Init => TouchInv
<1> SUFFICES ASSUME Init PROVE TouchInv
  OBVIOUS
<1>1. \A s \in Slots : ~Does(s, "save") /\ ~Does(s, "find")
  BY SmallQueues, NobodyFacts DEF Init, Handler, Does
<1>2. ~ui.loaded
  BY DEF Init
<1> QED
  BY <1>1, <1>2 DEF TouchInv

(* Every step keeps the invariant of the untouched fields. *)
LEMMA StepTouched ==
  ASSUME TypeInv, JobInv, TouchInv, [Next]_vars
  PROVE  TouchInv'
<1>1. CASE Next
  <2>1. section' = section
    BY <1>1, NextTyped DEF WellTyped
  <2> QED
    BY <1>1, <2>1, NextTouched, TouchStep
<1>2. CASE UNCHANGED vars
  <2>1. section' = section /\ hist' = hist /\ ui' = ui /\ jobs' = jobs
    BY <1>2 DEF vars
  <2> QED
    BY <2>1, IdleTouched, TouchStep
<1> QED
  BY <1>1, <1>2

(* A step that saves an option, saves one that root has entered. *)
LEMMA StepStands ==
  ASSUME TypeInv, JobInv, TouchInv, [Next]_vars
  PROVE  \A k \in DOMAIN server :
           server'[k] # server[k] /\ jobs' # jobs =>
             k \in hist.touched \/ hist.blind \/ Is(k, {"always", "address"})
<1>1. CASE \E s \in Slots : Serve(s)
  <2>1. PICK s \in Slots : Serve(s)
    BY <1>1
  <2> DEFINE q == jobs[s].queue
             f == First(q)
  <2>2. CASE server' = server
    BY <2>2
  <2>3. CASE server' # server
    <3>1. Does(s, "save") /\ server' = [server EXCEPT ![f] = q[f]]
      BY <2>1, <2>3, ServeFacts DEF Does
    <3>2. f \in DOMAIN q
      BY <3>1, AnswerFacts
    <3>3. Touched(f)
      BY <3>1, <3>2 DEF TouchInv
    <3> HIDE DEF f, q
    <3>4. \A k \in DOMAIN server : server'[k] # server[k] => k = f
      BY <3>1
    <3> QED
      BY <3>3, <3>4 DEF Touched
  <2> QED
    BY <2>2, <2>3
<1>2. CASE ~\E s \in Slots : Serve(s)
  <2>1. server' = server \/ jobs' = jobs
    <3>1. CASE UNCHANGED vars
      BY <3>1 DEF vars
    <3>2. CASE Next
      <4>1. ASSUME NEW s \in Slots, \/ Lost(s) \/ Loaded(s) \/ Updated(s) \/ OidcFound(s)
                                   \/ Discovered(s) \/ Saved(s)
            PROVE  server' = server
        BY <4>1, Zenon DEF Lost, Loaded, Updated, OidcFound, Discovered, Saved
      <4>2. ASSUME NEW k \in Fields, Elsewhere(k) PROVE jobs' = jobs
        BY <4>2 DEF Elsewhere
      <4>3. ASSUME NEW k \in Fields, NEW v \in Texts(k), Enter(k, v) \/ Leave(k, v) \/ PickWell(k, v)
            PROVE  server' = server
        BY <4>3, EnterFacts, LeaveFacts, PickWellFacts DEF Asks
      <4>4. ASSUME NEW k \in Fields, Switch(k) \/ Warned(k) \/ Click(k) \/ Discover(k)
            PROVE  server' = server
        BY <4>4, SwitchFacts, WarnedFacts, ClickFacts, DiscoverFacts DEF Asks, Looks
      <4>5. ASSUME Submit \/ SubmitOidc PROVE server' = server
        BY <4>5, SubmitFacts, SubmitOidcFacts DEF Asks, Looks
      <4> QED
        BY <1>2, <3>2, <4>1, <4>2, <4>3, <4>4, <4>5, Zenon DEF Next, LegacyNext, ConsoleNext
    <3> QED
      BY <3>1, <3>2
  <2> QED
    BY <2>1
<1> QED
  BY <1>1, <1>2

(* Saving a section leaves alone the options that root has not entered, in every
   section and however many handlers overlap. *)
THEOREM OthersStand == Spec => OthersChangesStand
<1>1. Init => TypeInv /\ JobInv /\ TouchInv
  BY InitTyped, InitTouched
<1>2. TypeInv /\ JobInv /\ TouchInv /\ [Next]_vars => TypeInv' /\ JobInv' /\ TouchInv'
  BY StepTyped, StepTouched
<1>3. TypeInv /\ JobInv /\ TouchInv /\ [Next]_vars =>
        [\A k \in DOMAIN server :
           server'[k] # server[k] /\ jobs' # jobs =>
             k \in hist.touched \/ hist.blind \/ Is(k, {"always", "address"})]_vars
  BY StepStands
<1> QED
  BY <1>1, <1>2, <1>3, PTL DEF Spec, OthersChangesStand

-----------------------------------------------------------------------------
(* Single sign-on                                                          *)

Pends(k) == \E s \in Slots : Does(s, "save") /\ k \in DOMAIN jobs[s].queue
NotBlank(q) == \A b \in Boxes : b \in DOMAIN q => q[b] # Blank

\* The server has the client or the endpoint, or is about to; and single sign-on
\* is on, or about to be.
Goes(b) == server[b] # Blank \/ Pends(b)
On(k) == \/ server[k] = "true"
         \/ \E s \in Slots : Does(s, "save") /\ k \in DOMAIN jobs[s].queue /\ jobs[s].queue[k] = "true"

\* The fields whose last save was neither refused nor lost.
Trusted == Boxes \ hist.unsaved
\* What the handlers read and saved, what the page knows, and what is on.
SsoJobs ==
  \A s \in Slots :
    /\ Does(s, "load") /\ jobs[s].phase = "served" =>
         \A b \in Boxes : jobs[s].data[b] # Blank => server[b] # Blank
    /\ Does(s, "save") => NotBlank(jobs[s].queue)
    /\ Does(s, "save") /\ jobs[s].phase = "served" /\ jobs[s].ok /\ First(jobs[s].queue) \in Boxes =>
         server[First(jobs[s].queue)] # Blank
SsoKnown == \A b \in Trusted : Known(b) # Blank => Goes(b)
SsoOn ==
  hist.foreign = {} =>
    \A k \in Fields : Is(k, {"enable"}) /\ On(k) => \A b \in Trusted : Goes(b)
SsoInv == section = "console/sso" => SsoJobs /\ SsoKnown /\ SsoOn

\* What a step has to do to keep this.
SsoHandler(s) ==
  \/ jobs'[s] = jobs[s] \/ Ends(s)
  \/ \E d \in Maps(Stored) : jobs'[s] = Finder(d)
  \/ \E q \in Maps(Values) : jobs'[s] = Saver(q) /\ NotBlank(q)
  \/ /\ Answered(s)
     /\ Does(s, "save") /\ jobs'[s].ok /\ First(jobs[s].queue) \in Boxes =>
          server'[First(jobs[s].queue)] # Blank
StaysOn ==
  /\ \A b \in Boxes : server[b] # Blank => server'[b] # Blank
  /\ \A s \in Slots : SsoHandler(s)
  /\ \A b \in Trusted' : Goes(b)' \/ (b \in Trusted /\ ~Goes(b))
  /\ \A b \in Trusted' : Known(b)' # Blank => Known(b) # Blank \/ Goes(b)'
  /\ hist'.foreign = {} =>
       /\ hist.foreign = {}
       /\ \A k \in Fields : Is(k, {"enable"}) /\ On(k)' => On(k) \/ \A b \in Trusted' : Goes(b)'

(* The invariant of the single sign-on is kept when its three parts and
   what a step may change are. *)
LEMMA SsoStep ==
  ASSUME TypeInv, JobInv, section = "console/sso" => SsoJobs /\ SsoKnown /\ SsoOn /\ StaysOn,
         section' = section
  PROVE  SsoInv'
<1> SUFFICES ASSUME section = "console/sso" PROVE (SsoJobs /\ SsoKnown /\ SsoOn)'
  BY Zenon DEF SsoInv
<1>0. SsoJobs /\ SsoKnown /\ SsoOn /\ StaysOn
  OBVIOUS
<1>1. Boxes' = Boxes /\ Fields' = Fields /\ Rules' = Rules /\ Blank' = Blank
  BY SameSection DEF Blank
<1>2. SsoKnown'
  BY <1>0, <1>1 DEF SsoKnown, StaysOn
<1>3. SsoOn'
  <2> SUFFICES ASSUME hist'.foreign = {}, NEW k \in Fields, Is(k, {"enable"}), On(k)',
                      NEW b \in Trusted'
               PROVE  Goes(b)'
    BY <1>1 DEF SsoOn, Is
  <2>1. hist.foreign = {} /\ (Goes(b)' \/ (b \in Trusted /\ ~Goes(b)))
    BY <1>0 DEF StaysOn
  <2>2. CASE On(k)
    BY <1>0, <2>1, <2>2 DEF SsoOn
  <2>3. CASE ~On(k)
    BY <1>0, <2>3 DEF StaysOn
  <2> QED
    BY <2>2, <2>3
<1>4. SsoJobs'
  <2> SUFFICES ASSUME NEW s \in Slots
               PROVE  /\ Does(s, "load")' /\ jobs'[s].phase = "served" =>
                           \A b \in Boxes : jobs'[s].data[b] # Blank => server'[b] # Blank
                      /\ Does(s, "save")' => NotBlank(jobs'[s].queue)
                      /\ /\ Does(s, "save")' /\ jobs'[s].phase = "served" /\ jobs'[s].ok
                         /\ First(jobs'[s].queue) \in Boxes
                         => server'[First(jobs'[s].queue)] # Blank
    BY <1>1 DEF SsoJobs, NotBlank, First, Min
  <2>0. \A b \in Boxes : server[b] # Blank => server'[b] # Blank
    BY <1>0 DEF StaysOn
  <2>1. CASE jobs'[s] = jobs[s]
    BY <1>0, <2>0, <2>1 DEF SsoJobs, Does
  <2>2. CASE Ends(s)
    BY <2>2, NobodyFacts DEF Ends, Does
  <2>3. CASE \E d \in Maps(Stored) : jobs'[s] = Finder(d)
    BY <2>3, FinderFacts DEF Does
  <2>4. CASE \E q \in Maps(Values) : jobs'[s] = Saver(q) /\ NotBlank(q)
    <3>1. PICK q \in Maps(Values) : jobs'[s] = Saver(q) /\ NotBlank(q)
      BY <2>4
    <3>2. jobs'[s].op = "save" /\ jobs'[s].queue = q /\ jobs'[s].phase = "asked"
      BY <3>1, SaverFacts
    <3> QED
      BY <3>1, <3>2 DEF Does
  <2>5. CASE /\ Answered(s)
             /\ Does(s, "save") /\ jobs'[s].ok /\ First(jobs[s].queue) \in Boxes =>
                  server'[First(jobs[s].queue)] # Blank
    BY <1>0, <2>0, <2>5 DEF SsoJobs, Does, Answered
  <2> QED
    BY <1>0, <2>1, <2>2, <2>3, <2>4, <2>5, Zenon DEF StaysOn, SsoHandler
<1> QED
  BY <1>2, <1>3, <1>4

(* The fields of the single sign-on: client, endpoints, address and switch. *)
LEMMA SsoFields ==
  ASSUME TypeInv, section = "console/sso"
  PROVE  /\ InConsole /\ ~Legacy /\ Rules = SsoRules /\ Fields = 1..4 /\ Boxes = {1, 2}
         /\ \A k \in Fields : Is(k, {"enable"}) <=> k = 4
         /\ ~Is(1, Secrets) /\ ~Is(2, Secrets) /\ ~Is(1, {"area"}) /\ ~Is(2, {"area"})
<1>1. InConsole /\ Rules = SsoRules /\ Fields = 1..4
  BY FieldFacts DEF TypeInv
<1>2. ~Legacy
  BY <1>1 DEF Legacy
<1>3. /\ Rules[1] = "text" /\ Rules[2] = "endpoint" /\ Rules[3] = "lookup" /\ Rules[4] = "enable"
  BY <1>1 DEF SsoRules
<1>4. Boxes = {1, 2}
  BY <1>1, <1>3 DEF Boxes, Is, Switches
<1> QED
  BY <1>1, <1>2, <1>3, <1>4 DEF Is, Secrets

(* Known in the next state, spelled out. *)
LEMMA SameKnown ==
  ASSUME section' = section
  PROVE  \A b : Known(b)' = IF ui'.inputs[b] = Absent THEN Blank ELSE ui'.inputs[b]
BY DEF Known, Absent, Blank

(* Goes and On in the next state, spelled out. *)
LEMMA SameGoes ==
  ASSUME section' = section
  PROVE  /\ \A b : Goes(b)' <=> server'[b] # Blank \/ \E s \in Slots : jobs'[s].op = "save" /\ b \in DOMAIN jobs'[s].queue
         /\ \A k : On(k)' <=> \/ server'[k] = "true"
                              \/ \E s \in Slots : /\ jobs'[s].op = "save" /\ k \in DOMAIN jobs'[s].queue
                                                  /\ jobs'[s].queue[k] = "true"
BY DEF Goes, On, Pends, Does, Blank

(* Trusted in the next state, spelled out. *)
LEMMA SameTrusted ==
  ASSUME section' = section
  PROVE  Trusted' = Boxes \ hist'.unsaved
BY SameSection DEF Trusted

(* A handler that goes on with the saves q. *)
LEMMA MovedThen ==
  ASSUME NEW s \in Slots, NEW q \in Maps(Values), Moved(s, Then(q))
  PROVE  /\ \A t \in Slots \ {s} : jobs'[t] = jobs[t]
         /\ DOMAIN q = {} => jobs'[s] = Nobody /\ jobs'[s].op = "none"
         /\ DOMAIN q # {} => /\ jobs'[s] = Saver(q) /\ jobs'[s].op = "save" /\ jobs'[s].queue = q
                            /\ jobs'[s].phase = "asked" /\ jobs'[s].ok = TRUE
<1>1. jobs'[s] = Then(q) /\ \A t \in Slots \ {s} : jobs'[t] = jobs[t]
  BY DEF Moved
<1>2. CASE DOMAIN q = {}
  BY <1>1, <1>2, ThenFacts, NobodyFacts
<1>3. CASE DOMAIN q # {}
  <2>1. jobs'[s] = Saver(q)
    BY <1>1, <1>3, ThenFacts
  <2>2. /\ Saver(q).op = "save" /\ Saver(q).queue = q /\ Saver(q).phase = "asked"
        /\ Saver(q).ok = TRUE
    BY SaverFacts
  <2> QED
    BY <1>1, <1>3, <2>1, <2>2
<1> QED
  BY <1>2, <1>3

(* Handlers that go on, or start, keep what was about to be saved. *)
LEMMA AsksOn ==
  ASSUME TypeInv, JobInv, section = "console/sso", NEW q \in Maps(Values), NotBlank(q),
         NEW ks, NEW quit, NEW touched, Asks(q, ks, quit, touched),
         \A b \in Boxes : Known(b)' # Blank => Known(b) # Blank \/ b \in DOMAIN q,
         ks \cap Boxes \subseteq DOMAIN q,
         \A k \in DOMAIN q : Is(k, {"enable"}) => \A b \in Trusted : Goes(b)
  PROVE  StaysOn
<1>1. /\ section' = section /\ server' = server /\ hist'.foreign = hist.foreign
      /\ hist'.unsaved = hist.unsaved \ ks
  BY DEF Asks, Recorded
<1>2. \A s \in Slots : jobs'[s] = jobs[s] \/ (jobs[s] = Nobody /\ jobs'[s] = Saver(q))
  BY DEF Asks, Started
<1>3. \A s \in Slots : SsoHandler(s)
  BY <1>2 DEF SsoHandler
<1>4. \A b : Pends(b) => Goes(b)'
  BY <1>1, <1>2, SameGoes, NobodyFacts DEF Pends, Does
<1>5. \A b : Goes(b) => Goes(b)'
  BY <1>1, <1>4, SameGoes DEF Goes
<1>6. \A b : b \in DOMAIN q => Goes(b)'
  <2> SUFFICES ASSUME NEW b, b \in DOMAIN q PROVE Goes(b)'
    OBVIOUS
  <2>1. PICK s \in Slots : jobs'[s] = Saver(q)
    BY DEF Asks, Started
  <2>2. jobs'[s].op = "save" /\ jobs'[s].queue = q
    BY <2>1, SaverFacts
  <2> QED
    BY <1>1, <2>2, SameGoes
<1>7. \A k \in Fields : On(k)' => On(k) \/ k \in DOMAIN q
  <2> SUFFICES ASSUME NEW k \in Fields, On(k)', k \notin DOMAIN q PROVE On(k)
    OBVIOUS
  <2>1. CASE server'[k] = "true"
    BY <1>1, <2>1 DEF On
  <2>2. CASE \E t \in Slots : jobs'[t].op = "save" /\ k \in DOMAIN jobs'[t].queue /\ jobs'[t].queue[k] = "true"
    <3>1. PICK t \in Slots : jobs'[t].op = "save" /\ k \in DOMAIN jobs'[t].queue /\ jobs'[t].queue[k] = "true"
      BY <2>2
    <3>2. jobs'[t] # Saver(q)
      BY <3>1, SaverFacts
    <3>3. jobs'[t] = jobs[t]
      BY <1>2, <3>2
    <3> QED
      BY <3>1, <3>3 DEF On, Does
  <2> QED
    BY <1>1, <2>1, <2>2, SameGoes
<1>8. \A b \in Trusted' : b \in Boxes /\ (b \in Trusted \/ b \in DOMAIN q)
  BY <1>1, SameTrusted DEF Trusted
<1>9. \A k \in Fields : Is(k, {"enable"}) /\ On(k)' => On(k) \/ \A b \in Trusted' : Goes(b)'
  BY <1>5, <1>6, <1>7, <1>8
<1> QED
  BY <1>1, <1>3, <1>5, <1>6, <1>8, <1>9 DEF StaysOn

(* A handler that goes on: what it leaves out of its queue is with the
   server. *)
LEMMA MovedOn ==
  ASSUME TypeInv, JobInv, section = "console/sso", NEW s \in Slots, NEW q \in Maps(Values), NotBlank(q),
         section' = section, server' = server, Moved(s, Then(q)), hist'.foreign = hist.foreign,
         hist.unsaved \ DOMAIN q \subseteq hist'.unsaved,
         Does(s, "save") => \A k \in DOMAIN q : k \in DOMAIN jobs[s].queue /\ q[k] = jobs[s].queue[k],
         Does(s, "save") =>
           \A b \in Boxes \ hist'.unsaved : b \in DOMAIN jobs[s].queue \ DOMAIN q => server[b] # Blank,
         ~Does(s, "save") => \A k \in DOMAIN q : ~Is(k, {"enable"}),
         \A b \in Boxes : Known(b)' # Blank => Known(b) # Blank \/ b \in DOMAIN q
  PROVE  StaysOn
<1>1. /\ \A t \in Slots \ {s} : jobs'[t] = jobs[t]
      /\ DOMAIN q = {} => jobs'[s] = Nobody
      /\ DOMAIN q # {} => jobs'[s] = Saver(q) /\ jobs'[s].op = "save" /\ jobs'[s].queue = q
  BY MovedThen
<1>2. \A t \in Slots : SsoHandler(t)
  BY <1>1 DEF SsoHandler, Ends
<1>3. \A b : b \in DOMAIN q => Goes(b)'
  BY <1>1, SameGoes
<1>4. \A b \in Boxes \ hist'.unsaved : Pends(b) => Goes(b)'
  <2> SUFFICES ASSUME NEW b \in Boxes \ hist'.unsaved, Pends(b) PROVE Goes(b)'
    OBVIOUS
  <2>1. PICK t \in Slots : Does(t, "save") /\ b \in DOMAIN jobs[t].queue
    BY DEF Pends
  <2>2. CASE t # s
    BY <1>1, <2>1, <2>2, SameGoes DEF Does
  <2>3. CASE t = s
    BY <1>3, <2>1, <2>3, SameGoes
  <2> QED
    BY <2>2, <2>3
<1>5. \A b \in Boxes \ hist'.unsaved : Goes(b) => Goes(b)'
  BY <1>4, SameGoes DEF Goes
<1>6. \A k \in Fields : Is(k, {"enable"}) /\ On(k)' => On(k)
  <2> SUFFICES ASSUME NEW k \in Fields, Is(k, {"enable"}), On(k)' PROVE On(k)
    OBVIOUS
  <2>1. CASE server'[k] = "true"
    BY <2>1 DEF On
  <2>2. CASE \E t \in Slots : jobs'[t].op = "save" /\ k \in DOMAIN jobs'[t].queue /\ jobs'[t].queue[k] = "true"
    <3>1. PICK t \in Slots : jobs'[t].op = "save" /\ k \in DOMAIN jobs'[t].queue /\ jobs'[t].queue[k] = "true"
      BY <2>2
    <3>2. CASE t # s
      BY <1>1, <3>1, <3>2 DEF On, Does
    <3>3. CASE t = s
      <4>1. jobs'[s] # Nobody
        BY <3>1, <3>3, NobodyFacts
      <4>2. k \in DOMAIN q /\ q[k] = "true"
        BY <1>1, <3>1, <3>3, <4>1
      <4> QED
        BY <4>2 DEF On
    <3> QED
      BY <3>2, <3>3
  <2> QED
    BY <2>1, <2>2, SameGoes
<1>7. \A b \in Trusted' : b \in Boxes \ hist'.unsaved /\ (b \in Trusted \/ b \in DOMAIN q)
  BY SameTrusted DEF Trusted
<1> QED
  BY <1>2, <1>3, <1>5, <1>6, <1>7 DEF StaysOn

(* A step that starts nothing. *)
LEMMA IdleOn ==
  ASSUME TypeInv, JobInv, section = "console/sso", section' = section,
         \A b \in Boxes : server[b] # Blank => server'[b] # Blank,
         \A k \in Fields : Is(k, {"enable"}) /\ server'[k] = "true" => On(k) \/ hist'.foreign # {},
         \A s \in Slots : SsoHandler(s) /\ (\/ jobs'[s] = jobs[s] \/ ~Does(s, "save") \/ Answered(s)
                                            \/ DOMAIN jobs[s].queue \subseteq hist'.unsaved),
         \A s \in Slots : jobs'[s].op = "save" => jobs[s].op = "save" /\ jobs'[s].queue = jobs[s].queue,
         hist.foreign \subseteq hist'.foreign, hist.unsaved \subseteq hist'.unsaved,
         \A b \in Boxes : Known(b)' # Blank => Known(b) # Blank \/ server[b] # Blank
  PROVE  StaysOn
<1>1. \A b \in Boxes \ hist'.unsaved : Goes(b) => Goes(b)'
  <2> SUFFICES ASSUME NEW b \in Boxes \ hist'.unsaved, Goes(b) PROVE Goes(b)'
    OBVIOUS
  <2>1. CASE server[b] # Blank
    BY <2>1, SameGoes
  <2>2. CASE Pends(b)
    <3>1. PICK s \in Slots : Does(s, "save") /\ b \in DOMAIN jobs[s].queue
      BY <2>2 DEF Pends
    <3>2. jobs'[s].op = "save" /\ jobs'[s].queue = jobs[s].queue
      BY <3>1 DEF Answered, Does
    <3> QED
      BY <3>1, <3>2, SameGoes
  <2> QED
    BY <2>1, <2>2 DEF Goes
<1>2. \A b \in Boxes : server[b] # Blank => Goes(b)'
  BY SameGoes
<1>3. hist'.foreign = {} => \A k \in Fields : Is(k, {"enable"}) /\ On(k)' => On(k)
  BY SameGoes DEF On, Does
<1>4. hist'.foreign = {} => hist.foreign = {}
  OBVIOUS
<1>5. \A b \in Trusted' : b \in Boxes \ hist'.unsaved /\ b \in Trusted
  BY SameTrusted DEF Trusted
<1> QED
  BY <1>1, <1>2, <1>3, <1>4, <1>5 DEF StaysOn

(* Every action keeps what single sign-on needs on its way. *)
LEMMA NextOn ==
  ASSUME TypeInv, JobInv, section = "console/sso", SsoJobs, SsoKnown, SsoOn, Next
  PROVE  StaysOn
<1>0. /\ InConsole /\ ~Legacy /\ Rules = SsoRules /\ Fields = 1..4 /\ Boxes = {1, 2}
      /\ \A k \in Fields : Is(k, {"enable"}) <=> k = 4
      /\ ~Is(1, Secrets) /\ ~Is(2, Secrets) /\ ~Is(1, {"area"}) /\ ~Is(2, {"area"})
  BY SsoFields
<1>00. ui.inputs \in [Fields -> Values] /\ server \in [Fields -> Stored]
  BY DEF TypeInv, UiType
<1>1. ASSUME NEW s \in Slots, Serve(s) PROVE StaysOn
  <2> DEFINE q == jobs[s].queue
             f == First(q)
  <2>1. /\ section' = section /\ ui' = ui /\ hist'.foreign = hist.foreign /\ hist'.unsaved = hist.unsaved
        /\ jobs[s] \in Job /\ jobs[s].op \in {"save", "load"}
        /\ Moved(s, jobs'[s]) /\ jobs'[s].op = jobs[s].op /\ jobs'[s].queue = q
        /\ jobs'[s].data = IF jobs[s].op = "load" THEN server ELSE jobs[s].data
        /\ server' = IF jobs[s].op = "save" /\ jobs'[s].ok THEN [server EXCEPT ![f] = q[f]] ELSE server
    BY <1>1, ServeFacts DEF Silent, Noted
  <2>2. \A b : Known(b)' = Known(b)
    BY <2>1, SameKnown DEF Known
  <2>3. Answered(s)
    BY <2>1 DEF Answered
  <2>4. \A t \in Slots \ {s} : jobs'[t] = jobs[t]
    BY <2>1 DEF Moved
  <2>5. CASE jobs[s].op = "save" /\ jobs'[s].ok
    <3>1. /\ f \in DOMAIN q /\ f \in Fields /\ (f \in Boxes => q[f] # Blank)
      BY <2>5, AnswerFacts DEF SsoJobs, Does, NotBlank
    <3>2. server' = [server EXCEPT ![f] = q[f]]
      BY <2>1, <2>5
    <3>3. q[f] = "true" => On(f)
      BY <2>5, <3>1 DEF On, Does
    <3> HIDE DEF f, q
    <3>4. \A b \in Boxes : server[b] # Blank => server'[b] # Blank
      BY <1>0, <1>00, <3>1, <3>2
    <3>5. \A k \in Fields : server'[k] = "true" => On(k)
      BY <1>00, <3>1, <3>2, <3>3 DEF On
    <3>6. f \in Boxes => server'[f] # Blank
      BY <1>00, <3>1, <3>2
    <3>7. \A t \in Slots : SsoHandler(t)
      BY <2>3, <2>4, <3>6 DEF SsoHandler, f, q
    <3> QED
      BY <2>1, <2>2, <2>3, <2>4, <3>4, <3>5, <3>7, IdleOn DEF q
  <2>6. CASE ~(jobs[s].op = "save" /\ jobs'[s].ok)
    <3>1. server' = server
      BY <2>1, <2>6
    <3>2. \A t \in Slots : SsoHandler(t)
      BY <2>1, <2>3, <2>4, <2>6 DEF SsoHandler, Does
    <3>3. \A k \in Fields : server'[k] = "true" => On(k)
      BY <3>1 DEF On
    <3> QED
      BY <2>1, <2>2, <2>3, <2>4, <3>1, <3>2, <3>3, IdleOn
  <2> QED
    BY <2>5, <2>6
<1>2. ASSUME NEW s \in Slots, Lost(s) PROVE StaysOn
  <2>1. /\ section' = section /\ ui' = ui /\ server' = server /\ hist'.foreign = hist.foreign
        /\ Moved(s, Nobody)
        /\ hist'.unsaved = hist.unsaved \cup DOMAIN jobs[s].queue
    BY <1>0, <1>2, LostFacts DEF Noted
  <2>2. \A b : Known(b)' = Known(b)
    BY <2>1, SameKnown DEF Known
  <2>3. jobs'[s] = Nobody /\ \A t \in Slots \ {s} : jobs'[t] = jobs[t]
    BY <2>1 DEF Moved
  <2>4. \A t \in Slots : SsoHandler(t) /\ (jobs'[t] = jobs[t] \/ DOMAIN jobs[t].queue \subseteq hist'.unsaved)
    BY <1>0, <2>1, <2>3 DEF SsoHandler, Ends, Does
  <2>5. \A t \in Slots : jobs'[t].op = "save" => jobs[t].op = "save" /\ jobs'[t].queue = jobs[t].queue
    BY <2>3, NobodyFacts
  <2>6. \A k \in Fields : server'[k] = "true" => On(k)
    BY <2>1 DEF On
  <2> QED
    BY <2>1, <2>2, <2>4, <2>5, <2>6, IdleOn
<1>3. ASSUME NEW s \in Slots, Loaded(s) PROVE StaysOn
  <2>1. /\ section' = section /\ server' = server /\ hist' = hist
        /\ Does(s, "load") /\ jobs[s].phase = "served" /\ Moved(s, Nobody)
        /\ \A k \in Fields :
              ui'.inputs[k] = IF Is(k, Secrets) THEN Absent ELSE Display(jobs[s].data[k])
    BY <1>3, LoadedFacts
  <2>2. \A b \in Boxes : Known(b)' # Blank => server[b] # Blank
    <3>1. \A b \in Boxes : ui'.inputs[b] = Display(jobs[s].data[b])
      BY <1>0, <2>1
    <3>2. \A b \in Boxes : Display(jobs[s].data[b]) # Blank => jobs[s].data[b] # Blank
      <4>1. \A v : v = Blank => Display(v) = Blank
        BY ValueFacts DEF Display
      <4> QED
        BY <4>1
    <3>3. \A b \in Boxes : jobs[s].data[b] # Blank => server[b] # Blank
      BY <2>1 DEF SsoJobs
    <3>4. \A b \in Boxes : Known(b)' # Blank => ui'.inputs[b] # Blank
      BY <2>1, SameKnown
    <3> QED
      BY <3>1, <3>2, <3>3, <3>4
  <2>3. jobs'[s] = Nobody /\ \A t \in Slots \ {s} : jobs'[t] = jobs[t]
    BY <2>1 DEF Moved
  <2>4. \A t \in Slots : SsoHandler(t) /\ (jobs'[t] = jobs[t] \/ ~Does(t, "save"))
    BY <2>1, <2>3 DEF SsoHandler, Ends, Does
  <2>5. \A t \in Slots : jobs'[t].op = "save" => jobs[t].op = "save" /\ jobs'[t].queue = jobs[t].queue
    BY <2>3, NobodyFacts
  <2>6. \A k \in Fields : server'[k] = "true" => On(k)
    BY <2>1 DEF On
  <2> QED
    BY <2>1, <2>2, <2>4, <2>5, <2>6, IdleOn
<1>4. ASSUME NEW k \in Fields, Elsewhere(k) PROVE StaysOn
  <2>1. /\ section' = section /\ ui' = ui /\ jobs' = jobs
        /\ hist'.foreign = hist.foreign \cup {k} /\ hist'.unsaved = hist.unsaved
    BY <1>4, ElsewhereFacts
  <2>2. PICK v \in {"a", "b", "true", "false"} : server' = [server EXCEPT ![k] = v]
    BY <1>4, ElsewhereFacts
  <2>3. v # Blank
    BY ValueFacts
  <2>4. \A b : Known(b)' = Known(b)
    BY <2>1, SameKnown DEF Known
  <2>5. \A b \in Boxes : server[b] # Blank => server'[b] # Blank
    BY <1>0, <1>00, <2>2, <2>3
  <2>6. hist'.foreign # {}
    BY <2>1
  <2>7. \A t \in Slots : SsoHandler(t)
    BY <2>1 DEF SsoHandler
  <2> QED
    BY <2>1, <2>4, <2>5, <2>6, <2>7, IdleOn
<1>5. ASSUME NEW k \in Fields, NEW v \in Texts(k), Leave(k, v) PROVE StaysOn
  <2>1. k \in Boxes /\ v \in Values
    BY <1>5, LeaveFacts
  <2>2. One(k, v) \in Maps(Values) /\ DOMAIN One(k, v) = {k} /\ One(k, v)[k] = v
    BY <2>1, OneFacts
  <2>3. CASE /\ v # Known(k) /\ (v # Blank \/ Is(k, {"area"}))
             /\ Asks(One(k, v), {k}, {}, {k}) /\ ui'.inputs = [ui.inputs EXCEPT ![k] = v]
    <3>1. NotBlank(One(k, v))
      BY <1>0, <2>1, <2>2, <2>3 DEF NotBlank
    <3>2. section' = section
      BY <2>3 DEF Asks
    <3>3. \A b \in Boxes : Known(b)' # Blank => Known(b) # Blank \/ b \in DOMAIN One(k, v)
      BY <1>0, <1>00, <2>2, <2>3, <3>2, SameKnown DEF Known
    <3>4. \A j \in DOMAIN One(k, v) : ~Is(j, {"enable"})
      BY <1>0, <2>1, <2>2
    <3> QED
      BY <2>2, <2>3, <3>1, <3>3, <3>4, AsksOn
  <2>4. CASE /\ section' = section /\ server' = server /\ jobs' = jobs /\ ui'.inputs = ui.inputs
             /\ hist'.foreign = hist.foreign /\ hist'.unsaved = hist.unsaved
    <3>1. \A b : Known(b)' = Known(b)
      BY <2>4, SameKnown DEF Known
    <3>2. \A t \in Slots : SsoHandler(t)
      BY <2>4 DEF SsoHandler
    <3>3. \A j \in Fields : server'[j] = "true" => On(j)
      BY <2>4 DEF On
    <3> QED
      BY <2>4, <3>1, <3>2, <3>3, IdleOn
  <2> QED
    BY <1>5, <2>3, <2>4, LeaveFacts DEF Page, Noted
<1>6. ASSUME NEW k \in Fields, Click(k) PROVE StaysOn
  <2> DEFINE v == Flip(ui.inputs[k])
  <2>1. /\ Is(k, {"switch", "enable"}) /\ (Is(k, {"enable"}) => Ready) /\ v \in Values
        /\ Asks(One(k, v), {k}, {}, {k}) /\ ui'.inputs = [ui.inputs EXCEPT ![k] = v]
    BY <1>6, ClickFacts DEF Page
  <2>2. One(k, v) \in Maps(Values) /\ DOMAIN One(k, v) = {k}
    BY <2>1, OneFacts
  <2>3. k = 4 /\ k \notin Boxes
    BY <1>0, <2>1 DEF Is, SsoRules
  <2>4. NotBlank(One(k, v))
    BY <2>2, <2>3 DEF NotBlank
  <2>5. section' = section
    BY <2>1 DEF Asks
  <2>6. \A b \in Boxes : Known(b)' = Known(b)
    BY <1>0, <1>00, <2>1, <2>3, <2>5, SameKnown DEF Known
  <2>7. \A b \in Trusted : Goes(b)
    BY <1>0, <2>1, <2>3 DEF Ready, SsoKnown, Trusted
  <2> HIDE DEF v
  <2> QED
    BY <2>1, <2>2, <2>3, <2>4, <2>6, <2>7, AsksOn
<1>7. ASSUME NEW k \in Fields, NEW v \in Texts(k), PickWell(k, v) PROVE StaysOn
  <2>1. /\ section' = section /\ server' = server /\ jobs' = jobs /\ ui'.inputs = ui.inputs
        /\ hist'.foreign = hist.foreign /\ hist'.unsaved = hist.unsaved
    BY <1>7, PickWellFacts DEF Page, Noted
  <2>2. \A b : Known(b)' = Known(b)
    BY <2>1, SameKnown DEF Known
  <2>3. \A t \in Slots : SsoHandler(t)
    BY <2>1 DEF SsoHandler
  <2>4. \A j \in Fields : server'[j] = "true" => On(j)
    BY <2>1 DEF On
  <2> QED
    BY <2>1, <2>2, <2>3, <2>4, IdleOn
<1>8. ASSUME NEW k \in Fields, Discover(k) PROVE StaysOn
  <2> DEFINE d == One(k, ui.kept[k])
  <2>1. /\ d \in Maps(Stored) /\ Looks(d, {}) /\ ui'.inputs = ui.inputs
    BY <1>8, DiscoverFacts DEF Page
  <2> HIDE DEF d
  <2>2. /\ section' = section /\ server' = server
        /\ hist'.foreign = hist.foreign /\ hist'.unsaved = hist.unsaved
        /\ \A s \in Slots : jobs'[s] = jobs[s] \/ (jobs[s] = Nobody /\ jobs'[s] = Finder(d))
    BY <2>1 DEF Looks, Recorded, Started
  <2>3. \A b : Known(b)' = Known(b)
    BY <2>1, <2>2, SameKnown DEF Known
  <2>4. \A t \in Slots : SsoHandler(t) /\ (jobs'[t] = jobs[t] \/ ~Does(t, "save"))
    BY <2>1, <2>2, NobodyFacts DEF SsoHandler, Does
  <2>5. \A t \in Slots : jobs'[t].op = "save" => jobs[t].op = "save" /\ jobs'[t].queue = jobs[t].queue
    BY <2>1, <2>2, FinderFacts
  <2>6. \A j \in Fields : server'[j] = "true" => On(j)
    BY <2>2 DEF On
  <2> QED
    BY <2>2, <2>3, <2>4, <2>5, <2>6, IdleOn
<1>9. ASSUME NEW s \in Slots, Discovered(s) PROVE StaysOn
  <2>1. section' = section /\ server' = server /\ Does(s, "find")
    BY <1>9, DiscoveredFacts
  <2>2. CASE /\ Moved(s, Nobody) /\ Silent
             /\ \E hung \in BOOLEAN : Page(ui.inputs, ui.kept, hung, ui.asking)
    <3>1. ui'.inputs = ui.inputs /\ hist'.foreign = hist.foreign /\ hist'.unsaved = hist.unsaved
      BY <2>2 DEF Page, Silent, Noted
    <3>2. \A b : Known(b)' = Known(b)
      BY <2>1, <3>1, SameKnown DEF Known
    <3>3. jobs'[s] = Nobody /\ \A t \in Slots \ {s} : jobs'[t] = jobs[t]
      BY <2>2 DEF Moved
    <3>4. \A t \in Slots : SsoHandler(t) /\ (jobs'[t] = jobs[t] \/ ~Does(t, "save"))
      BY <2>1, <3>3 DEF SsoHandler, Ends, Does
    <3>5. \A t \in Slots : jobs'[t].op = "save" => jobs[t].op = "save" /\ jobs'[t].queue = jobs[t].queue
      BY <3>3, NobodyFacts
    <3>6. \A k \in Fields : server'[k] = "true" => On(k)
      BY <2>1 DEF On
    <3> QED
      BY <2>1, <3>1, <3>2, <3>4, <3>5, <3>6, IdleOn
  <2>3. CASE \E q \in Maps(Values) :
                 /\ DOMAIN q = {2, 3} /\ q[2] \in {"a", "b"}
                 /\ Moved(s, Saver(q))
                 /\ Page([ui.inputs EXCEPT ![2] = q[2]], ui.kept, FALSE, ui.asking)
                 /\ Noted(hist.meant \cup {2, 3}, hist.told, hist.touched \cup {2, 3}, hist.raced,
                          hist.unsaved \ {2, 3})
    <3>1. PICK q \in Maps(Values) :
            /\ DOMAIN q = {2, 3} /\ q[2] \in {"a", "b"} /\ Moved(s, Saver(q))
            /\ ui'.inputs = [ui.inputs EXCEPT ![2] = q[2]]
            /\ hist'.foreign = hist.foreign /\ hist'.unsaved = hist.unsaved \ {2, 3}
      BY <2>3 DEF Page, Noted
    <3>2. Moved(s, Then(q))
      BY <3>1, ThenFacts
    <3>3. q[2] # Blank
      BY <3>1, ValueFacts
    <3>4. NotBlank(q)
      BY <1>0, <3>1, <3>3 DEF NotBlank
    <3>5. \A b \in Boxes : Known(b)' # Blank => Known(b) # Blank \/ b \in DOMAIN q
      BY <1>0, <1>00, <2>1, <3>1, SameKnown DEF Known
    <3>6. \A k \in DOMAIN q : ~Is(k, {"enable"})
      BY <1>0, <3>1
    <3>7. ~Does(s, "save")
      BY <2>1 DEF Does
    <3> QED
      BY <2>1, <3>1, <3>2, <3>4, <3>5, <3>6, <3>7, MovedOn
  <2> QED
    BY <1>9, <2>2, <2>3, DiscoveredFacts, Zenon
<1>10. ASSUME NEW s \in Slots, Saved(s) PROVE StaysOn
  <2> DEFINE q == jobs[s].queue
             r == Rest(q)
             k == First(r)
  <2>1. /\ section' = section /\ server' = server /\ Does(s, "save") /\ jobs[s].phase = "served"
        /\ Moved(s, Then(r))
        /\ ui'.inputs = IF DOMAIN r = {} THEN ui.inputs ELSE [ui.inputs EXCEPT ![k] = r[k]]
        /\ hist'.foreign = hist.foreign
        /\ hist'.unsaved = IF jobs[s].ok THEN hist.unsaved ELSE hist.unsaved \cup {First(q)}
    BY <1>10, SavedFacts DEF Page, Noted
  <2>2. /\ r \in Maps(Values) /\ DOMAIN r = DOMAIN q \ {First(q)} /\ (DOMAIN r # {} => k \in DOMAIN r)
        /\ \A j \in DOMAIN r : r[j] = q[j]
    BY <2>1, AnswerFacts
  <2>3. NotBlank(q)
    BY <2>1 DEF SsoJobs
  <2>4. jobs[s].ok /\ First(q) \in Boxes => server[First(q)] # Blank
    BY <2>1 DEF SsoJobs
  <2> HIDE DEF r, k
  <2>5. NotBlank(r)
    BY <2>2, <2>3 DEF NotBlank
  <2>6. \A b \in Boxes \ hist'.unsaved : b \in DOMAIN q \ DOMAIN r => server[b] # Blank
    BY <2>1, <2>2, <2>4
  <2>7. \A b \in Boxes : Known(b)' # Blank => Known(b) # Blank \/ b \in DOMAIN r
    BY <1>0, <1>00, <2>1, <2>2, SameKnown DEF Known
  <2> QED
    BY <2>1, <2>2, <2>5, <2>6, <2>7, MovedOn
<1>11. ~LegacyNext
  <2>1. \A k \in Fields : \A v \in Texts(k) : ~Enter(k, v)
    BY <1>0, Zenon DEF Enter
  <2>2. \A k \in Fields : ~Switch(k) /\ ~Warned(k)
    BY <1>0 DEF Switch, Warned, Is, SsoRules
  <2>3. ~Submit /\ ~SubmitOidc
    BY <1>0, Zenon DEF Submit, SubmitOidc
  <2>4. \A s \in Slots : ~Updated(s) /\ ~OidcFound(s)
    BY <1>0, Zenon DEF Updated, OidcFound
  <2> QED
    BY <2>1, <2>2, <2>3, <2>4, Zenon DEF LegacyNext
<1> QED
  BY <1>1, <1>2, <1>3, <1>4, <1>5, <1>6, <1>7, <1>8, <1>9, <1>10, <1>11, Zenon DEF Next, ConsoleNext

(* At first single sign-on is as the server was set up: off, or on and
   complete. *)
LEMMA InitOn ==
  ASSUME Init, section = "console/sso"
  PROVE  SsoJobs /\ SsoKnown /\ SsoOn
<1>0. /\ Rules = SsoRules /\ Fields = 1..4 /\ Boxes = {1, 2}
      /\ \A k \in Fields : Is(k, {"enable"}) <=> k = 4
  BY InitTyped, SsoFields
<1>1. \A s \in Slots : ~Does(s, "save") /\ (Does(s, "load") => jobs[s].phase = "asked")
  BY SmallQueues, NobodyFacts DEF Init, Handler, Does
<1>2. SsoJobs
  BY <1>1 DEF SsoJobs
<1>3. SsoKnown
  <2>1. \A b \in Boxes : ui.inputs[b] = Blank
    BY <1>0 DEF Init
  <2> QED
    BY <2>1 DEF SsoKnown, Known, Trusted
<1>4. SsoOn
  <2>1. \A k : On(k) <=> server[k] = "true"
    BY <1>1 DEF On
  <2>2. CASE server = [k \in Fields |-> Fresh(k)]
    <3>1. server[4] = "false"
      BY <1>0, <2>2 DEF Fresh, Is, SsoRules, Switches
    <3> QED
      BY <1>0, <2>1, <3>1 DEF SsoOn
  <2>3. CASE server = [k \in Fields |-> InUse(k)]
    <3>1. server[1] = "a" /\ server[2] = "a"
      BY <1>0, <2>3 DEF InUse, Is, SsoRules, Switches
    <3>2. "a" # Blank
      BY ValueFacts
    <3> QED
      BY <1>0, <3>1, <3>2 DEF SsoOn, Goes, Trusted
  <2> QED
    BY <2>2, <2>3 DEF Init
<1> QED
  BY <1>2, <1>3, <1>4

(* Every step keeps the invariant of the single sign-on. *)
LEMMA StepOn ==
  ASSUME TypeInv, JobInv, SsoInv, [Next]_vars
  PROVE  SsoInv'
<1>1. CASE Next
  <2>1. section' = section
    BY <1>1, NextTyped DEF WellTyped
  <2>2. section = "console/sso" => SsoJobs /\ SsoKnown /\ SsoOn /\ StaysOn
    BY <1>1, NextOn DEF SsoInv
  <2> QED
    BY <2>1, <2>2, SsoStep
<1>2. CASE UNCHANGED vars
  <2>1. /\ section' = section /\ server' = server /\ ui' = ui /\ jobs' = jobs /\ hist' = hist
    BY <1>2 DEF vars
  <2>2. \A b : Known(b)' = Known(b)
    BY <2>1, SameKnown DEF Known
  <2>3. \A t \in Slots : SsoHandler(t)
    BY <2>1 DEF SsoHandler
  <2>4. \A k \in Fields : server'[k] = "true" => On(k)
    BY <2>1 DEF On
  <2>5. section = "console/sso" => SsoJobs /\ SsoKnown /\ SsoOn /\ StaysOn
    BY <2>1, <2>2, <2>3, <2>4, IdleOn DEF SsoInv
  <2> QED
    BY <2>1, <2>5, SsoStep
<1> QED
  BY <1>1, <1>2

(* Single sign-on is never on without its client and its endpoints, in whatever
   order the saves arrive, those fields apart whose last save was refused or lost. *)
THEOREM SignOnComplete == Spec => []SignOnIsComplete
<1>1. Init => TypeInv /\ JobInv /\ SsoInv
  BY InitTyped, InitOn DEF SsoInv
<1>2. TypeInv /\ JobInv /\ SsoInv /\ [Next]_vars => TypeInv' /\ JobInv' /\ SsoInv'
  BY StepTyped, StepOn
<1>3. TypeInv /\ JobInv /\ SsoInv => SignOnIsComplete
  <2> SUFFICES ASSUME TypeInv, SsoInv, section = "console/sso", Quiet, hist.foreign = {},
                      NEW k \in Fields, Is(k, {"enable"}), server[k] = "true",
                      NEW b \in Boxes \ hist.unsaved
               PROVE  server[b] # Blank
    BY DEF SignOnIsComplete
  <2>1. Goes(b)
    BY DEF SsoInv, SsoOn, On, Trusted
  <2>2. \A s \in Slots : ~Does(s, "save")
    BY JobFacts DEF Quiet, InFlight, Does
  <2> QED
    BY <2>1, <2>2 DEF Goes, Pends
<1> QED
  BY <1>1, <1>2, <1>3, PTL DEF Spec

-----------------------------------------------------------------------------
(* What root meant to save: loading, and handlers that overlap             *)

\* One handler is under way at a time, the page says so, and asks nothing meanwhile.
Alone ==
  /\ InFlight # {} => ui.busy
  /\ ui.asking => InFlight = {}
  /\ \A s, t \in Slots : Busy(s) /\ Busy(t) => s = t

\* Before the page is loaded nothing is saved; what is read is what the server
\* has; and a page that is covered while it saves has one handler at a time.
LoadInv ==
  /\ ~ui.loaded /\ ~hist.blind =>
       hist.meant = {} /\ \A s \in Slots : ~Does(s, "save") /\ ~Does(s, "find")
  /\ ~hist.blind => \A s \in Slots : Does(s, "load") /\ jobs[s].phase = "served" =>
       \A k \in Fields \ hist.foreign : jobs[s].data[k] = server[k]
  /\ ui.loaded /\ ~hist.blind /\ Covered => Alone

\* What a step has to do to keep this.
StaysLoaded ==
  /\ hist.blind => hist'.blind
  /\ ui.loaded => ui'.loaded
  /\ hist.foreign \subseteq hist'.foreign
  /\ \/ ui'.loaded \/ hist'.blind \/ \E s \in Slots : Does(s, "save") \/ Does(s, "find")
     \/ /\ hist'.meant \subseteq hist.meant
        /\ \A s \in Slots : jobs'[s].op \in {jobs[s].op, "none"}
  /\ \A k \in Fields : server'[k] = server[k] \/ k \in hist'.foreign \/ \E s \in Slots : Does(s, "save")
  /\ \A s \in Slots : jobs'[s].op # "load" \/ jobs'[s] = jobs[s] \/ jobs'[s].data = server'
  /\ ui'.loaded /\ ~hist'.blind /\ Covered => Alone'

(* A step that does so keeps it. *)
LEMMA LoadStep ==
  ASSUME TypeInv, JobInv, LoadInv, section' = section, StaysLoaded
  PROVE  LoadInv'
<1>1. Fields' = Fields /\ Covered' = Covered
  BY SameSection
<1>2. ~ui'.loaded /\ ~hist'.blind =>
        hist'.meant = {} /\ \A s \in Slots : jobs'[s].op # "save" /\ jobs'[s].op # "find"
  BY DEF LoadInv, StaysLoaded, Does
<1>3. ASSUME ~hist'.blind, NEW s \in Slots, jobs'[s].op = "load", jobs'[s].phase = "served",
             NEW k \in Fields \ hist'.foreign
      PROVE  jobs'[s].data[k] = server'[k]
  <2>1. CASE jobs'[s].data = server'
    BY <2>1
  <2>2. CASE jobs'[s] = jobs[s]
    <3>1. Does(s, "load") /\ ~hist.blind /\ k \in Fields \ hist.foreign
      BY <1>3, <2>2 DEF StaysLoaded, Does
    <3>2. ~ui.loaded
      BY <3>1 DEF JobInv
    <3>3. \A t \in Slots : ~Does(t, "save")
      BY <3>1, <3>2 DEF LoadInv
    <3>4. server'[k] = server[k]
      BY <1>3, <3>3 DEF StaysLoaded
    <3> QED
      BY <1>3, <2>2, <3>1, <3>4 DEF LoadInv
  <2> QED
    BY <1>3, <2>1, <2>2 DEF StaysLoaded
<1>4. ui'.loaded /\ ~hist'.blind /\ Covered => Alone'
  BY DEF StaysLoaded
<1> QED
  BY <1>1, <1>2, <1>3, <1>4 DEF LoadInv, Does

(* Nobody is nobody after a step too. *)
LEMMA SameBusy ==
  /\ \A s : Busy(s)' <=> jobs'[s] # Nobody
  /\ InFlight' = {s \in Slots : jobs'[s] # Nobody}
BY DEF Busy, InFlight, Nobody

(* Starting a handler that saves. *)
LEMMA AsksLoaded ==
  ASSUME TypeInv, JobInv, LoadInv, NEW q \in Maps(Values), NEW ks, NEW quit, NEW touched,
         Asks(q, ks, quit, touched), ui'.loaded = ui.loaded,
         Covered => InFlight = {} \/ (~ui.busy /\ ~ui.asking),
         DOMAIN q # {} => ui'.busy /\ ~ui'.asking,
         ui'.busy \/ ~ui.busy, ui'.asking => ui.asking
  PROVE  StaysLoaded
<1>1. /\ server' = server /\ hist'.foreign = hist.foreign
      /\ hist'.blind <=> hist.blind \/ ~ui.loaded
  BY DEF Asks, Recorded
<1>2. \A s \in Slots : jobs'[s] = jobs[s] \/ (jobs[s] = Nobody /\ jobs'[s] = Saver(q))
  BY DEF Asks, Started
<1>3. \A s \in Slots : jobs'[s].op # "load" \/ jobs'[s] = jobs[s]
  BY <1>2, SaverFacts
<1>4. ASSUME ui'.loaded, ~hist'.blind, Covered PROVE Alone'
  <2>1. Alone /\ InFlight = {}
    BY <1>1, <1>4 DEF LoadInv, Alone
  <2>2. \A s \in Slots : jobs[s] = Nobody
    BY <2>1 DEF InFlight, Busy
  <2>3. CASE DOMAIN q = {}
    <3>1. jobs' = jobs
      BY <2>3 DEF Asks
    <3>2. \A s \in Slots : jobs'[s] = Nobody
      BY <2>2, <3>1
    <3> QED
      BY <3>2, SameBusy DEF Alone
  <2>4. CASE DOMAIN q # {}
    <3>1. PICK s \in Slots : \A t \in Slots \ {s} : jobs'[t] = jobs[t]
      BY <2>4 DEF Asks, Started
    <3>2. \A t \in Slots : jobs'[t] # Nobody => t = s
      BY <2>2, <3>1
    <3> QED
      BY <2>4, <3>2, SameBusy DEF Alone
  <2> QED
    BY <2>3, <2>4
<1> QED
  BY <1>1, <1>3, <1>4 DEF StaysLoaded

(* The same in a section that is not covered, or before the page was loaded. *)
LEMMA OpenLoaded ==
  ASSUME TypeInv, JobInv, LoadInv, NEW q \in Maps(Values), NEW ks, NEW quit, NEW touched,
         Asks(q, ks, quit, touched), ui'.loaded = ui.loaded, ~Covered \/ hist'.blind
  PROVE  StaysLoaded
<1>1. /\ server' = server /\ hist'.foreign = hist.foreign
      /\ hist'.blind <=> hist.blind \/ ~ui.loaded
  BY DEF Asks, Recorded
<1>2. \A s \in Slots : jobs'[s] = jobs[s] \/ (jobs[s] = Nobody /\ jobs'[s] = Saver(q))
  BY DEF Asks, Started
<1>3. \A s \in Slots : jobs'[s].op # "load" \/ jobs'[s] = jobs[s]
  BY <1>2, SaverFacts
<1> QED
  BY <1>1, <1>3 DEF StaysLoaded

(* Starting a handler that looks up. *)
LEMMA LooksLoaded ==
  ASSUME TypeInv, JobInv, LoadInv, NEW d \in Maps(Stored), NEW ks, Looks(d, ks), ~Covered,
         ui'.loaded = ui.loaded
  PROVE  StaysLoaded
<1>1. /\ server' = server /\ hist'.foreign = hist.foreign
      /\ hist'.blind <=> hist.blind \/ ~ui.loaded
  BY DEF Looks, Recorded
<1>2. \A s \in Slots : jobs'[s] = jobs[s] \/ (jobs[s] = Nobody /\ jobs'[s] = Finder(d))
  BY DEF Looks, Started
<1>3. \A s \in Slots : jobs'[s].op # "load" \/ jobs'[s] = jobs[s]
  BY <1>2, FinderFacts
<1> QED
  BY <1>1, <1>3 DEF StaysLoaded

(* A handler that goes on after its answer. *)
LEMMA MovedLoaded ==
  ASSUME TypeInv, JobInv, LoadInv, NEW s \in Slots, NEW q \in Maps(Values), Moved(s, Then(q)),
         Does(s, "save") \/ Does(s, "find"),
         server' = server, hist'.foreign = hist.foreign, hist'.blind = hist.blind,
         ui'.loaded = ui.loaded, ui'.asking = ui.asking,
         Covered => (DOMAIN q # {} => ui'.busy)
  PROVE  StaysLoaded
<1>1. /\ \A t \in Slots \ {s} : jobs'[t] = jobs[t]
      /\ DOMAIN q = {} => jobs'[s] = Nobody /\ jobs'[s].op = "none"
      /\ DOMAIN q # {} => jobs'[s] = Saver(q) /\ jobs'[s].op = "save"
  BY MovedThen
<1>2. \A t \in Slots : jobs'[t].op # "load" \/ jobs'[t] = jobs[t]
  BY <1>1
<1>3. ASSUME ui'.loaded, ~hist'.blind, Covered PROVE Alone'
  <2>1. Alone /\ Busy(s)
    BY <1>3, JobFacts DEF LoadInv, Does
  <2>2. \A t \in Slots \ {s} : jobs'[t] = Nobody
    BY <1>1, <2>1 DEF Alone, Busy
  <2>3. ~ui'.asking
    BY <2>1 DEF Alone, InFlight
  <2> QED
    BY <1>1, <1>3, <2>2, <2>3, SameBusy DEF Alone
<1> QED
  BY <1>2, <1>3 DEF StaysLoaded

(* A step that starts nothing. *)
LEMMA IdleLoaded ==
  ASSUME TypeInv, JobInv, LoadInv, hist'.blind = hist.blind, hist.foreign \subseteq hist'.foreign,
         hist'.meant \subseteq hist.meant, ui'.loaded = ui.loaded, ui'.busy = ui.busy,
         ui'.asking => ui.asking \/ (Covered => ~ui.busy),
         \A k \in Fields : server'[k] = server[k] \/ k \in hist'.foreign \/ \E s \in Slots : Does(s, "save"),
         \A s \in Slots : \/ jobs'[s] = jobs[s] \/ jobs'[s] = Nobody
                          \/ jobs[s] # Nobody /\ jobs'[s].op = jobs[s].op
                             /\ (jobs[s].op = "load" => jobs'[s].data = server')
  PROVE  StaysLoaded
<1>1. \A s \in Slots : jobs'[s].op \in {jobs[s].op, "none"}
  BY NobodyFacts
<1>2. \A s \in Slots : jobs'[s].op # "load" \/ jobs'[s] = jobs[s] \/ jobs'[s].data = server'
  BY NobodyFacts
<1>3. ASSUME ui'.loaded, ~hist'.blind, Covered PROVE Alone'
  <2>1. Alone
    BY <1>3 DEF LoadInv
  <2>2. \A s \in Slots : jobs'[s] # Nobody => jobs[s] # Nobody
    OBVIOUS
  <2> QED
    BY <1>3, <2>1, <2>2, SameBusy DEF Alone, InFlight, Busy
<1> QED
  BY <1>1, <1>2, <1>3 DEF StaysLoaded

(* Every step keeps what loading rests on. *)
LEMMA NextLoaded ==
  ASSUME TypeInv, JobInv, LoadInv, Next
  PROVE  StaysLoaded
<1>0. section \in Studied /\ ui.inputs \in [Fields -> Values]
  BY DEF TypeInv, UiType
<1>00. Covered => ~InConsole /\ Wells = {}
  BY <1>0, FieldFacts
<1>000. Legacy /\ Covered => ~ui.busy /\ ~ui.asking
  BY DEF Legacy
<1>1. ASSUME NEW s \in Slots, Serve(s) PROVE StaysLoaded
  <2>1. /\ ui' = ui /\ jobs[s] \in Job /\ jobs[s].op \in {"save", "load"} /\ Moved(s, jobs'[s])
        /\ jobs'[s].op = jobs[s].op
        /\ jobs'[s].data = IF jobs[s].op = "load" THEN server ELSE jobs[s].data
        /\ jobs[s].op = "load" => server' = server
        /\ hist'.blind = hist.blind /\ hist'.foreign = hist.foreign /\ hist'.meant = hist.meant
    BY <1>1, ServeFacts DEF Silent, Noted
  <2>2. \A k \in Fields : server'[k] = server[k] \/ \E t \in Slots : Does(t, "save")
    BY <2>1 DEF Does
  <2>3. jobs[s] # Nobody
    BY <2>1, NobodyFacts
  <2> QED
    BY <2>1, <2>2, <2>3, IdleLoaded DEF Moved
<1>2. ASSUME NEW s \in Slots, Lost(s) PROVE StaysLoaded
  <2>1. /\ ui' = ui /\ server' = server /\ Moved(s, Nobody)
        /\ hist'.blind = hist.blind /\ hist'.foreign = hist.foreign /\ hist'.meant = hist.meant
    BY <1>2, LostFacts DEF Noted
  <2> QED
    BY <2>1, IdleLoaded DEF Moved
<1>3. ASSUME NEW s \in Slots, Loaded(s) PROVE StaysLoaded
  <2>1. /\ server' = server /\ hist' = hist /\ Does(s, "load") /\ Moved(s, Nobody) /\ ui'.loaded
    BY <1>3, LoadedFacts
  <2>2. ~ui.loaded /\ \A t \in Slots : Does(t, "load") => t = s
    BY <2>1 DEF JobInv
  <2>3. jobs'[s] = Nobody /\ \A t \in Slots \ {s} : jobs'[t] = jobs[t]
    BY <2>1 DEF Moved
  <2>4. ~hist'.blind => \A t \in Slots : jobs'[t] = Nobody
    <3>1. ~hist'.blind => \A t \in Slots \ {s} : jobs[t] = Nobody
      BY <2>1, <2>2, JobFacts DEF LoadInv, Does
    <3> QED
      BY <2>3, <3>1
  <2>5. ~hist'.blind => Alone'
    BY <2>4, SameBusy DEF Alone
  <2>6. \A t \in Slots : jobs'[t].op # "load" \/ jobs'[t] = jobs[t]
    BY <2>3, NobodyFacts
  <2> QED
    BY <2>1, <2>5, <2>6 DEF StaysLoaded
<1>4. ASSUME NEW k \in Fields, Elsewhere(k) PROVE StaysLoaded
  <2>1. /\ ui' = ui /\ jobs' = jobs
        /\ hist'.blind = hist.blind /\ hist'.foreign = hist.foreign \cup {k} /\ hist'.meant = hist.meant
    BY <1>4, ElsewhereFacts
  <2>2. PICK v \in {"a", "b", "true", "false"} : server' = [server EXCEPT ![k] = v]
    BY <1>4, ElsewhereFacts
  <2>3. \A j \in Fields : server'[j] = server[j] \/ j \in hist'.foreign
    BY <2>1, <2>2 DEF TypeInv
  <2> QED
    BY <2>1, <2>3, IdleLoaded
<1>5. ASSUME NEW k \in Fields, NEW v \in Texts(k), Enter(k, v) PROVE StaysLoaded
  <2>1. Legacy
    BY <1>5, EnterFacts
  <2>2. CASE Is(k, Typing)
    <3>1. /\ Asks(One(k, v), {k}, {}, {k}) /\ v \in Values
          /\ ui'.loaded = ui.loaded /\ ui'.busy /\ ui'.asking = ui.asking
      BY <1>5, <2>2, EnterFacts DEF Page
    <3>2. One(k, v) \in Maps(Values)
      BY <3>1, OneFacts
    <3>3. ~ui.asking
      BY <2>1 DEF Legacy
    <3> QED
      BY <1>000, <2>1, <3>1, <3>2, <3>3, AsksLoaded
  <2>3. CASE ~Is(k, Typing)
    <3>1. /\ section' = section /\ server' = server /\ jobs' = jobs
          /\ hist'.blind = hist.blind /\ hist'.foreign = hist.foreign
          /\ hist'.meant = hist.meant \ Affects(k)
          /\ ui'.loaded = ui.loaded /\ ui'.busy = ui.busy /\ ui'.asking = ui.asking
      BY <1>5, <2>3, EnterFacts DEF Page, Noted
    <3> QED
      BY <3>1, IdleLoaded
  <2> QED
    BY <2>2, <2>3
<1>6. ASSUME NEW k \in Fields, Switch(k) PROVE StaysLoaded
  <2> DEFINE v == Flip(ui.inputs[k])
  <2>1. Legacy /\ v \in Values
    BY <1>6, SwitchFacts
  <2>2. One(k, v) \in Maps(Values)
    BY <2>1, OneFacts
  <2>3. CASE Asks(One(k, v), {k}, {}, {k}) /\ Page(ui.inputs, ui.kept, TRUE, ui.asking)
    <3>1. ui'.loaded = ui.loaded /\ ui'.busy /\ ui'.asking = ui.asking /\ ~ui.asking
      BY <2>1, <2>3 DEF Page, Legacy
    <3> QED
      BY <1>000, <2>1, <2>2, <2>3, <3>1, AsksLoaded
  <2>4. CASE /\ section' = section /\ server' = server /\ jobs' = jobs /\ Silent
             /\ Page(ui.inputs, ui.kept, ui.busy, TRUE)
    <3>1. /\ hist'.blind = hist.blind /\ hist'.foreign = hist.foreign /\ hist'.meant = hist.meant
          /\ ui'.loaded = ui.loaded /\ ui'.busy = ui.busy
      BY <2>4 DEF Page, Silent, Noted
    <3> QED
      BY <1>000, <2>1, <2>4, <3>1, IdleLoaded
  <2> QED
    BY <1>6, <2>3, <2>4, SwitchFacts
<1>7. ASSUME NEW k \in Fields, Warned(k) PROVE StaysLoaded
  <2> DEFINE v == Flip(ui.inputs[k])
  <2>1. ui.asking /\ v \in Values
    BY <1>7, WarnedFacts
  <2>2. One(k, v) \in Maps(Values)
    BY <2>1, OneFacts
  <2>3. CASE Asks(One(k, v), {k}, {}, {k}) /\ Page(ui.inputs, ui.kept, TRUE, FALSE)
    <3>1. ui'.loaded = ui.loaded /\ ui'.busy /\ ~ui'.asking
      BY <2>3 DEF Page
    <3>2. hist'.blind \/ ~Covered \/ InFlight = {}
      BY <2>1, <2>3 DEF LoadInv, Alone, Asks, Recorded
    <3>3. CASE hist'.blind
      BY <2>2, <2>3, <3>1, <3>3, OpenLoaded
    <3> QED
      BY <2>2, <2>3, <3>1, <3>2, <3>3, AsksLoaded
  <2>4. CASE /\ section' = section /\ server' = server /\ jobs' = jobs /\ hist' = hist
             /\ Page(ui.inputs, ui.kept, ui.busy, FALSE)
    BY <2>1, <2>4, IdleLoaded DEF Page
  <2> QED
    BY <1>7, <2>3, <2>4, WarnedFacts
<1>8. ASSUME Submit PROVE StaysLoaded
  <2> DEFINE q == Queue(ui.inputs)
             quit == {k \in ButtonFields : ~Before(k, ui.inputs)}
  <2>1. /\ Legacy /\ q \in Maps(Values) /\ Asks(q, ButtonFields, quit, {})
        /\ ui'.loaded = ui.loaded /\ ui'.asking = ui.asking /\ (ui'.busy <=> ui.busy \/ DOMAIN q # {})
    BY <1>8, SubmitFacts DEF Page
  <2>2. ~ui.asking
    BY <2>1 DEF Legacy
  <2> HIDE DEF q, quit
  <2> QED
    BY <1>000, <2>1, <2>2, AsksLoaded
<1>9. ASSUME SubmitOidc PROVE StaysLoaded
  <2>1. Legacy /\ Wells # {} /\ ui' = ui /\ ui.inputs \in Maps(Stored)
    BY <1>9, SubmitOidcFacts
  <2>2. CASE Looks(ui.inputs, ButtonFields)
    BY <1>00, <2>1, <2>2, LooksLoaded
  <2>3. CASE Asks(Nothing, ButtonFields, ButtonFields, {})
    <3>1. Nothing \in Maps(Values) /\ DOMAIN Nothing = {}
      BY SmallQueues
    <3> QED
      BY <1>00, <2>1, <2>3, <3>1, AsksLoaded
  <2> QED
    BY <1>9, <2>2, <2>3, SubmitOidcFacts
<1>10. ASSUME NEW s \in Slots, Updated(s) PROVE StaysLoaded
  <2> DEFINE r == Rest(jobs[s].queue)
  <2>1. /\ server' = server /\ Does(s, "save") /\ Moved(s, Then(r))
        /\ ui'.loaded = ui.loaded /\ ui'.asking = ui.asking /\ (ui'.busy <=> DOMAIN r # {})
        /\ hist'.blind = hist.blind /\ hist'.foreign = hist.foreign
    BY <1>10, UpdatedFacts DEF Page, Noted
  <2>2. r \in Maps(Values)
    BY <2>1, AnswerFacts
  <2> HIDE DEF r
  <2> QED
    BY <2>1, <2>2, MovedLoaded
<1>11. ASSUME NEW s \in Slots, OidcFound(s) PROVE StaysLoaded
  <2>1. PICK i \in [Fields -> Values] :
          /\ Page(IF ui.inputs = jobs[s].data THEN i ELSE ui.inputs, ui.kept,
                      ui.busy \/ DOMAIN Queue(i) # {}, ui.asking)
          /\ Moved(s, Then(Queue(i)))
    BY <1>11, OidcFoundFacts, Zenon
  <2>2. ui'.loaded = ui.loaded /\ ui'.asking = ui.asking
    BY <2>1 DEF Page
  <2>3. Queue(i) \in Maps(Values)
    BY <1>0, QueueFacts
  <2>4. /\ server' = server /\ Does(s, "find") /\ Wells # {}
        /\ hist'.blind = hist.blind /\ hist'.foreign = hist.foreign
    BY <1>11, OidcFoundFacts DEF Noted
  <2> QED
    BY <1>00, <2>1, <2>2, <2>3, <2>4, MovedLoaded
<1>12. ASSUME NEW k \in Fields, NEW v \in Texts(k), Leave(k, v) PROVE StaysLoaded
  <2>1. InConsole /\ ui.loaded /\ v \in Values /\ ~Covered
    BY <1>00, <1>12, LeaveFacts
  <2>2. One(k, v) \in Maps(Values)
    BY <2>1, OneFacts
  <2>3. ui'.loaded = ui.loaded
    BY <1>12, LeaveFacts DEF Page
  <2>4. CASE Asks(One(k, v), {k}, {}, {k})
    BY <2>1, <2>2, <2>3, <2>4, OpenLoaded
  <2>5. CASE section' = section /\ server' = server /\ jobs' = jobs
             /\ hist'.blind = hist.blind /\ hist'.foreign = hist.foreign
    BY <2>1, <2>3, <2>5 DEF StaysLoaded
  <2> QED
    BY <1>12, <2>4, <2>5, LeaveFacts DEF Noted
<1>13. ASSUME NEW k \in Fields, Click(k) PROVE StaysLoaded
  <2> DEFINE v == Flip(ui.inputs[k])
  <2>1. /\ InConsole /\ v \in Values /\ ~Covered /\ ui'.loaded = ui.loaded /\ ui.loaded
        /\ Asks(One(k, v), {k}, {}, {k})
    BY <1>00, <1>13, ClickFacts DEF Page
  <2>2. One(k, v) \in Maps(Values)
    BY <2>1, OneFacts
  <2> QED
    BY <2>1, <2>2, OpenLoaded
<1>14. ASSUME NEW k \in Fields, NEW v \in Texts(k), PickWell(k, v) PROVE StaysLoaded
  BY <1>14, PickWellFacts, IdleLoaded DEF Page, Noted
<1>15. ASSUME NEW k \in Fields, Discover(k) PROVE StaysLoaded
  BY <1>00, <1>15, DiscoverFacts, LooksLoaded DEF Page
<1>16. ASSUME NEW s \in Slots, Discovered(s) PROVE StaysLoaded
  <2>1. server' = server /\ InConsole /\ ~Covered /\ Does(s, "find")
    BY <1>00, <1>16, DiscoveredFacts
  <2>2. CASE /\ Moved(s, Nobody) /\ Silent
             /\ \E hung \in BOOLEAN : Page(ui.inputs, ui.kept, hung, ui.asking)
    <3>1. /\ hist'.blind = hist.blind /\ hist'.foreign = hist.foreign /\ ui'.loaded = ui.loaded
          /\ ui'.asking = ui.asking
      BY <2>2 DEF Page, Silent, Noted
    <3>2. Nothing \in Maps(Values) /\ Moved(s, Then(Nothing))
      BY <2>2, SmallQueues, ThenFacts
    <3> QED
      BY <2>1, <3>1, <3>2, MovedLoaded
  <2>3. CASE \E q \in Maps(Values) :
                 /\ DOMAIN q = {2, 3} /\ q[2] \in {"a", "b"}
                 /\ Moved(s, Saver(q))
                 /\ Page([ui.inputs EXCEPT ![2] = q[2]], ui.kept, FALSE, ui.asking)
                 /\ Noted(hist.meant \cup {2, 3}, hist.told, hist.touched \cup {2, 3}, hist.raced,
                          hist.unsaved \ {2, 3})
    <3>1. PICK q \in Maps(Values) :
            /\ DOMAIN q = {2, 3} /\ Moved(s, Saver(q))
            /\ hist'.blind = hist.blind /\ hist'.foreign = hist.foreign /\ ui'.loaded = ui.loaded
            /\ ui'.asking = ui.asking
      BY <2>3 DEF Page, Noted
    <3>2. Then(q) = Saver(q)
      BY <3>1, ThenFacts
    <3> QED
      BY <2>1, <3>1, <3>2, MovedLoaded
  <2> QED
    BY <1>16, <2>2, <2>3, DiscoveredFacts, Zenon
<1>17. ASSUME NEW s \in Slots, Saved(s) PROVE StaysLoaded
  <2> DEFINE r == Rest(jobs[s].queue)
  <2>1. /\ server' = server /\ Does(s, "save") /\ Moved(s, Then(r)) /\ ~Covered
        /\ ui'.loaded = ui.loaded /\ ui'.asking = ui.asking
        /\ hist'.blind = hist.blind /\ hist'.foreign = hist.foreign
    BY <1>00, <1>17, SavedFacts DEF Page, Noted
  <2>2. r \in Maps(Values)
    BY <2>1, AnswerFacts
  <2> HIDE DEF r
  <2> QED
    BY <2>1, <2>2, MovedLoaded
<1> QED
  BY <1>1, <1>2, <1>3, <1>4, <1>5, <1>6, <1>7, <1>8, <1>9, <1>10, <1>11, <1>12, <1>13, <1>14, <1>15,
     <1>16, <1>17, Zenon DEF Next, LegacyNext, ConsoleNext

(* At first only the load is under way. *)
LEMMA InitLoaded == Init => LoadInv
<1> SUFFICES ASSUME Init PROVE LoadInv
  OBVIOUS
<1>1. \A s \in Slots : ~Does(s, "save") /\ ~Does(s, "find") /\ (Does(s, "load") => jobs[s].phase = "asked")
  BY SmallQueues, NobodyFacts DEF Init, Handler, Does
<1>2. ~ui.loaded /\ hist.meant = {}
  BY DEF Init
<1> QED
  BY <1>1, <1>2 DEF LoadInv

(* Every step keeps the invariant of the load. *)
LEMMA StepLoaded ==
  ASSUME TypeInv, JobInv, LoadInv, [Next]_vars
  PROVE  LoadInv'
<1>1. CASE Next
  <2>1. section' = section
    BY <1>1, NextTyped DEF WellTyped
  <2> QED
    BY <1>1, <2>1, NextLoaded, LoadStep
<1>2. CASE UNCHANGED vars
  <2>1. section' = section /\ server' = server /\ hist' = hist /\ ui' = ui /\ jobs' = jobs
    BY <1>2 DEF vars
  <2> QED
    BY <2>1, IdleLoaded, LoadStep
<1> QED
  BY <1>1, <1>2

\* Handlers that do not overtake each other save different options, and the one
\* that looks something up is alone; what an answered save saved is what the
\* server has, unless somebody else changed it; and the endpoints are looked up
\* for what is shown.
Apart(s, t) ==
  /\ Does(s, "save") /\ Does(t, "save") => DOMAIN jobs[s].queue \cap DOMAIN jobs[t].queue = {}
  /\ Does(s, "find") => ~Busy(t)
HasSaved(s) == Does(s, "save") /\ jobs[s].phase = "served" /\ jobs[s].ok
Held(s) ==
  HasSaved(s) =>
    \/ server[First(jobs[s].queue)] = jobs[s].queue[First(jobs[s].queue)]
    \/ First(jobs[s].queue) \in hist.foreign
Sees(s) == Does(s, "find") /\ ~InConsole => ui.inputs = jobs[s].data
RaceInv ==
  ~hist.raced =>
    /\ \A s, t \in Slots : s # t => Apart(s, t)
    /\ \A s \in Slots : Held(s) /\ Sees(s)

(* What this says after a step. *)
LEMMA SameApart ==
  ASSUME section' = section
  PROVE  /\ \A s, t : Apart(s, t)' <=>
              /\ jobs'[s].op = "save" /\ jobs'[t].op = "save" =>
                   DOMAIN jobs'[s].queue \cap DOMAIN jobs'[t].queue = {}
              /\ jobs'[s].op = "find" => jobs'[t] = Nobody
         /\ \A s : HasSaved(s)' <=> jobs'[s].op = "save" /\ jobs'[s].phase = "served" /\ jobs'[s].ok
         /\ \A s : Held(s)' <=>
              (jobs'[s].op = "save" /\ jobs'[s].phase = "served" /\ jobs'[s].ok =>
                \/ server'[First(jobs'[s].queue)] = jobs'[s].queue[First(jobs'[s].queue)]
                \/ First(jobs'[s].queue) \in hist'.foreign)
         /\ \A s : Sees(s)' <=> (jobs'[s].op = "find" /\ ~InConsole => ui'.inputs = jobs'[s].data)
<1>1. InConsole' = InConsole
  BY SameSection
<1> QED
  BY <1>1 DEF Apart, Held, HasSaved, Sees, Does, Busy, Nobody, First, Min

(* Handlers that are where they were. *)
LEMMA StandsApart ==
  ASSUME section' = section, server' = server, hist.foreign \subseteq hist'.foreign
  PROVE  /\ \A s, t : jobs'[s] = jobs[s] /\ jobs'[t] = jobs[t] /\ Apart(s, t) => Apart(s, t)'
         /\ \A s : jobs'[s] = jobs[s] /\ Held(s) => Held(s)'
         /\ \A s : jobs'[s] = jobs[s] /\ Sees(s) /\ ui'.inputs = ui.inputs => Sees(s)'
BY SameApart DEF Apart, Held, HasSaved, Sees, Does, Busy

(* Starting a handler that saves. *)
LEMMA AsksApart ==
  ASSUME TypeInv, JobInv, RaceInv, NEW q \in Maps(Values), NEW ks, NEW quit, NEW touched,
         Asks(q, ks, quit, touched), DOMAIN q = {} => ui'.inputs = ui.inputs
  PROVE  RaceInv'
<1> SUFFICES ASSUME ~hist'.raced
             PROVE  /\ \A s, t \in Slots : s # t => Apart(s, t)'
                    /\ \A s \in Slots : Held(s)' /\ Sees(s)'
  BY DEF RaceInv
<1>1. /\ section' = section /\ server' = server /\ hist'.foreign = hist.foreign
      /\ ~hist.raced /\ ~Races(Saver(q))
  BY DEF Asks, Recorded
<1>2. /\ \A s, t \in Slots : s # t => Apart(s, t)
      /\ \A s \in Slots : Held(s) /\ Sees(s)
  BY <1>1 DEF RaceInv
<1>3. CASE DOMAIN q = {}
  <2>1. jobs' = jobs
    BY <1>3 DEF Asks
  <2> QED
    BY <1>1, <1>2, <1>3, <2>1, StandsApart
<1>4. CASE DOMAIN q # {}
  <2>1. PICK n \in Slots : /\ jobs[n] = Nobody /\ jobs'[n] = Saver(q)
                           /\ \A t \in Slots \ {n} : jobs'[t] = jobs[t]
    BY <1>4 DEF Asks, Started
  <2>2. /\ jobs'[n].op = "save" /\ jobs'[n].queue = q /\ jobs'[n].phase = "asked"
    BY <2>1, SaverFacts
  <2>3. \A t \in Slots : Busy(t) => jobs[t].op # "find" /\ DOMAIN jobs[t].queue \cap DOMAIN q = {}
    <3>1. Saver(q).queue = q
      BY SaverFacts
    <3> QED
      BY <1>1, <3>1 DEF Races, InFlight
  <2>4. \A t \in Slots : jobs'[t].op # "find"
    <3>1. \A t \in Slots : jobs[t].op # "find"
      BY <2>3, JobFacts
    <3> QED
      BY <2>1, <2>2, <3>1
  <2>5. \A s \in Slots : Held(s)' /\ Sees(s)'
    <3>1. \A s \in Slots : Sees(s)'
      BY <1>1, <2>4, SameApart
    <3>2. Held(n)'
      BY <1>1, <2>2, SameApart
    <3>3. \A s \in Slots \ {n} : Held(s)'
      BY <1>1, <1>2, <2>1, StandsApart
    <3> QED
      BY <3>1, <3>2, <3>3
  <2>6. ASSUME NEW s \in Slots, NEW t \in Slots, s # t PROVE Apart(s, t)'
    <3>1. CASE s # n /\ t # n
      BY <1>1, <1>2, <2>1, <2>6, <3>1, StandsApart
    <3>2. CASE s = n
      <4>1. jobs'[t] = jobs[t] /\ (jobs[t].op = "save" => DOMAIN jobs[t].queue \cap DOMAIN q = {})
        BY <2>1, <2>3, <2>6, <3>2, JobFacts
      <4> QED
        BY <1>1, <2>2, <3>2, <4>1, SameApart
    <3>3. CASE t = n
      <4>1. jobs'[s] = jobs[s] /\ (jobs[s].op = "save" => DOMAIN jobs[s].queue \cap DOMAIN q = {})
        BY <2>1, <2>3, <2>6, <3>3, JobFacts
      <4> QED
        BY <1>1, <2>2, <2>4, <3>3, <4>1, SameApart
    <3> QED
      BY <3>1, <3>2, <3>3
  <2> QED
    BY <2>5, <2>6
<1> QED
  BY <1>3, <1>4

(* Starting a handler that looks up: it is alone. *)
LEMMA LooksApart ==
  ASSUME TypeInv, JobInv, RaceInv, NEW d \in Maps(Stored), NEW ks, Looks(d, ks),
         ~InConsole => d = ui'.inputs
  PROVE  RaceInv'
<1> SUFFICES ASSUME ~hist'.raced
             PROVE  /\ \A s, t \in Slots : s # t => Apart(s, t)'
                    /\ \A s \in Slots : Held(s)' /\ Sees(s)'
  BY DEF RaceInv
<1>1. section' = section /\ InFlight = {}
  BY DEF Looks
<1>2. PICK n \in Slots : jobs'[n] = Finder(d) /\ \A t \in Slots \ {n} : jobs'[t] = jobs[t]
  BY DEF Looks, Started
<1>3. jobs'[n].op = "find" /\ jobs'[n].data = d
  BY <1>2, FinderFacts
<1>4. \A t \in Slots \ {n} : jobs'[t] = Nobody /\ jobs'[t].op = "none"
  BY <1>1, <1>2, NobodyFacts DEF InFlight, Busy
<1>5. \A s \in Slots : jobs'[s].op # "save" /\ (jobs'[s].op = "find" => s = n)
  BY <1>3, <1>4
<1> QED
  BY <1>1, <1>3, <1>4, <1>5, SameApart

(* A handler that goes on, or ends. *)
LEMMA MovedApart ==
  ASSUME TypeInv, JobInv, RaceInv, section' = section, server' = server,
         hist.foreign \subseteq hist'.foreign, ~hist'.raced => ~hist.raced,
         NEW s \in Slots, NEW q \in Maps(Values), Moved(s, Then(q)), Busy(s),
         Does(s, "find") \/ DOMAIN q = {} \/ (Does(s, "save") /\ DOMAIN q \subseteq DOMAIN jobs[s].queue)
  PROVE  RaceInv'
<1> SUFFICES ASSUME ~hist'.raced
             PROVE  /\ \A r, t \in Slots : r # t => Apart(r, t)'
                    /\ \A t \in Slots : Held(t)' /\ Sees(t)'
  BY DEF RaceInv
<1>1. /\ \A r, t \in Slots : r # t => Apart(r, t)
      /\ \A t \in Slots : Held(t) /\ Sees(t)
  BY DEF RaceInv
<1>2. /\ \A t \in Slots \ {s} : jobs'[t] = jobs[t]
      /\ DOMAIN q = {} => jobs'[s] = Nobody /\ jobs'[s].op = "none"
      /\ DOMAIN q # {} => jobs'[s] = Saver(q) /\ jobs'[s].op = "save" /\ jobs'[s].queue = q
                         /\ jobs'[s].phase = "asked"
  BY MovedThen
<1>3. \A t \in Slots : jobs'[t].op # "find"
  <2>1. \A t \in Slots \ {s} : jobs[t].op # "find"
    BY <1>1 DEF Apart, Does
  <2> QED
    BY <1>2, <2>1
<1>4. \A t \in Slots : Held(t)' /\ Sees(t)'
  <2>1. \A t \in Slots : Sees(t)'
    BY <1>3, SameApart
  <2>2. Held(s)'
    BY <1>2, SameApart
  <2>3. \A t \in Slots \ {s} : Held(t)'
    BY <1>1, <1>2, StandsApart
  <2> QED
    BY <2>1, <2>2, <2>3
<1>5. \A t \in Slots \ {s} : jobs'[s].op = "save" /\ jobs'[t].op = "save" =>
        DOMAIN jobs'[s].queue \cap DOMAIN jobs'[t].queue = {}
  <2> SUFFICES ASSUME NEW t \in Slots \ {s}, jobs'[s].op = "save", jobs'[t].op = "save"
               PROVE  DOMAIN jobs'[s].queue \cap DOMAIN jobs'[t].queue = {}
    OBVIOUS
  <2>1. DOMAIN q # {} /\ jobs'[s].queue = q /\ jobs'[t] = jobs[t]
    BY <1>2
  <2>2. ~Does(s, "find")
    BY <1>1, <2>1, NobodyFacts DEF Apart, Busy
  <2>3. Does(s, "save") /\ DOMAIN q \subseteq DOMAIN jobs[s].queue
    BY <2>1, <2>2
  <2>4. DOMAIN jobs[s].queue \cap DOMAIN jobs[t].queue = {}
    BY <1>1, <2>1, <2>3 DEF Apart, Does
  <2> QED
    BY <2>1, <2>3, <2>4
<1>6. ASSUME NEW r \in Slots, NEW t \in Slots, r # t PROVE Apart(r, t)'
  <2>1. CASE r # s /\ t # s
    BY <1>1, <1>2, <1>6, <2>1, StandsApart
  <2>2. CASE r = s
    BY <1>3, <1>5, <1>6, <2>2, SameApart
  <2>3. CASE t = s
    BY <1>3, <1>5, <1>6, <2>3, SameApart
  <2> QED
    BY <2>1, <2>2, <2>3
<1> QED
  BY <1>4, <1>6

(* A step of the page alone. *)
LEMMA IdleApart ==
  ASSUME TypeInv, JobInv, RaceInv, section' = section, jobs' = jobs, ~hist'.raced => ~hist.raced,
         hist.foreign \subseteq hist'.foreign,
         \A k \in Fields : server'[k] = server[k] \/ k \in hist'.foreign,
         hist'.raced \/ ui'.inputs = ui.inputs \/ \A s \in Slots : ~Does(s, "find")
  PROVE  RaceInv'
<1> SUFFICES ASSUME ~hist'.raced
             PROVE  /\ \A s, t \in Slots : s # t => Apart(s, t)'
                    /\ \A s \in Slots : Held(s)' /\ Sees(s)'
  BY DEF RaceInv
<1>1. /\ \A s, t \in Slots : s # t => Apart(s, t)
      /\ \A s \in Slots : Held(s) /\ Sees(s)
  BY DEF RaceInv
<1>2. \A s, t \in Slots : s # t => Apart(s, t)'
  BY <1>1, SameApart DEF Apart, Does, Busy
<1>3. \A s \in Slots : Sees(s)'
  BY <1>1, SameApart DEF Sees, Does
<1>4. ASSUME NEW s \in Slots PROVE Held(s)'
  <2>1. CASE HasSaved(s)
    <3>1. First(jobs[s].queue) \in Fields
      BY <2>1, AnswerFacts DEF HasSaved
    <3> QED
      BY <1>1, <2>1, <3>1, SameApart DEF Held, HasSaved, Does
  <2>2. CASE ~HasSaved(s)
    BY <2>2, SameApart DEF HasSaved, Does
  <2> QED
    BY <2>1, <2>2
<1> QED
  BY <1>2, <1>3, <1>4

(* The server saves the first option of one handler, which no other saves. *)
LEMMA ServeApart ==
  ASSUME TypeInv, JobInv, RaceInv, NEW s \in Slots, Serve(s)
  PROVE  RaceInv'
<1> SUFFICES ASSUME ~hist'.raced
             PROVE  /\ \A r, t \in Slots : r # t => Apart(r, t)'
                    /\ \A t \in Slots : Held(t)' /\ Sees(t)'
  BY DEF RaceInv
<1> DEFINE q == jobs[s].queue
           f == First(q)
<1>1. /\ section' = section /\ ui' = ui /\ hist'.foreign = hist.foreign /\ hist'.raced = hist.raced
      /\ jobs[s] \in Job /\ jobs[s].phase = "asked" /\ jobs[s].op \in {"save", "load"}
      /\ jobs'[s] \in Job /\ jobs'[s].op = jobs[s].op /\ jobs'[s].queue = q
      /\ server' = IF jobs[s].op = "save" /\ jobs'[s].ok THEN [server EXCEPT ![f] = q[f]] ELSE server
      /\ \A t \in Slots \ {s} : jobs'[t] = jobs[t]
  BY ServeFacts DEF Silent, Noted, Moved
<1>2. /\ \A r, t \in Slots : r # t => Apart(r, t)
      /\ \A t \in Slots : Held(t) /\ Sees(t)
  BY <1>1 DEF RaceInv
<1>3. \A r, t \in Slots : r # t => Apart(r, t)'
  <2>1. Busy(s) /\ jobs'[s] # Nobody
    BY <1>1, NobodyFacts DEF Busy
  <2> QED
    BY <1>1, <1>2, <2>1, SameApart DEF Apart, Does, Busy
<1>4. \A t \in Slots : Sees(t)'
  BY <1>1, <1>2, SameApart DEF Sees, Does
<1>5. CASE jobs[s].op = "save" /\ jobs'[s].ok
  <2>1. f \in DOMAIN q /\ f \in Fields
    BY <1>5, AnswerFacts DEF Does
  <2>2. server' = [server EXCEPT ![f] = q[f]]
    BY <1>1, <1>5
  <2>3. server'[f] = q[f] /\ \A k \in Fields \ {f} : server'[k] = server[k]
    <3> HIDE DEF f, q
    <3> QED
      BY <2>1, <2>2 DEF TypeInv
  <2>4. Held(s)'
    BY <1>1, <2>3, SameApart
  <2>5. ASSUME NEW t \in Slots \ {s} PROVE Held(t)'
    <3>1. CASE HasSaved(t)
      <4>1. First(jobs[t].queue) \in DOMAIN jobs[t].queue /\ First(jobs[t].queue) \in Fields
        BY <3>1, AnswerFacts DEF HasSaved
      <4>2. DOMAIN q \cap DOMAIN jobs[t].queue = {}
        BY <1>2, <1>5, <3>1 DEF Apart, HasSaved, Does
      <4>3. server'[First(jobs[t].queue)] = server[First(jobs[t].queue)]
        BY <2>1, <2>3, <4>1, <4>2
      <4> QED
        BY <1>1, <1>2, <3>1, <4>3, SameApart DEF Held
    <3>2. CASE ~HasSaved(t)
      BY <1>1, <3>2, SameApart DEF HasSaved, Does
    <3> QED
      BY <3>1, <3>2
  <2> QED
    BY <1>3, <1>4, <2>4, <2>5
<1>6. CASE ~(jobs[s].op = "save" /\ jobs'[s].ok)
  <2>1. Held(s)'
    BY <1>1, <1>6, SameApart
  <2>2. \A t \in Slots \ {s} : Held(t)'
    BY <1>1, <1>2, <1>6, SameApart DEF Held, HasSaved, Does
  <2> QED
    BY <1>3, <1>4, <2>1, <2>2
<1> QED
  BY <1>5, <1>6

(* Every step keeps handlers apart. *)
LEMMA NextApart ==
  ASSUME TypeInv, JobInv, RaceInv, Next
  PROVE  RaceInv'
<1>0. section \in Studied /\ ui.inputs \in [Fields -> Values]
  BY DEF TypeInv, UiType
<1>00. Nothing \in Maps(Values) /\ DOMAIN Nothing = {} /\ Then(Nothing) = Nobody
  BY SmallQueues, ThenFacts
<1>1. ASSUME NEW s \in Slots, Serve(s) PROVE RaceInv'
  BY <1>1, ServeApart
<1>2. ASSUME NEW s \in Slots, Lost(s) PROVE RaceInv'
  <2>1. /\ section' = section /\ server' = server /\ Moved(s, Then(Nothing)) /\ Busy(s)
        /\ hist'.foreign = hist.foreign /\ hist'.raced = hist.raced
    BY <1>00, <1>2, LostFacts DEF Noted, Lost
  <2> QED
    BY <1>00, <2>1, MovedApart
<1>3. ASSUME NEW s \in Slots, Loaded(s) PROVE RaceInv'
  <2>1. /\ section' = section /\ server' = server /\ hist' = hist /\ Moved(s, Then(Nothing)) /\ Busy(s)
    BY <1>00, <1>3, LoadedFacts DEF Loaded
  <2> QED
    BY <1>00, <2>1, MovedApart
<1>4. ASSUME NEW k \in Fields, Elsewhere(k) PROVE RaceInv'
  <2>1. /\ section' = section /\ ui' = ui /\ jobs' = jobs
        /\ hist'.foreign = hist.foreign \cup {k} /\ hist'.raced = hist.raced
    BY <1>4, ElsewhereFacts
  <2>2. PICK v \in {"a", "b", "true", "false"} : server' = [server EXCEPT ![k] = v]
    BY <1>4, ElsewhereFacts
  <2>3. \A j \in Fields : server'[j] = server[j] \/ j \in hist'.foreign
    BY <2>1, <2>2 DEF TypeInv
  <2> QED
    BY <2>1, <2>3, IdleApart
<1>5. ASSUME NEW k \in Fields, NEW v \in Texts(k), Enter(k, v) PROVE RaceInv'
  <2>1. CASE Is(k, Typing)
    <3>1. Asks(One(k, v), {k}, {}, {k}) /\ v \in Values /\ ui'.inputs = ui.inputs
      BY <1>5, <2>1, EnterFacts DEF Page
    <3> QED
      BY <3>1, OneFacts, AsksApart
  <2>2. CASE ~Is(k, Typing)
    <3>1. /\ section' = section /\ server' = server /\ jobs' = jobs /\ hist'.foreign = hist.foreign
          /\ hist'.raced <=> hist.raced \/ \E s \in InFlight : Does(s, "find")
      BY <1>5, <2>2, EnterFacts DEF Noted
    <3>2. hist'.raced \/ \A s \in Slots : ~Does(s, "find")
      BY <3>1, JobFacts DEF InFlight, Does
    <3> QED
      BY <3>1, <3>2, IdleApart
  <2> QED
    BY <2>1, <2>2
<1>6. ASSUME NEW k \in Fields, Switch(k) \/ Warned(k) PROVE RaceInv'
  <2> DEFINE v == Flip(ui.inputs[k])
  <2>1. v \in Values /\ ui'.inputs = ui.inputs
    BY <1>6, SwitchFacts, WarnedFacts DEF Page
  <2>2. CASE Asks(One(k, v), {k}, {}, {k})
    BY <2>1, <2>2, OneFacts, AsksApart
  <2>3. CASE /\ section' = section /\ server' = server /\ jobs' = jobs
             /\ hist'.foreign = hist.foreign /\ hist'.raced = hist.raced
    BY <2>1, <2>3, IdleApart
  <2>4. Silent => hist'.foreign = hist.foreign /\ hist'.raced = hist.raced
    BY DEF Silent, Noted
  <2> QED
    BY <1>6, <2>2, <2>3, <2>4, SwitchFacts, WarnedFacts
<1>7. ASSUME Submit PROVE RaceInv'
  <2>1. ui'.inputs = ui.inputs
    BY <1>7, SubmitFacts DEF Page
  <2> QED
    BY <1>7, <2>1, SubmitFacts, AsksApart
<1>8. ASSUME SubmitOidc PROVE RaceInv'
  <2>1. ui' = ui /\ ui.inputs \in Maps(Stored)
    BY <1>8, SubmitOidcFacts
  <2>2. CASE Looks(ui.inputs, ButtonFields)
    BY <2>1, <2>2, LooksApart
  <2>3. CASE Asks(Nothing, ButtonFields, ButtonFields, {})
    BY <1>00, <2>1, <2>3, AsksApart
  <2> QED
    BY <1>8, <2>2, <2>3, SubmitOidcFacts
<1>9. ASSUME NEW s \in Slots, Updated(s) PROVE RaceInv'
  <2> DEFINE r == Rest(jobs[s].queue)
  <2>1. /\ section' = section /\ server' = server /\ Does(s, "save") /\ Moved(s, Then(r))
        /\ hist'.foreign = hist.foreign /\ hist'.raced = hist.raced
    BY <1>9, UpdatedFacts DEF Noted
  <2>2. r \in Maps(Values) /\ DOMAIN r \subseteq DOMAIN jobs[s].queue /\ Busy(s)
    BY <2>1, AnswerFacts, JobFacts DEF Does
  <2> HIDE DEF r
  <2> QED
    BY <2>1, <2>2, MovedApart
<1>10. ASSUME NEW s \in Slots, OidcFound(s) PROVE RaceInv'
  <2>1. PICK i \in [Fields -> Values] : Moved(s, Then(Queue(i)))
    BY <1>10, OidcFoundFacts
  <2>2. Queue(i) \in Maps(Values)
    BY <1>0, QueueFacts
  <2>3. /\ section' = section /\ server' = server /\ Does(s, "find") /\ Busy(s)
        /\ hist'.foreign = hist.foreign /\ hist'.raced = hist.raced
    BY <1>10, OidcFoundFacts DEF Noted, OidcFound
  <2> QED
    BY <2>1, <2>2, <2>3, MovedApart
<1>11. ASSUME NEW k \in Fields, NEW v \in Texts(k), Leave(k, v) PROVE RaceInv'
  <2>1. v \in Values
    BY <1>11, LeaveFacts
  <2>2. CASE Asks(One(k, v), {k}, {}, {k})
    BY <2>1, <2>2, OneFacts, AsksApart
  <2>3. CASE /\ section' = section /\ server' = server /\ jobs' = jobs /\ ui'.inputs = ui.inputs
             /\ hist'.foreign = hist.foreign /\ hist'.raced = hist.raced
    BY <2>3, IdleApart
  <2> QED
    BY <1>11, <2>2, <2>3, LeaveFacts DEF Page, Noted
<1>12. ASSUME NEW k \in Fields, Click(k) PROVE RaceInv'
  <2> DEFINE v == Flip(ui.inputs[k])
  <2>1. v \in Values /\ Asks(One(k, v), {k}, {}, {k})
    BY <1>12, ClickFacts
  <2>2. One(k, v) \in Maps(Values) /\ DOMAIN One(k, v) = {k}
    BY <2>1, OneFacts
  <2> HIDE DEF v
  <2> QED
    BY <2>1, <2>2, AsksApart
<1>13. ASSUME NEW k \in Fields, NEW v \in Texts(k), PickWell(k, v) PROVE RaceInv'
  BY <1>13, PickWellFacts, IdleApart DEF Page, Noted
<1>14. ASSUME NEW k \in Fields, Discover(k) PROVE RaceInv'
  BY <1>14, DiscoverFacts, LooksApart
<1>15. ASSUME NEW s \in Slots, Discovered(s) PROVE RaceInv'
  <2>1. section' = section /\ server' = server /\ Does(s, "find") /\ Busy(s)
    BY <1>15, DiscoveredFacts DEF Discovered
  <2>2. CASE Moved(s, Nobody) /\ Silent
    <3>1. hist'.foreign = hist.foreign /\ hist'.raced = hist.raced
      BY <2>2 DEF Silent, Noted
    <3> QED
      BY <1>00, <2>1, <2>2, <3>1, MovedApart
  <2>3. CASE \E q \in Maps(Values) :
                 /\ DOMAIN q = {2, 3} /\ q[2] \in {"a", "b"}
                 /\ Moved(s, Saver(q))
                 /\ Page([ui.inputs EXCEPT ![2] = q[2]], ui.kept, FALSE, ui.asking)
                 /\ Noted(hist.meant \cup {2, 3}, hist.told, hist.touched \cup {2, 3}, hist.raced,
                          hist.unsaved \ {2, 3})
    <3>1. PICK q \in Maps(Values) :
            /\ DOMAIN q = {2, 3} /\ Moved(s, Saver(q))
            /\ hist'.raced = hist.raced /\ hist'.foreign = hist.foreign
      BY <2>3 DEF Noted
    <3>2. Then(q) = Saver(q)
      BY <3>1, ThenFacts
    <3> QED
      BY <2>1, <3>1, <3>2, MovedApart
  <2> QED
    BY <1>15, <2>2, <2>3, DiscoveredFacts, Zenon
<1>16. ASSUME NEW s \in Slots, Saved(s) PROVE RaceInv'
  <2> DEFINE r == Rest(jobs[s].queue)
  <2>1. /\ section' = section /\ server' = server /\ Does(s, "save") /\ Moved(s, Then(r))
        /\ hist'.foreign = hist.foreign /\ hist'.raced = hist.raced
    BY <1>16, SavedFacts DEF Noted
  <2>2. r \in Maps(Values) /\ DOMAIN r \subseteq DOMAIN jobs[s].queue /\ Busy(s)
    BY <2>1, AnswerFacts, JobFacts DEF Does
  <2> HIDE DEF r
  <2> QED
    BY <2>1, <2>2, MovedApart
<1> QED
  BY <1>1, <1>2, <1>3, <1>4, <1>5, <1>6, <1>7, <1>8, <1>9, <1>10, <1>11, <1>12, <1>13, <1>14, <1>15,
     <1>16, Zenon DEF Next, LegacyNext, ConsoleNext

(* At first no two handlers are under way. *)
LEMMA InitApart == Init => RaceInv
<1> SUFFICES ASSUME Init PROVE RaceInv
  OBVIOUS
<1>1. \A s \in Slots : ~Does(s, "save") /\ ~Does(s, "find")
  BY SmallQueues, NobodyFacts DEF Init, Handler, Does
<1> QED
  BY <1>1 DEF RaceInv, Apart, Held, HasSaved, Sees

(* Every step keeps the handlers apart. *)
LEMMA StepApart ==
  ASSUME TypeInv, JobInv, RaceInv, [Next]_vars
  PROVE  RaceInv'
<1>1. CASE Next
  BY <1>1, NextApart
<1>2. CASE UNCHANGED vars
  <2>1. section' = section /\ server' = server /\ hist' = hist /\ ui' = ui /\ jobs' = jobs
    BY <1>2 DEF vars
  <2> QED
    BY <2>1, IdleApart
<1> QED
  BY <1>1, <1>2

-----------------------------------------------------------------------------
(* The inherited interfaces: what was meant is saved, or said not to be    *)

\* The page has been loaded, nothing was started before that, and no handlers
\* overtook each other.
Fine == ui.loaded /\ ~hist.blind /\ ~hist.raced
Claimed == hist.meant \ (hist.told \cup hist.foreign \cup hist.unsaved)
Match(k) == Display(server[k]) = ui.inputs[k]
Finds == \E s \in Slots : Does(s, "find")
Sent(k) == \E s \in Slots : HasSaved(s) /\ k = First(jobs[s].queue)

\* What root meant to save, and was not told of, is about to be saved, is not
\* sent at all, or shown as the server has it.
Settled(k) == Pends(k) \/ Unsendable(k) \/ Match(k)
\* What is saved with every key is shown as the server has it, or is about to be,
\* or the page is covered for good.
Keyed(k) == ui.inputs[k] = Absent \/ Match(k) \/ (ui.busy /\ Quiet) \/ Sent(k)
LegacyInv ==
  Fine /\ ~InConsole =>
    /\ ~Finds => \A k \in Claimed : Settled(k)
    /\ \A k \in Fields \ hist.foreign : Is(k, Typing) => Keyed(k)

(* What this says after a step. *)
LEMMA SameLegacy ==
  ASSUME section' = section
  PROVE  /\ Fine' <=> ui'.loaded /\ ~hist'.blind /\ ~hist'.raced
         /\ Claimed' = hist'.meant \ (hist'.told \cup hist'.foreign \cup hist'.unsaved)
         /\ \A k : Match(k)' <=> Display(server'[k]) = ui'.inputs[k]
         /\ Finds' <=> \E s \in Slots : jobs'[s].op = "find"
         /\ \A k : Pends(k)' <=> \E s \in Slots : jobs'[s].op = "save" /\ k \in DOMAIN jobs'[s].queue
         /\ \A k : Sent(k)' <=> \E s \in Slots : /\ jobs'[s].op = "save" /\ jobs'[s].phase = "served"
                                                 /\ jobs'[s].ok /\ k = First(jobs'[s].queue)
         /\ Quiet' <=> \A s \in Slots : jobs'[s] = Nobody
         /\ \A k, rules : Is(k, rules)' <=> Is(k, rules)
<1>1. \A k : Match(k)' <=> Display(server'[k]) = ui'.inputs[k]
  BY DEF Match
<1>2. \A k : Pends(k)' <=> \E s \in Slots : jobs'[s].op = "save" /\ k \in DOMAIN jobs'[s].queue
  BY DEF Pends, Does
<1>3. \A k : Sent(k)' <=> \E s \in Slots : /\ jobs'[s].op = "save" /\ jobs'[s].phase = "served"
                                           /\ jobs'[s].ok /\ k = First(jobs'[s].queue)
  BY DEF Sent, HasSaved, Does, First, Min
<1>4. Quiet' <=> \A s \in Slots : jobs'[s] = Nobody
  BY SameBusy DEF Quiet
<1>5. \A k, rules : Is(k, rules)' <=> Is(k, rules)
  BY SameSection DEF Is
<1> QED
  BY <1>1, <1>2, <1>3, <1>4, <1>5 DEF Fine, Claimed, Finds, Does

(* Whether a field is sent rests on what it shows, on what was loaded, and, for
   the list, on the token. *)
LEMMA SameUnsendable ==
  ASSUME section' = section, ~InConsole, ui'.origin = ui.origin, ui'.loaded = ui.loaded, NEW k \in Fields,
         ui'.inputs[k] = ui.inputs[k],
         Is(k, {"gated"}) => \A g \in Fields : Is(g, {"gate"}) => ui'.inputs[g] = ui.inputs[g]
  PROVE  Unsendable(k) => Unsendable(k)'
<1>1. Rules' = Rules /\ Fields' = Fields /\ InConsole' = InConsole
  BY SameSection
<1>2. Sends(k, ui.inputs)' <=> Sends(k, ui.inputs)
  BY <1>1 DEF Sends, Differs, Is, Switches, Blank
<1> QED
  BY <1>1, <1>2 DEF Unsendable, Is, Switches, Absent

(* Starting a handler that saves: what it is started for, is about to be saved, or
   was given up at once, or need not be saved. *)
LEMMA AsksSettled ==
  ASSUME TypeInv, JobInv, LegacyInv, NEW q \in Maps(Values), NEW ks, NEW quit, NEW touched,
         Asks(q, ks, quit, touched),
         ui'.inputs = ui.inputs, ui'.origin = ui.origin, ui'.loaded = ui.loaded,
         ~InConsole /\ Fine =>
           \A k \in ks : k \in DOMAIN q \/ k \in quit \/ k \in hist.foreign \/ Unsendable(k) \/ Match(k),
         \A k \in Fields : Is(k, Typing) => ~ui.busy
  PROVE  LegacyInv'
<1>1. /\ section' = section /\ server' = server /\ hist'.foreign = hist.foreign
      /\ hist'.meant = hist.meant \cup ks /\ hist'.told = (hist.told \ ks) \cup quit
      /\ hist'.unsaved = hist.unsaved \ ks /\ (hist'.blind <=> hist.blind \/ ~ui.loaded)
      /\ hist.raced => hist'.raced
  BY DEF Asks, Recorded
<1>2. InConsole' = InConsole /\ Fields' = Fields
  BY <1>1, SameSection
<1> SUFFICES ASSUME Fine', ~InConsole
             PROVE  /\ ~Finds' => \A k \in Claimed' : Settled(k)'
                    /\ \A k \in Fields \ hist.foreign : Is(k, Typing) => Keyed(k)'
  BY <1>1, <1>2, SameLegacy DEF LegacyInv
<1>3. Fine
  BY <1>1, SameLegacy DEF Fine
<1>4. \A s \in Slots : jobs'[s] = jobs[s] \/ (jobs[s] = Nobody /\ jobs'[s] = Saver(q))
  BY DEF Asks, Started
<1>5. \A s \in Slots : jobs[s] # Nobody => jobs'[s] = jobs[s]
  BY <1>4
<1>6. /\ \A k : Pends(k) => Pends(k)'
      /\ \A k : Sent(k) => Sent(k)'
      /\ Finds => Finds'
  <2>1. \A s \in Slots : jobs[s].op \in {"save", "find"} => jobs'[s] = jobs[s]
    BY <1>5, NobodyFacts
  <2> QED
    BY <1>1, <2>1, SameLegacy DEF Pends, Sent, HasSaved, Finds, Does
<1>7. \A k : k \in DOMAIN q => Pends(k)'
  <2> SUFFICES ASSUME NEW k, k \in DOMAIN q PROVE Pends(k)'
    OBVIOUS
  <2>1. PICK s \in Slots : jobs'[s] = Saver(q)
    BY DEF Asks, Started
  <2>2. jobs'[s].op = "save" /\ jobs'[s].queue = q
    BY <2>1, SaverFacts
  <2> QED
    BY <1>1, <2>2, SameLegacy
<1>8. \A k : Match(k) => Match(k)'
  BY <1>1, SameLegacy DEF Match
<1>9. \A k \in Fields : Unsendable(k) => Unsendable(k)'
  BY <1>1, SameUnsendable
<1>10. ASSUME ~Finds', NEW k \in Claimed' PROVE Settled(k)'
  <2>1. /\ k \in Fields /\ k \in hist.meant \cup ks /\ k \notin quit
        /\ k \notin hist.told \ ks /\ k \notin hist.foreign /\ k \notin hist.unsaved \ ks
    BY <1>1, <1>10, SameLegacy DEF Asks, HistType
  <2>2. CASE k \in ks
    BY <1>3, <1>7, <1>8, <1>9, <2>1, <2>2 DEF Settled
  <2>3. CASE k \notin ks
    <3>1. k \in Claimed /\ ~Finds
      BY <1>6, <1>10, <2>1, <2>3 DEF Claimed
    <3> QED
      BY <1>3, <1>6, <1>8, <1>9, <2>1, <3>1 DEF LegacyInv, Settled
  <2> QED
    BY <2>2, <2>3
<1>11. ASSUME NEW k \in Fields \ hist.foreign, Is(k, Typing) PROVE Keyed(k)'
  <2>1. Keyed(k) /\ ~ui.busy
    BY <1>3, <1>11 DEF LegacyInv
  <2>2. ui.inputs[k] = Absent => ui'.inputs[k] = Absent'
    BY DEF Absent
  <2> QED
    BY <1>6, <1>8, <2>1, <2>2 DEF Keyed
<1> QED
  BY <1>10, <1>11

(* Starting the handler that looks up the endpoints. *)
LEMMA LooksSettled ==
  ASSUME TypeInv, JobInv, LegacyInv, NEW d \in Maps(Stored), NEW ks, Looks(d, ks), Wells # {}
  PROVE  LegacyInv'
<1>1. section' = section /\ section \in Studied
  BY DEF Looks, TypeInv
<1>2. InConsole' = InConsole /\ Fields' = Fields
  BY <1>1, SameSection
<1>3. PICK n \in Slots : jobs'[n] = Finder(d)
  BY DEF Looks, Started
<1>4. jobs'[n].op = "find"
  BY <1>3, FinderFacts
<1>5. Finds'
  BY <1>1, <1>4, SameLegacy
<1>6. ~InConsole => \A k \in Fields : ~Is(k, Typing)
  BY <1>1, FieldFacts DEF Is, Typing
<1>7. ~InConsole => \A k \in Fields : ~Is(k, Typing)'
  BY <1>1, <1>6, SameLegacy
<1> QED
  BY <1>1, <1>2, <1>5, <1>6, SameLegacy DEF LegacyInv

(* A step that starts nothing, and leaves the page as it is. *)
LEMMA IdleSettled ==
  ASSUME TypeInv, JobInv, LegacyInv, section' = section, jobs' = jobs,
         ui'.inputs = ui.inputs, ui'.origin = ui.origin, ui'.loaded = ui.loaded, ui'.busy = ui.busy,
         hist.foreign \subseteq hist'.foreign,
         \A k \in Fields : server'[k] = server[k] \/ k \in hist'.foreign,
         hist'.meant = hist.meant, hist'.told = hist.told,
         hist'.blind = hist.blind, hist'.raced = hist.raced, hist'.unsaved = hist.unsaved
  PROVE  LegacyInv'
<1>1. InConsole' = InConsole /\ Fields' = Fields
  BY SameSection
<1> SUFFICES ASSUME Fine', ~InConsole
             PROVE  /\ ~Finds' => \A k \in Claimed' : Settled(k)'
                    /\ \A k \in Fields \ hist'.foreign : Is(k, Typing) => Keyed(k)'
  BY <1>1, SameLegacy DEF LegacyInv
<1>2. Fine
  BY SameLegacy DEF Fine
<1>3. /\ \A k : Pends(k) => Pends(k)'
      /\ \A k : Sent(k) => Sent(k)'
      /\ Finds => Finds'
      /\ Quiet => Quiet'
  BY SameLegacy DEF Pends, Sent, HasSaved, Finds, Does, Quiet, InFlight, Busy
<1>4. \A k \in Fields \ hist'.foreign : Match(k) => Match(k)'
  BY SameLegacy DEF Match
<1>5. \A k \in Fields : ~InConsole => (Unsendable(k) => Unsendable(k)')
  BY SameUnsendable
<1>6. ASSUME ~Finds', NEW k \in Claimed' PROVE Settled(k)'
  <2>1. k \in Claimed /\ ~Finds /\ k \in Fields \ hist'.foreign
    BY <1>3, <1>6, SameLegacy DEF Claimed, TypeInv, HistType
  <2> QED
    BY <1>2, <1>3, <1>4, <1>5, <2>1 DEF LegacyInv, Settled
<1>7. ASSUME NEW k \in Fields \ hist'.foreign, Is(k, Typing) PROVE Keyed(k)'
  <2>1. Keyed(k)
    BY <1>2, <1>7 DEF LegacyInv
  <2>2. ui.inputs[k] = Absent => ui'.inputs[k] = Absent'
    BY DEF Absent
  <2> QED
    BY <1>3, <1>4, <1>7, <2>1, <2>2 DEF Keyed
<1> QED
  BY <1>6, <1>7

(* The server saves an option that is still about to be shown. *)
LEMMA ServeSettled ==
  ASSUME TypeInv, JobInv, LegacyInv, NEW s \in Slots, Serve(s)
  PROVE  LegacyInv'
<1> DEFINE q == jobs[s].queue
<1>0. PICK f : f = First(q)
  OBVIOUS
<1>1. /\ section' = section /\ ui' = ui
      /\ hist'.meant = hist.meant /\ hist'.told = hist.told /\ hist'.foreign = hist.foreign
      /\ hist'.blind = hist.blind /\ hist'.raced = hist.raced /\ hist'.unsaved = hist.unsaved
      /\ jobs[s] \in Job /\ jobs[s].phase = "asked" /\ jobs[s].op \in {"save", "load"}
      /\ jobs'[s].op = jobs[s].op /\ jobs'[s].queue = q /\ jobs'[s].phase = "served"
      /\ server' = IF jobs[s].op = "save" /\ jobs'[s].ok THEN [server EXCEPT ![f] = q[f]] ELSE server
      /\ \A t \in Slots \ {s} : jobs'[t] = jobs[t]
  BY <1>0, ServeFacts DEF Silent, Noted, Moved
<1>2. InConsole' = InConsole /\ Fields' = Fields
  BY <1>1, SameSection
<1> SUFFICES ASSUME Fine', ~InConsole
             PROVE  /\ ~Finds' => \A k \in Claimed' : Settled(k)'
                    /\ \A k \in Fields \ hist.foreign : Is(k, Typing) => Keyed(k)'
  BY <1>1, <1>2, SameLegacy DEF LegacyInv
<1>3. Fine
  BY <1>1, SameLegacy DEF Fine
<1>4. /\ \A k : Pends(k) => Pends(k)'
      /\ \A k : Sent(k) => Sent(k)'
      /\ Finds => Finds'
      /\ ~Quiet
  <2>1. jobs[s] # Nobody
    BY <1>1, NobodyFacts
  <2>2. Finds => Finds'
    BY <1>1, SameLegacy DEF Finds, Does
  <2>3. \A k : Pends(k) => Pends(k)'
    BY <1>1, SameLegacy DEF Pends, Does
  <2>4. \A k : Sent(k) => Sent(k)'
    BY <1>1, SameLegacy DEF Sent, HasSaved, Does
  <2> QED
    BY <2>1, <2>2, <2>3, <2>4 DEF Quiet, InFlight, Busy
<1>5. \A k \in Fields : server'[k] = server[k] \/ (Pends(k)' /\ Sent(k)')
  <2>1. CASE jobs[s].op = "save" /\ jobs'[s].ok
    <3>1. f \in DOMAIN q /\ f \in Fields
      BY <1>0, <2>1, AnswerFacts DEF Does
    <3>2. server' = [server EXCEPT ![f] = q[f]]
      BY <1>1, <2>1
    <3>3. Pends(f)' /\ Sent(f)'
      BY <1>0, <1>1, <2>1, <3>1, SameLegacy
    <3> HIDE DEF q
    <3>4. \A k \in Fields \ {f} : server'[k] = server[k]
      BY <3>1, <3>2 DEF TypeInv
    <3> QED
      BY <3>3, <3>4
  <2>2. CASE ~(jobs[s].op = "save" /\ jobs'[s].ok)
    BY <1>1, <2>2
  <2> QED
    BY <2>1, <2>2
<1>6. \A k \in Fields : Unsendable(k) => Unsendable(k)'
  BY <1>1, SameUnsendable
<1>7. \A k \in Fields : Match(k) => Match(k)' \/ (Pends(k)' /\ Sent(k)')
  BY <1>1, <1>5, SameLegacy DEF Match
<1>8. ASSUME ~Finds', NEW k \in Claimed' PROVE Settled(k)'
  <2>1. k \in Claimed /\ ~Finds /\ k \in Fields
    BY <1>1, <1>4, <1>8, SameLegacy DEF Claimed, TypeInv, HistType
  <2> QED
    BY <1>3, <1>4, <1>6, <1>7, <2>1 DEF LegacyInv, Settled
<1>9. ASSUME NEW k \in Fields \ hist.foreign, Is(k, Typing) PROVE Keyed(k)'
  <2>1. Keyed(k)
    BY <1>3, <1>9 DEF LegacyInv
  <2>2. ui.inputs[k] = Absent => ui'.inputs[k] = Absent'
    BY <1>1 DEF Absent
  <2> QED
    BY <1>4, <1>7, <2>1, <2>2 DEF Keyed
<1> QED
  BY <1>8, <1>9

(* A lost call: root is told of everything that was to be saved. *)
LEMMA LostSettled ==
  ASSUME TypeInv, JobInv, LoadInv, LegacyInv, NEW s \in Slots, Lost(s)
  PROVE  LegacyInv'
<1> DEFINE K == DOMAIN jobs[s].queue
<1>1. /\ section' = section /\ ui' = ui /\ server' = server
      /\ hist'.meant = hist.meant /\ hist'.foreign = hist.foreign
      /\ ~InConsole => hist'.told = hist.told \cup K /\ hist'.unsaved = hist.unsaved
      /\ hist'.blind = hist.blind /\ hist'.raced = hist.raced
      /\ jobs[s].op \in {"save", "load"} /\ jobs'[s] = Nobody
      /\ \A t \in Slots \ {s} : jobs'[t] = jobs[t]
  BY LostFacts DEF Noted, Moved
<1>2. InConsole' = InConsole /\ Fields' = Fields
  BY <1>1, SameSection
<1> SUFFICES ASSUME Fine', ~InConsole
             PROVE  /\ ~Finds' => \A k \in Claimed' : Settled(k)'
                    /\ \A k \in Fields \ hist.foreign : Is(k, Typing) => Keyed(k)'
  BY <1>1, <1>2, SameLegacy DEF LegacyInv
<1>3. Fine
  BY <1>1, SameLegacy DEF Fine
<1> HIDE DEF K
<1>4. Finds => Finds'
  BY <1>1, SameLegacy DEF Finds, Does
<1>5. \A k : k \notin K => (Pends(k) => Pends(k)')
  BY <1>1, SameLegacy DEF Pends, Does, K
<1>6. \A k \in Fields : Unsendable(k) => Unsendable(k)'
  BY <1>1, SameUnsendable
<1>7. \A k : Match(k) => Match(k)'
  BY <1>1, SameLegacy DEF Match
<1>8. ASSUME ~Finds', NEW k \in Claimed' PROVE Settled(k)'
  <2>1. k \in Claimed /\ ~Finds /\ k \in Fields /\ k \notin K
    BY <1>1, <1>4, <1>8, SameLegacy DEF Claimed, TypeInv, HistType
  <2> QED
    BY <1>3, <1>5, <1>6, <1>7, <2>1 DEF LegacyInv, Settled
<1>9. ASSUME NEW k \in Fields \ hist.foreign, Is(k, Typing) PROVE Keyed(k)'
  <2>1. Covered
    BY <1>9, FieldFacts DEF Is, TypeInv
  <2>2. Busy(s)
    BY DEF Lost
  <2>3. ui.busy /\ \A t \in Slots : Busy(t) => t = s
    BY <1>3, <2>1, <2>2 DEF LoadInv, Fine, Alone, InFlight
  <2>4. \A t \in Slots : jobs'[t] = Nobody
    BY <1>1, <2>3 DEF Busy
  <2>5. Quiet'
    BY <1>1, <2>4, SameLegacy
  <2> QED
    BY <1>1, <2>3, <2>5 DEF Keyed
<1> QED
  BY <1>8, <1>9

(* What was loaded is shown as the server has it, secrets apart. *)
LEMMA LoadedSettled ==
  ASSUME TypeInv, JobInv, LoadInv, NEW s \in Slots, Loaded(s)
  PROVE  LegacyInv'
<1>1. /\ section' = section /\ server' = server /\ hist' = hist /\ Does(s, "load")
      /\ jobs[s].phase = "served"
      /\ \A k \in Fields :
              ui'.inputs[k] = IF Is(k, Secrets) THEN Absent ELSE Display(jobs[s].data[k])
  BY LoadedFacts
<1>2. InConsole' = InConsole /\ Fields' = Fields
  BY <1>1, SameSection
<1> SUFFICES ASSUME Fine', ~InConsole
             PROVE  /\ ~Finds' => \A k \in Claimed' : Settled(k)'
                    /\ \A k \in Fields \ hist.foreign : Is(k, Typing) => Keyed(k)'
  BY <1>1, <1>2, SameLegacy DEF LegacyInv
<1>3. ~ui.loaded /\ ~hist.blind
  BY <1>1, SameLegacy DEF JobInv
<1>4. Claimed' = {}
  BY <1>1, <1>3, SameLegacy DEF LoadInv
<1>5. ASSUME NEW k \in Fields \ hist.foreign PROVE Keyed(k)'
  <2>1. CASE Is(k, Secrets)
    <3>1. ui'.inputs[k] = Absent'
      BY <1>1, <2>1 DEF Absent
    <3> QED
      BY <3>1 DEF Keyed
  <2>2. CASE ~Is(k, Secrets)
    <3>1. jobs[s].data[k] = server[k]
      BY <1>1, <1>3 DEF LoadInv
    <3>2. Match(k)'
      BY <1>1, <2>2, <3>1, SameLegacy
    <3> QED
      BY <3>2 DEF Keyed
  <2> QED
    BY <2>1, <2>2
<1> QED
  BY <1>4, <1>5

(* An answer: what was saved is shown as the server has it, what was refused is
   said to be. *)
LEMMA UpdatedSettled ==
  ASSUME TypeInv, JobInv, RaceInv, LegacyInv, NEW s \in Slots, Updated(s)
  PROVE  LegacyInv'
<1> DEFINE q == jobs[s].queue
           r == Rest(q)
<1>0. PICK f : f = First(q)
  OBVIOUS
<1>1. /\ section' = section /\ server' = server
      /\ ~InConsole /\ Does(s, "save") /\ jobs[s].phase = "served" /\ jobs[s] \in Job
      /\ ui'.inputs = IF jobs[s].ok THEN [ui.inputs EXCEPT ![f] = q[f]] ELSE ui.inputs
      /\ ui'.origin = ui.origin /\ ui'.loaded = ui.loaded
      /\ hist'.meant = hist.meant /\ hist'.foreign = hist.foreign
      /\ hist'.told = (IF jobs[s].ok THEN hist.told ELSE hist.told \cup {f})
      /\ hist'.blind = hist.blind /\ hist'.raced = hist.raced /\ hist'.unsaved = hist.unsaved
      /\ Moved(s, Then(r))
  BY <1>0, UpdatedFacts, Zenon DEF Page, Noted
<1>2. InConsole' = InConsole /\ Fields' = Fields
  BY <1>1, SameSection
<1> SUFFICES ASSUME Fine', ~InConsole
             PROVE  /\ ~Finds' => \A k \in Claimed' : Settled(k)'
                    /\ \A k \in Fields \ hist.foreign : Is(k, Typing) => Keyed(k)'
  BY <1>1, <1>2, SameLegacy DEF LegacyInv
<1>3. Fine
  BY <1>1, SameLegacy DEF Fine
<1>4. /\ q \in Maps(Values) /\ f \in DOMAIN q /\ f \in Fields /\ q[f] \in Values
      /\ r \in Maps(Values) /\ DOMAIN r = DOMAIN q \ {f} /\ \A k \in DOMAIN r : r[k] = q[k]
  BY <1>0, <1>1, AnswerFacts, Zenon
<1>5. jobs[s].ok => server[f] = q[f] \/ f \in hist.foreign
  BY <1>0, <1>1, <1>3 DEF RaceInv, Held, HasSaved, Fine
<1>6. ~Is(f, {"gate"})
  BY <1>1, <1>4 DEF JobInv
<1>8. ui.inputs \in [Fields -> Values]
  BY DEF TypeInv, UiType
<1>9. /\ \A t \in Slots \ {s} : jobs'[t] = jobs[t]
      /\ DOMAIN r = {} => jobs'[s] = Nobody /\ jobs'[s].op = "none"
      /\ DOMAIN r # {} => jobs'[s].op = "save" /\ jobs'[s].queue = r /\ jobs'[s].phase = "asked"
  BY <1>1, <1>4, MovedThen
<1>10. \A k : k # f => (Pends(k) => Pends(k)') /\ (Sent(k) => Sent(k)')
  <2> SUFFICES ASSUME NEW k, k # f PROVE (Pends(k) => Pends(k)') /\ (Sent(k) => Sent(k)')
    OBVIOUS
  <2>1. Pends(k) => Pends(k)'
    <3> SUFFICES ASSUME Pends(k) PROVE Pends(k)'
      OBVIOUS
    <3>1. PICK t \in Slots : Does(t, "save") /\ k \in DOMAIN jobs[t].queue
      BY DEF Pends
    <3>2. CASE t = s
      <4>1. k \in DOMAIN r
        BY <1>4, <3>1, <3>2
      <4> QED
        BY <1>1, <1>9, <4>1, SameLegacy
    <3>3. CASE t # s
      BY <1>1, <1>9, <3>1, <3>3, SameLegacy DEF Does
    <3> QED
      BY <3>2, <3>3
  <2>2. Sent(k) => Sent(k)'
    BY <1>0, <1>1, <1>9, SameLegacy DEF Sent, HasSaved, Does
  <2> QED
    BY <2>1, <2>2
<1>11. ~jobs[s].ok => (Sent(f) => Sent(f)')
  BY <1>1, <1>9, SameLegacy DEF Sent, HasSaved, Does
<1>12. Finds => Finds'
  BY <1>1, <1>9, SameLegacy DEF Finds, Does
<1>13. /\ \A k \in Fields \ {f} : ui'.inputs[k] = ui.inputs[k]
       /\ jobs[s].ok => ui'.inputs[f] = q[f]
       /\ ~jobs[s].ok => ui'.inputs = ui.inputs
  <2> HIDE DEF q
  <2> QED
    BY <1>1, <1>4, <1>8
<1>14. ASSUME jobs[s].ok, f \notin hist.foreign PROVE Match(f)'
  <2>1. server'[f] = q[f] /\ ui'.inputs[f] = q[f]
    BY <1>1, <1>5, <1>13, <1>14
  <2>2. Display(q[f]) = q[f]
    BY <1>4, ValueFacts
  <2> QED
    BY <1>1, <2>1, <2>2, SameLegacy
<1>15. \A k \in Fields \ {f} : (Unsendable(k) => Unsendable(k)') /\ (Match(k) => Match(k)')
  <2>1. \A k \in Fields \ {f} : Unsendable(k) => Unsendable(k)'
    BY <1>1, <1>6, <1>13, SameUnsendable
  <2>2. \A k \in Fields \ {f} : Match(k) => Match(k)'
    BY <1>1, <1>13, SameLegacy DEF Match
  <2> QED
    BY <2>1, <2>2
<1>16. ~Quiet
  BY <1>1, JobFacts DEF Quiet, InFlight, Does
<1> HIDE DEF q, r
<1>17. ASSUME ~Finds', NEW k \in Claimed' PROVE Settled(k)'
  <2>1. k \in Claimed /\ ~Finds /\ k \in Fields /\ (k = f => jobs[s].ok) /\ k \notin hist.foreign
    BY <1>1, <1>12, <1>17, SameLegacy DEF Claimed, TypeInv, HistType
  <2>2. CASE k = f
    <3>1. Match(k)'
      BY <1>14, <2>1, <2>2
    <3> QED
      BY <3>1 DEF Settled
  <2>3. CASE k # f
    BY <1>3, <1>10, <1>15, <2>1, <2>3 DEF LegacyInv, Settled
  <2> QED
    BY <2>2, <2>3
<1>18. ASSUME NEW k \in Fields \ hist.foreign, Is(k, Typing) PROVE Keyed(k)'
  <2>1. Keyed(k)
    BY <1>3, <1>18 DEF LegacyInv
  <2>2. ui.inputs[k] = Absent /\ (k # f \/ ~jobs[s].ok) => ui'.inputs[k] = Absent'
    BY <1>13 DEF Absent
  <2>3. CASE k = f /\ jobs[s].ok
    <3>1. Match(k)'
      BY <1>14, <1>18, <2>3
    <3> QED
      BY <3>1 DEF Keyed
  <2>4. CASE k = f /\ ~jobs[s].ok
    <3>1. Match(k) => Match(k)'
      BY <1>1, <1>13, <2>4, SameLegacy DEF Match
    <3> QED
      BY <1>11, <1>16, <2>1, <2>2, <2>4, <3>1 DEF Keyed
  <2>5. CASE k # f
    BY <1>10, <1>15, <1>16, <2>1, <2>2, <2>5 DEF Keyed
  <2> QED
    BY <2>3, <2>4, <2>5
<1> QED
  BY <1>17, <1>18

(* What was found is saved with the rest: nothing there has to be JSON. *)
LEMMA OidcFoundSettled ==
  ASSUME TypeInv, JobInv, RaceInv, LegacyInv, NEW s \in Slots, OidcFound(s)
  PROVE  LegacyInv'
<1>1. /\ section' = section /\ server' = server
      /\ ~InConsole /\ Does(s, "find") /\ Wells # {}
      /\ hist'.meant = hist.meant /\ hist'.foreign = hist.foreign /\ hist'.told = hist.told
      /\ hist'.blind = hist.blind /\ hist'.raced = hist.raced /\ hist'.unsaved = hist.unsaved
  BY OidcFoundFacts DEF Noted
<1>2. PICK i \in [Fields -> Values] :
        /\ Page(IF ui.inputs = jobs[s].data THEN i ELSE ui.inputs, ui.kept,
                ui.busy \/ DOMAIN Queue(i) # {}, ui.asking)
        /\ Moved(s, Then(Queue(i)))
  BY OidcFoundFacts, Zenon
<1>3. InConsole' = InConsole /\ Fields' = Fields /\ section \in Studied
  BY <1>1, SameSection DEF TypeInv
<1>4. \A k \in Fields : Rules[k] \in {"well", "secret", "found"}
  BY <1>1, <1>3, FieldFacts
<1>5. \A k \in Fields : ~Is(k, Switches \cup Typing) /\ ~Is(k, Typing) /\ ~Is(k, {"checked"})
  BY <1>4 DEF Is, Switches, Typing
<1> SUFFICES ASSUME Fine' PROVE \A k \in Claimed' : Settled(k)'
  BY <1>1, <1>3, <1>5, SameLegacy DEF LegacyInv
<1>6. ui.inputs = jobs[s].data
  BY <1>1, SameLegacy DEF RaceInv, Sees
<1>7. ui'.inputs = i /\ ui'.origin = ui.origin /\ ui'.loaded = ui.loaded
  BY <1>2, <1>6 DEF Page
<1>8. \A k \in Fields : Before(k, i)
  <2>1. \A k \in Fields : 1..k \subseteq Fields
    <3>1. Fields = DOMAIN Rules /\ \E n \in Nat : Fields = 1..n
      BY <1>1, <1>3, SectionSorts DEF Fields, CoveredRules, OpenRules, Short
    <3> QED
      BY <3>1
  <2>2. \A k \in Fields : ~Stops(k, i)
    BY <1>5 DEF Stops
  <2> QED
    BY <2>1, <2>2 DEF Before
<1>9. Queue(i) \in Maps(Values) /\ \A k \in Fields : Sends(k, i) => k \in DOMAIN Queue(i)
  BY <1>3, <1>8, QueueFacts
<1> DEFINE q == Queue(i)
<1> HIDE DEF q
<1>10. Moved(s, Then(q)) /\ q \in Maps(Values) /\ \A k \in Fields : Sends(k, i) => k \in DOMAIN q
  BY <1>2, <1>9 DEF q
<1>11. DOMAIN q # {} => jobs'[s].op = "save" /\ jobs'[s].queue = q
  BY <1>10, MovedThen
<1>12. \A k \in Fields : Sends(k, i) => Pends(k)'
  BY <1>1, <1>10, <1>11, SameLegacy
<1>13. \A k \in Fields : ~Sends(k, i) => Unsendable(k)'
  <2> SUFFICES ASSUME NEW k \in Fields, ~Sends(k, i) PROVE Unsendable(k)'
    OBVIOUS
  <2>1. Rules' = Rules
    BY <1>1, SameSection
  <2>2. Sends(k, ui.inputs)' <=> Sends(k, i)
    BY <1>3, <1>7, <2>1 DEF Sends, Differs, Is, Switches, Blank
  <2>3. ~Is(k, Switches \cup {"typed", "spelled"})'
    BY <1>5, <2>1 DEF Is, Switches, Typing
  <2> QED
    BY <1>1, <1>3, <2>2, <2>3 DEF Unsendable
<1>14. \A k \in Claimed' : k \in Fields
  BY <1>1, SameLegacy DEF TypeInv, HistType
<1> QED
  BY <1>12, <1>13, <1>14 DEF Settled

(* What is entered is not meant to be saved as it was shown before, nor is the list
   when it is the token that is entered. *)
LEMMA EnterSettled ==
  ASSUME TypeInv, JobInv, LegacyInv, NEW k \in Fields, NEW v \in Texts(k), Enter(k, v), ~Is(k, Typing)
  PROVE  LegacyInv'
<1>1. /\ Legacy /\ section' = section /\ server' = server /\ jobs' = jobs
      /\ ui'.inputs = IF Is(k, {"stuck"}) THEN ui.inputs ELSE [ui.inputs EXCEPT ![k] = v]
      /\ ui'.origin = ui.origin /\ ui'.loaded = ui.loaded
      /\ hist'.meant = hist.meant \ Affects(k) /\ hist'.foreign = hist.foreign /\ hist'.told = hist.told
      /\ hist'.blind = hist.blind /\ hist'.unsaved = hist.unsaved /\ (hist.raced => hist'.raced)
  <2>1. /\ Page(IF Is(k, {"stuck"}) THEN ui.inputs ELSE [ui.inputs EXCEPT ![k] = v],
                IF Is(k, {"stuck"}) THEN [ui.kept EXCEPT ![k] = v] ELSE ui.kept, ui.busy, ui.asking)
        /\ Noted(hist.meant \ Affects(k), hist.told, hist.touched \cup {k}, hist'.raced, hist.unsaved)
        /\ Legacy /\ section' = section /\ server' = server /\ jobs' = jobs
        /\ (hist'.raced <=> hist.raced \/ \E s \in InFlight : Does(s, "find"))
    BY EnterFacts
  <2> QED
    BY <2>1, Zenon DEF Page, Noted
<1>2. InConsole' = InConsole /\ Fields' = Fields /\ section \in Studied /\ ~InConsole
  BY <1>1, SameSection DEF TypeInv, Legacy
<1>3. \A j \in Fields : ~Is(j, Typing)
  BY <1>2, FieldFacts DEF Is, Typing
<1> SUFFICES ASSUME Fine', ~Finds', NEW j \in Claimed' PROVE Settled(j)'
  BY <1>1, <1>2, <1>3, SameLegacy DEF LegacyInv
<1>4. Fine /\ ~Finds /\ j \in Claimed /\ j \in Fields /\ j \notin Affects(k)
  BY <1>1, SameLegacy DEF Fine, Finds, Does, Claimed, TypeInv, HistType
<1>5. j # k /\ ~(Is(k, {"gate"}) /\ Is(j, {"gated"}))
  BY <1>4 DEF Affects
<1>6. \A g \in Fields \ {k} : ui'.inputs[g] = ui.inputs[g]
  <2>1. ui.inputs \in [Fields -> Values]
    BY DEF TypeInv, UiType
  <2> QED
    BY <1>1, <2>1
<1>7. Unsendable(j) => Unsendable(j)'
  <2>1. Is(j, {"gated"}) => \A g \in Fields : Is(g, {"gate"}) => ui'.inputs[g] = ui.inputs[g]
    BY <1>5, <1>6
  <2> QED
    BY <1>1, <1>2, <1>4, <1>5, <1>6, <2>1, SameUnsendable
<1>8. (Match(j) => Match(j)') /\ (Pends(j) => Pends(j)')
  BY <1>1, <1>4, <1>5, <1>6, SameLegacy DEF Match, Pends, Does
<1> QED
  BY <1>2, <1>4, <1>7, <1>8 DEF LegacyInv, Settled

(* What a button does not send needs no saving, or root is told. *)
LEMMA SubmitSettled ==
  ASSUME TypeInv, JobInv, LoadInv, LegacyInv, Submit
  PROVE  LegacyInv'
<1> DEFINE q == Queue(ui.inputs)
           quit == {k \in ButtonFields : ~Before(k, ui.inputs)}
<1>1. /\ Legacy /\ q \in Maps(Values) /\ Asks(q, ButtonFields, quit, {})
      /\ ui'.inputs = ui.inputs /\ ui'.origin = ui.origin /\ ui'.loaded = ui.loaded
  BY SubmitFacts DEF Page
<1>2. ~InConsole /\ (Covered => ~ui.busy) /\ section \in Studied /\ ui.inputs \in [Fields -> Values]
  BY <1>1 DEF Legacy, TypeInv, UiType
<1>3. \A k \in Fields : Is(k, Typing) => ~ui.busy /\ Covered
  BY <1>2, FieldFacts DEF Is, Typing
<1>4. ASSUME Fine, NEW k \in ButtonFields
      PROVE  k \in DOMAIN q \/ k \in quit \/ k \in hist.foreign \/ Unsendable(k) \/ Match(k)
  <2>1. k \in Fields /\ ~Is(k, Switches)
    BY DEF ButtonFields, Is
  <2>2. CASE ~Before(k, ui.inputs)
    BY <2>2
  <2>3. CASE Before(k, ui.inputs) /\ Sends(k, ui.inputs)
    BY <1>2, <2>1, <2>3, QueueFacts
  <2>4. CASE ~Sends(k, ui.inputs) /\ ~Is(k, Typing)
    BY <1>2, <2>1, <2>4 DEF Unsendable, Is, Switches, Typing
  <2>5. CASE Is(k, Typing)
    <3>1. ~ui.busy /\ Covered
      BY <1>3, <2>1, <2>5
    <3>2. InFlight = {}
      BY <1>4, <3>1 DEF LoadInv, Fine, Alone
    <3>3. ~Sent(k)
      BY <3>2, JobFacts DEF Sent, HasSaved, Does, InFlight
    <3>4. k \notin hist.foreign => Keyed(k)
      BY <1>2, <1>4, <2>1, <2>5 DEF LegacyInv
    <3> QED
      BY <1>2, <3>1, <3>3, <3>4 DEF Keyed, Unsendable
  <2> QED
    BY <2>2, <2>3, <2>4, <2>5
<1> HIDE DEF q, quit
<1> QED
  BY <1>1, <1>3, <1>4, AsksSettled

(* Saving one field, which may be saved with every key only if nothing is being
   saved yet. *)
LEMMA OneSettled ==
  ASSUME TypeInv, JobInv, LegacyInv, NEW k \in Fields, NEW v \in Values, Asks(One(k, v), {k}, {}, {k}),
         ui'.inputs = ui.inputs, ui'.origin = ui.origin, ui'.loaded = ui.loaded,
         Is(k, Typing) => ~ui.busy
  PROVE  LegacyInv'
<1>1. One(k, v) \in Maps(Values) /\ DOMAIN One(k, v) = {k}
  BY OneFacts
<1>2. \A j \in Fields : Is(j, Typing) => ~ui.busy
  BY FieldFacts DEF Is, TypeInv
<1> QED
  BY <1>1, <1>2, AsksSettled

(* Every step of the inherited interfaces keeps what was meant to be saved
   settled. *)
LEMMA NextSettled ==
  ASSUME TypeInv, JobInv, LoadInv, RaceInv, LegacyInv, Next
  PROVE  LegacyInv'
<1>0. section \in Studied
  BY DEF TypeInv
<1>1. section' = section
  BY NextTyped DEF WellTyped
<1>2. InConsole' = InConsole
  BY <1>1, SameSection
<1>3. CASE InConsole
  BY <1>2, <1>3 DEF LegacyInv
<1>4. ASSUME NEW s \in Slots, Serve(s) \/ Lost(s) \/ Loaded(s) PROVE LegacyInv'
  BY <1>4, ServeSettled, LostSettled, LoadedSettled
<1>5. ASSUME NEW k \in Fields, Elsewhere(k) PROVE LegacyInv'
  <2>1. /\ ui' = ui /\ jobs' = jobs /\ hist'.foreign = hist.foreign \cup {k}
        /\ hist'.meant = hist.meant /\ hist'.told = hist.told
        /\ hist'.blind = hist.blind /\ hist'.raced = hist.raced /\ hist'.unsaved = hist.unsaved
    BY <1>5, ElsewhereFacts
  <2>2. PICK v \in {"a", "b", "true", "false"} : server' = [server EXCEPT ![k] = v]
    BY <1>5, ElsewhereFacts
  <2>3. \A j \in Fields : server'[j] = server[j] \/ j \in hist'.foreign
    BY <2>1, <2>2 DEF TypeInv
  <2> QED
    BY <1>1, <2>1, <2>3, IdleSettled
<1>6. ASSUME NEW k \in Fields, NEW v \in Texts(k), Enter(k, v) PROVE LegacyInv'
  <2>1. CASE Is(k, Typing)
    <3>1. /\ Legacy /\ v \in Values /\ Asks(One(k, v), {k}, {}, {k})
          /\ ui'.inputs = ui.inputs /\ ui'.origin = ui.origin /\ ui'.loaded = ui.loaded
      BY <1>6, <2>1, EnterFacts DEF Page
    <3>2. ~ui.busy
      BY <1>0, <2>1, <3>1, FieldFacts DEF Legacy, Is
    <3> QED
      BY <3>1, <3>2, OneSettled
  <2>2. CASE ~Is(k, Typing)
    BY <1>6, <2>2, EnterSettled
  <2> QED
    BY <2>1, <2>2
<1>7. ASSUME NEW k \in Fields, Switch(k) \/ Warned(k) PROVE LegacyInv'
  <2>1. PICK v : v = Flip(ui.inputs[k])
    OBVIOUS
  <2>2. /\ v \in Values /\ Is(k, {"switch", "guarded"})
        /\ ui'.inputs = ui.inputs /\ ui'.origin = ui.origin /\ ui'.loaded = ui.loaded
    BY <1>7, <2>1, SwitchFacts, WarnedFacts DEF Page, Is
  <2>3. ~Is(k, Typing)
    BY <2>2 DEF Is, Typing
  <2>4. CASE Asks(One(k, v), {k}, {}, {k})
    BY <2>2, <2>3, <2>4, OneSettled
  <2>5. CASE /\ server' = server /\ jobs' = jobs /\ ui'.busy = ui.busy
             /\ Silent \/ hist' = hist
    <3>1. /\ hist'.meant = hist.meant /\ hist'.told = hist.told /\ hist'.foreign = hist.foreign
          /\ hist'.blind = hist.blind /\ hist'.raced = hist.raced /\ hist'.unsaved = hist.unsaved
      BY <2>5 DEF Silent, Noted
    <3> QED
      BY <1>1, <2>2, <2>5, <3>1, IdleSettled
  <2> QED
    BY <1>7, <2>1, <2>4, <2>5, SwitchFacts, WarnedFacts DEF Page
<1>8. ASSUME Submit PROVE LegacyInv'
  BY <1>8, SubmitSettled
<1>9. ASSUME SubmitOidc PROVE LegacyInv'
  <2>1. Legacy /\ Wells # {} /\ ui' = ui /\ ui.inputs \in Maps(Stored)
    BY <1>9, SubmitOidcFacts
  <2>2. CASE Looks(ui.inputs, ButtonFields)
    BY <2>1, <2>2, LooksSettled
  <2>3. CASE Asks(Nothing, ButtonFields, ButtonFields, {})
    <3>1. Nothing \in Maps(Values)
      BY SmallQueues
    <3>2. \A k \in Fields : ~Is(k, Typing)
      BY <1>0, <2>1, FieldFacts DEF Legacy, Is, Typing
    <3> QED
      BY <2>1, <2>3, <3>1, <3>2, AsksSettled
  <2> QED
    BY <1>9, <2>2, <2>3, SubmitOidcFacts
<1>10. ASSUME NEW s \in Slots, Updated(s) \/ OidcFound(s) PROVE LegacyInv'
  BY <1>10, UpdatedSettled, OidcFoundSettled
<1>11. ASSUME ConsoleNext PROVE InConsole
  BY <1>11 DEF ConsoleNext, Leave, PickWell, Click, Discover, Discovered, Saved
<1> QED
  BY <1>3, <1>4, <1>5, <1>6, <1>7, <1>8, <1>9, <1>10, <1>11, Zenon DEF Next, LegacyNext

(* It is so at first, before the page is loaded. *)
LEMMA InitSettled == Init => LegacyInv
BY DEF Init, LegacyInv, Fine

(* And after every step. *)
LEMMA StepSettled ==
  ASSUME TypeInv, JobInv, LoadInv, RaceInv, LegacyInv, [Next]_vars
  PROVE  LegacyInv'
<1>1. CASE Next
  BY <1>1, NextSettled
<1>2. CASE UNCHANGED vars
  <2>1. section' = section /\ server' = server /\ hist' = hist /\ ui' = ui /\ jobs' = jobs
    BY <1>2 DEF vars
  <2> QED
    BY <2>1, IdleSettled
<1> QED
  BY <1>1, <1>2

-----------------------------------------------------------------------------
(* The console: what is shown is what the server has, or is about to have   *)

\* A save behind the first of its handler is not shown yet; a save that is the
\* first is.
Ahead(k) ==
  \E s \in Slots : Does(s, "save") /\ k \in DOMAIN jobs[s].queue /\ k # First(jobs[s].queue)
Shows(k) ==
  \E s \in Slots : /\ Does(s, "save") /\ k \in DOMAIN jobs[s].queue /\ k = First(jobs[s].queue)
                   /\ jobs[s].queue[k] = ui.inputs[k]
Follows(k) == IF Pends(k) THEN Shows(k) ELSE server[k] = ui.inputs[k]
\* The box of a field that was meant to be saved shows what the component knows; an
\* endpoint that was looked up may be shown as it was entered.
Kept(k) ==
  /\ ui.inputs[k] # Absent
  /\ IF ui.kept[k] = None THEN ~Is(k, {"hidden"})
     ELSE Is(k, {"endpoint"}) \/ ui.kept[k] = ui.inputs[k]
InOrder == \A s \in Slots : Does(s, "save") =>
             \A k \in DOMAIN jobs[s].queue \ {First(jobs[s].queue)} : Is(k, {"lookup"})
ConsoleInv ==
  InConsole =>
    /\ InOrder
    /\ Fine => /\ \A k \in Fields \ (hist.foreign \cup hist.unsaved) :
                    (k \in Boxes => ui.inputs[k] # Absent) /\ ~Ahead(k) => Follows(k)
               /\ \A k \in Claimed \cap Boxes : Kept(k)

(* What this says after a step. *)
LEMMA SameConsole ==
  ASSUME section' = section
  PROVE  /\ \A k : Ahead(k)' <=> \E s \in Slots : /\ jobs'[s].op = "save" /\ k \in DOMAIN jobs'[s].queue
                                                  /\ k # First(jobs'[s].queue)
         /\ \A k : Shows(k)' <=> \E s \in Slots : /\ jobs'[s].op = "save" /\ k \in DOMAIN jobs'[s].queue
                                                  /\ k = First(jobs'[s].queue)
                                                  /\ jobs'[s].queue[k] = ui'.inputs[k]
         /\ \A k : Follows(k)' <=> IF Pends(k)' THEN Shows(k)' ELSE server'[k] = ui'.inputs[k]
         /\ \A k : Kept(k)' <=> /\ ui'.inputs[k] # Absent
                                /\ IF ui'.kept[k] = None THEN ~Is(k, {"hidden"})
                                   ELSE Is(k, {"endpoint"}) \/ ui'.kept[k] = ui'.inputs[k]
         /\ InOrder' <=> \A s \in Slots : jobs'[s].op = "save" =>
              \A k \in DOMAIN jobs'[s].queue \ {First(jobs'[s].queue)} : Is(k, {"lookup"})
<1>1. \A k, rules : Is(k, rules)' <=> Is(k, rules)
  BY SameSection DEF Is
<1>2. \A k : Follows(k)' <=> IF Pends(k)' THEN Shows(k)' ELSE server'[k] = ui'.inputs[k]
  BY DEF Follows
<1>3. InOrder' <=> \A s \in Slots : jobs'[s].op = "save" =>
        \A k \in DOMAIN jobs'[s].queue \ {First(jobs'[s].queue)} : Is(k, {"lookup"})
  BY <1>1 DEF InOrder, Does, First, Min
<1>4. \A k : Kept(k)' <=> /\ ui'.inputs[k] # Absent
                          /\ IF ui'.kept[k] = None THEN ~Is(k, {"hidden"})
                             ELSE Is(k, {"endpoint"}) \/ ui'.kept[k] = ui'.inputs[k]
  BY <1>1 DEF Kept, Absent, None
<1> QED
  BY <1>2, <1>3, <1>4 DEF Ahead, Shows, Does, First, Min

(* A step in which no handler that saves starts, goes on or ends, and which leaves
   the inputs as they are. *)
LEMMA IdleConsole ==
  ASSUME TypeInv, JobInv, ConsoleInv, section' = section,
         \A s \in Slots : jobs'[s] = jobs[s] \/ (~Does(s, "save") /\ jobs'[s].op # "save"),
         ui'.inputs = ui.inputs, Fine' => Fine,
         hist.foreign \subseteq hist'.foreign, hist.unsaved \subseteq hist'.unsaved,
         \A k \in Fields : server'[k] = server[k] \/ k \in hist'.foreign,
         hist'.meant \subseteq hist.meant, hist.told \subseteq hist'.told,
         \A k \in Boxes : k \in hist'.meant =>
           \/ ui'.kept[k] = ui.kept[k]
           \/ ui'.kept[k] # None /\ (ui.inputs[k] # Absent => ui'.kept[k] = ui.inputs[k])
  PROVE  ConsoleInv'
<1>1. InConsole' = InConsole /\ Fields' = Fields /\ Boxes' = Boxes
  BY SameSection
<1>2. \A k : (Pends(k)' <=> Pends(k)) /\ (Ahead(k)' <=> Ahead(k)) /\ (Shows(k)' <=> Shows(k))
  <2>1. \A s \in Slots : /\ jobs'[s].op = "save" <=> Does(s, "save")
                         /\ Does(s, "save") => jobs'[s] = jobs[s]
    BY DEF Does
  <2> TAKE k
  <2>2. Pends(k)' <=> Pends(k)
    BY <2>1, SameLegacy DEF Pends
  <2>3. Ahead(k)' <=> Ahead(k)
    <3>1. Ahead(k)' <=> \E s \in Slots : /\ jobs'[s].op = "save" /\ k \in DOMAIN jobs'[s].queue
                                         /\ k # First(jobs'[s].queue)
      BY SameConsole
    <3> QED
      BY <2>1, <3>1 DEF Ahead
  <2>4. Shows(k)' <=> Shows(k)
    BY <2>1, SameConsole DEF Shows
  <2> QED
    BY <2>2, <2>3, <2>4
<1>3. InConsole => InOrder'
  BY SameConsole DEF ConsoleInv, InOrder, Does
<1> SUFFICES ASSUME Fine', InConsole
             PROVE  /\ \A k \in Fields \ (hist'.foreign \cup hist'.unsaved) :
                         (k \in Boxes => ui'.inputs[k] # Absent) /\ ~Ahead(k)' => Follows(k)'
                    /\ \A k \in Claimed' \cap Boxes : Kept(k)'
  BY <1>1, <1>3, SameLegacy DEF ConsoleInv, Absent
<1>4. \A k \in Fields \ hist'.foreign : Follows(k) => Follows(k)'
  BY <1>2, SameConsole DEF Follows
<1>5. \A k \in Fields \ (hist'.foreign \cup hist'.unsaved) :
        (k \in Boxes => ui'.inputs[k] # Absent) /\ ~Ahead(k)' => Follows(k)'
  BY <1>2, <1>4 DEF ConsoleInv
<1>6. ASSUME NEW k \in Claimed' \cap Boxes PROVE Kept(k)'
  <2>1. k \in Claimed /\ k \in hist'.meant
    BY <1>6, SameLegacy DEF Claimed
  <2>2. Kept(k)
    BY <1>6, <2>1 DEF ConsoleInv
  <2> QED
    BY <1>6, <2>1, <2>2, SameConsole DEF Kept
<1> QED
  BY <1>5, <1>6

(* Saving a field, which is shown at once. *)
LEMMA AsksConsole ==
  ASSUME TypeInv, JobInv, ConsoleInv, InConsole, ui.loaded, NEW k \in Fields, NEW v \in Values, v # Absent,
         Asks(One(k, v), {k}, {}, {k}), ui'.inputs = [ui.inputs EXCEPT ![k] = v], ui'.loaded = ui.loaded,
         \A j \in Fields \ {k} : ui'.kept[j] = ui.kept[j],
         k \in Boxes => IF ui'.kept[k] = None THEN ~Is(k, {"hidden"})
                        ELSE Is(k, {"endpoint"}) \/ ui'.kept[k] = v
  PROVE  ConsoleInv'
<1>0. PICK q : q = One(k, v)
  OBVIOUS
<1>1. /\ section' = section /\ server' = server /\ hist'.foreign = hist.foreign
      /\ hist'.meant = hist.meant \cup {k} /\ hist'.told = hist.told \ {k}
      /\ hist'.unsaved = hist.unsaved \ {k} /\ (hist'.blind <=> hist.blind)
      /\ hist'.raced <=> hist.raced \/ Races(Saver(q))
  BY <1>0 DEF Asks, Recorded, TypeInv, HistType
<1>2. InConsole' = InConsole /\ Fields' = Fields /\ Boxes' = Boxes
  BY <1>1, SameSection
<1>3. q \in Maps(Values) /\ DOMAIN q = {k} /\ q[k] = v /\ First(q) = k
  <2>1. q \in Maps(Values) /\ DOMAIN q = {k} /\ q[k] = v
    BY <1>0, OneFacts
  <2> QED
    BY <2>1, FirstIn DEF TypeInv
<1>4. PICK n \in Slots : /\ jobs[n] = Nobody /\ jobs'[n] = Saver(q)
                         /\ \A t \in Slots \ {n} : jobs'[t] = jobs[t]
  BY <1>0, <1>3 DEF Asks, Started
<1>5. /\ jobs'[n].op = "save" /\ jobs'[n].queue = q /\ First(jobs'[n].queue) = k
      /\ jobs[n].op = "none"
  <2>1. Saver(q).op = "save" /\ Saver(q).queue = q
    BY <1>3, SaverFacts
  <2>2. jobs[n].op = "none"
    BY <1>4, NobodyFacts
  <2> QED
    BY <1>3, <1>4, <2>1, <2>2
<1>6. InOrder'
  BY <1>1, <1>3, <1>4, <1>5, SameConsole DEF ConsoleInv, InOrder, Does
<1> SUFFICES ASSUME Fine'
             PROVE  /\ \A j \in Fields \ (hist.foreign \cup hist'.unsaved) :
                         (j \in Boxes => ui'.inputs[j] # Absent) /\ ~Ahead(j)' => Follows(j)'
                    /\ \A j \in Claimed' \cap Boxes : Kept(j)'
  BY <1>1, <1>2, <1>6, SameLegacy DEF ConsoleInv, Absent
<1>7. Fine
  BY <1>1, SameLegacy DEF Fine
<1>8. /\ ui'.inputs[k] = v /\ \A j \in Fields \ {k} : ui'.inputs[j] = ui.inputs[j]
  BY DEF TypeInv, UiType
<1>9. Shows(k)' /\ Pends(k)'
  BY <1>1, <1>3, <1>5, <1>8, SameLegacy, SameConsole
<1>10. ASSUME NEW j \in Fields \ {k}
       PROVE  /\ Pends(j)' <=> Pends(j)
              /\ Ahead(j)' <=> Ahead(j)
              /\ Shows(j) => Shows(j)'
  <2>1. Pends(j)' <=> Pends(j)
    BY <1>1, <1>3, <1>4, <1>5, SameLegacy DEF Pends, Does
  <2>2. Ahead(j)' <=> Ahead(j)
    BY <1>1, <1>3, <1>4, <1>5, SameConsole DEF Ahead, Does
  <2>3. Shows(j) => Shows(j)'
    BY <1>1, <1>3, <1>4, <1>5, <1>8, SameConsole DEF Shows, Does
  <2> QED
    BY <2>1, <2>2, <2>3
<1>11. ASSUME NEW j \in Fields \ (hist.foreign \cup hist'.unsaved), j \in Boxes => ui'.inputs[j] # Absent, ~Ahead(j)'
       PROVE  Follows(j)'
  <2>1. CASE j = k
    BY <1>1, <1>9, <2>1, SameConsole
  <2>2. CASE j # k
    <3>1. Follows(j)
      BY <1>1, <1>7, <1>8, <1>10, <1>11, <2>2 DEF ConsoleInv
    <3> QED
      BY <1>1, <1>8, <1>10, <1>11, <2>2, <3>1, SameConsole DEF Follows
  <2> QED
    BY <2>1, <2>2
<1>12. ASSUME NEW j \in Claimed' \cap Boxes PROVE Kept(j)'
  <2>1. CASE j = k
    BY <1>1, <1>8, <1>12, <2>1, SameConsole
  <2>2. CASE j # k
    <3>1. j \in Claimed /\ j \in Fields
      BY <1>1, <1>12, <2>2, SameLegacy DEF Claimed, Boxes
    <3>2. Kept(j)
      BY <1>7, <1>12, <3>1 DEF ConsoleInv
    <3> QED
      BY <1>1, <1>8, <2>2, <3>1, <3>2, SameConsole DEF Kept
  <2> QED
    BY <2>1, <2>2
<1> QED
  BY <1>11, <1>12

(* The server saves what is still to be done. *)
LEMMA ServeConsole ==
  ASSUME TypeInv, JobInv, ConsoleInv, NEW s \in Slots, Serve(s)
  PROVE  ConsoleInv'
<1> DEFINE q == jobs[s].queue
<1>0. PICK f : f = First(q)
  OBVIOUS
<1>1. /\ section' = section /\ ui' = ui
      /\ hist'.meant = hist.meant /\ hist'.told = hist.told /\ hist'.foreign = hist.foreign
      /\ hist'.blind = hist.blind /\ hist'.raced = hist.raced /\ hist'.unsaved = hist.unsaved
      /\ jobs'[s].op = jobs[s].op /\ jobs'[s].queue = q
      /\ server' = IF jobs[s].op = "save" /\ jobs'[s].ok THEN [server EXCEPT ![f] = q[f]] ELSE server
      /\ \A t \in Slots \ {s} : jobs'[t] = jobs[t]
  BY <1>0, ServeFacts DEF Silent, Noted, Moved
<1>2. InConsole' = InConsole /\ Fields' = Fields /\ Boxes' = Boxes
  BY <1>1, SameSection
<1>3. \A k : (Pends(k)' <=> Pends(k)) /\ (Ahead(k)' <=> Ahead(k)) /\ (Shows(k)' <=> Shows(k))
  <2>1. \A t \in Slots : /\ jobs'[t].op = "save" <=> Does(t, "save")
                         /\ jobs'[t].queue = jobs[t].queue
    BY <1>1 DEF Does
  <2>0. section' = section /\ ui' = ui
    BY <1>1
  <2> HIDE DEF q
  <2> TAKE k
  <2>2. Pends(k)' <=> Pends(k)
    BY <2>0, <2>1, SameLegacy DEF Pends
  <2>3. Ahead(k)' <=> Ahead(k)
    <3>1. \A t \in Slots : k # First(jobs'[t].queue) <=> k # First(jobs[t].queue)
      BY <2>1
    <3>2. Ahead(k)' <=> \E t \in Slots : /\ jobs'[t].op = "save" /\ k \in DOMAIN jobs'[t].queue
                                         /\ k # First(jobs'[t].queue)
      BY <2>0, SameConsole
    <3>3. Ahead(k)' <=> \E t \in Slots : /\ Does(t, "save") /\ k \in DOMAIN jobs[t].queue
                                         /\ k # First(jobs[t].queue)
      BY <2>1, <3>1, <3>2
    <3> QED
      BY <3>3 DEF Ahead
  <2>4. Shows(k)' <=> Shows(k)
    BY <2>0, <2>1, SameConsole DEF Shows
  <2> QED
    BY <2>2, <2>3, <2>4
<1>4. InConsole => InOrder'
  BY <1>1, SameConsole DEF ConsoleInv, InOrder, Does
<1> SUFFICES ASSUME Fine', InConsole
             PROVE  /\ \A k \in Fields \ (hist.foreign \cup hist.unsaved) :
                         (k \in Boxes => ui.inputs[k] # Absent) /\ ~Ahead(k)' => Follows(k)'
                    /\ \A k \in Claimed' \cap Boxes : Kept(k)'
  BY <1>1, <1>2, <1>4, SameLegacy DEF ConsoleInv, Absent
<1>5. Fine /\ Claimed' = Claimed
  BY <1>1, SameLegacy DEF Fine, Claimed
<1>6. \A k \in Fields : Pends(k) \/ server'[k] = server[k]
  <2>1. CASE jobs[s].op = "save" /\ jobs'[s].ok
    <3>1. f \in DOMAIN q /\ f \in Fields
      BY <1>0, <2>1, AnswerFacts DEF Does
    <3>2. server' = [server EXCEPT ![f] = q[f]]
      BY <1>1, <2>1
    <3>3. Pends(f)
      BY <2>1, <3>1 DEF Pends, Does
    <3> HIDE DEF q
    <3>4. \A k \in Fields \ {f} : server'[k] = server[k]
      BY <3>1, <3>2 DEF TypeInv
    <3> QED
      BY <3>3, <3>4
  <2>2. CASE ~(jobs[s].op = "save" /\ jobs'[s].ok)
    BY <1>1, <2>2
  <2> QED
    BY <2>1, <2>2
<1>7. \A k \in Fields : Follows(k) => Follows(k)'
  BY <1>1, <1>3, <1>6, SameConsole DEF Follows
<1>8. \A k \in Fields \ (hist.foreign \cup hist.unsaved) :
        (k \in Boxes => ui.inputs[k] # Absent) /\ ~Ahead(k)' => Follows(k)'
  BY <1>3, <1>5, <1>7 DEF ConsoleInv
<1>9. \A k \in Claimed' \cap Boxes : Kept(k)'
  BY <1>1, <1>5, SameConsole DEF ConsoleInv, Kept
<1> QED
  BY <1>8, <1>9

(* The saves of a handler that is lost are not made, and nothing else changes. *)
LEMMA LostConsole ==
  ASSUME TypeInv, JobInv, ConsoleInv, NEW s \in Slots, Lost(s)
  PROVE  ConsoleInv'
<1> DEFINE K == DOMAIN jobs[s].queue
<1>1. /\ section' = section /\ ui' = ui /\ server' = server
      /\ hist'.meant = hist.meant /\ hist'.foreign = hist.foreign
      /\ hist'.blind = hist.blind /\ hist'.raced = hist.raced
      /\ InConsole => hist'.told = hist.told /\ hist'.unsaved = hist.unsaved \cup K
      /\ jobs[s].op \in {"save", "load"} /\ jobs'[s] = Nobody
      /\ \A t \in Slots \ {s} : jobs'[t] = jobs[t]
  BY LostFacts DEF Noted, Moved
<1>2. InConsole' = InConsole /\ Fields' = Fields /\ Boxes' = Boxes
  BY <1>1, SameSection
<1>3. InConsole => InOrder'
  BY <1>1, NobodyFacts, SameConsole DEF ConsoleInv, InOrder, Does
<1> SUFFICES ASSUME Fine', InConsole
             PROVE  /\ \A k \in Fields \ (hist.foreign \cup hist'.unsaved) :
                         (k \in Boxes => ui.inputs[k] # Absent) /\ ~Ahead(k)' => Follows(k)'
                    /\ \A k \in Claimed' \cap Boxes : Kept(k)'
  BY <1>1, <1>2, <1>3, SameLegacy DEF ConsoleInv, Absent
<1>4. Fine /\ Claimed' \subseteq Claimed
  BY <1>1, SameLegacy DEF Fine, Claimed
<1>5. ASSUME NEW k \in Fields, k \notin K
      PROVE  (Pends(k)' <=> Pends(k)) /\ (Ahead(k)' <=> Ahead(k)) /\ (Shows(k)' <=> Shows(k))
  <2>1. \A t \in Slots : /\ k \in DOMAIN jobs[t].queue /\ Does(t, "save") => jobs'[t] = jobs[t]
                         /\ jobs'[t].op = "save" => jobs'[t] = jobs[t]
    BY <1>1, <1>5, NobodyFacts
  <2>2. Pends(k)' <=> Pends(k)
    BY <1>1, <2>1, SameLegacy DEF Pends, Does
  <2>3. Ahead(k)' <=> Ahead(k)
    BY <1>1, <2>1, SameConsole DEF Ahead, Does
  <2>4. Shows(k)' <=> Shows(k)
    BY <1>1, <2>1, SameConsole DEF Shows, Does
  <2> QED
    BY <2>2, <2>3, <2>4
<1> HIDE DEF K
<1>6. ASSUME NEW k \in Fields \ (hist.foreign \cup hist'.unsaved), k \in Boxes => ui.inputs[k] # Absent,
             ~Ahead(k)'
      PROVE  Follows(k)'
  <2>1. k \notin K /\ k \notin hist.unsaved
    BY <1>1, <1>6
  <2>2. Follows(k)
    BY <1>4, <1>5, <1>6, <2>1 DEF ConsoleInv
  <2> QED
    BY <1>1, <1>5, <2>1, <2>2, SameConsole DEF Follows
<1>7. \A k \in Claimed' \cap Boxes : Kept(k)'
  BY <1>1, <1>4, SameConsole DEF ConsoleInv, Kept
<1> QED
  BY <1>6, <1>7

(* What was loaded is shown as the server has it, what it does not send apart. *)
LEMMA LoadedConsole ==
  ASSUME TypeInv, JobInv, LoadInv, ConsoleInv, NEW s \in Slots, Loaded(s)
  PROVE  ConsoleInv'
<1>1. /\ section' = section /\ server' = server /\ hist' = hist /\ Does(s, "load")
      /\ jobs[s].phase = "served" /\ jobs'[s] = Nobody /\ \A t \in Slots \ {s} : jobs'[t] = jobs[t]
      /\ \A k \in Fields :
              ui'.inputs[k] = IF Is(k, Secrets) THEN Absent ELSE Display(jobs[s].data[k])
  BY LoadedFacts DEF Moved
<1>2. InConsole' = InConsole /\ Fields' = Fields /\ Boxes' = Boxes
  BY <1>1, SameSection
<1>3. InConsole => InOrder'
  BY <1>1, NobodyFacts, SameConsole DEF ConsoleInv, InOrder, Does
<1> SUFFICES ASSUME Fine', InConsole
             PROVE  /\ \A k \in Fields \ (hist.foreign \cup hist.unsaved) :
                         (k \in Boxes => ui'.inputs[k] # Absent) /\ ~Ahead(k)' => Follows(k)'
                    /\ \A k \in Claimed' \cap Boxes : Kept(k)'
  BY <1>1, <1>2, <1>3, SameLegacy DEF ConsoleInv, Absent
<1>4. ~ui.loaded /\ ~hist.blind
  BY <1>1, SameLegacy DEF JobInv
<1>5. Claimed' = {} /\ \A t \in Slots : jobs'[t].op # "save"
  BY <1>1, <1>4, NobodyFacts, SameLegacy DEF LoadInv, Does
<1>6. ASSUME NEW k \in Fields \ hist.foreign, k \in Boxes => ui'.inputs[k] # Absent
      PROVE  server'[k] = ui'.inputs[k]
  <2>1. server[k] \in Values
    <3>1. ~Is(k, {"checked"})
      BY FieldFacts DEF TypeInv, Is
    <3>2. server[k] \in Stored /\ server[k] # EmptyMap
      BY <3>1 DEF TypeInv, Mapped
    <3> QED
      BY <3>2 DEF Stored
  <2>2. ~Is(k, Secrets)
    <3>1. k \notin Boxes => Is(k, Switches \cup {"lookup"})
      BY DEF Boxes, Is
    <3>2. Is(k, Switches \cup {"lookup"}) => ~Is(k, Secrets)
      BY DEF Is, Switches, Secrets
    <3> QED
      BY <1>1, <1>6, <3>1, <3>2
  <2>3. jobs[s].data[k] = server[k]
    BY <1>1, <1>4 DEF LoadInv
  <2> QED
    BY <1>1, <2>1, <2>2, <2>3, ValueFacts
<1>7. \A k : ~Pends(k)'
  BY <1>1, <1>5, SameLegacy
<1> QED
  BY <1>1, <1>5, <1>6, <1>7, SameConsole

(* The endpoint that was found is shown, and the address behind it is not yet. *)
LEMMA DiscoveredConsole ==
  ASSUME TypeInv, JobInv, RaceInv, ConsoleInv, NEW s \in Slots, NEW q \in Maps(Values),
         DOMAIN q = {2, 3}, q[2] \in {"a", "b"}, section' = section, server' = server,
         InConsole, Rules = SsoRules, Does(s, "find"), Moved(s, Saver(q)),
         Page([ui.inputs EXCEPT ![2] = q[2]], ui.kept, FALSE, ui.asking),
         Noted(hist.meant \cup {2, 3}, hist.told, hist.touched \cup {2, 3}, hist.raced, hist.unsaved \ {2, 3})
  PROVE  ConsoleInv'
<1>1. /\ hist'.meant = hist.meant \cup {2, 3} /\ hist'.told = hist.told /\ hist'.foreign = hist.foreign
      /\ hist'.blind = hist.blind /\ hist'.raced = hist.raced /\ hist'.unsaved = hist.unsaved \ {2, 3}
      /\ ui'.kept = ui.kept /\ ui'.loaded = ui.loaded /\ \A t \in Slots \ {s} : jobs'[t] = jobs[t]
  BY DEF Noted, Page, Moved
<1>2. InConsole' = InConsole /\ Fields' = Fields /\ Boxes' = Boxes
  BY SameSection
<1>3. /\ Fields = 1..4 /\ Is(2, {"endpoint"}) /\ ~Is(2, {"hidden"}) /\ Is(3, {"lookup"})
      /\ 3 \notin Boxes /\ Boxes \subseteq Fields
  BY DEF SsoRules, Fields, Is, Boxes
<1>4. First(q) = 2
  <2>1. First(q) \in {2, 3} /\ First(q) <= 2
    BY <1>3, FirstIn DEF TypeInv
  <2> QED
    BY <2>1
<1>5. jobs'[s].op = "save" /\ jobs'[s].queue = q /\ First(jobs'[s].queue) = 2
  <2>1. jobs'[s] = Saver(q)
    BY DEF Moved
  <2>2. Saver(q).op = "save" /\ Saver(q).queue = q
    BY SaverFacts
  <2> QED
    BY <1>4, <2>1, <2>2
<1>6. InOrder'
  BY <1>1, <1>3, <1>5, SameConsole DEF ConsoleInv, InOrder, Does
<1> SUFFICES ASSUME Fine'
             PROVE  /\ \A k \in Fields \ (hist.foreign \cup hist'.unsaved) :
                         (k \in Boxes => ui'.inputs[k] # Absent) /\ ~Ahead(k)' => Follows(k)'
                    /\ \A k \in Claimed' \cap Boxes : Kept(k)'
  BY <1>1, <1>2, <1>6, SameLegacy DEF ConsoleInv, Absent
<1>7. Fine
  BY <1>1, SameLegacy DEF Fine
<1>8. \A t \in Slots \ {s} : jobs[t] = Nobody /\ jobs[t].op = "none"
  BY <1>7, NobodyFacts DEF RaceInv, Fine, Apart, Busy
<1>9. /\ ui'.inputs[2] = q[2] /\ q[2] # Absent
      /\ \A k \in Fields \ {2} : ui'.inputs[k] = ui.inputs[k]
  BY <1>3, ValueFacts DEF Page, TypeInv, UiType
<1>10. \A k : ~Pends(k) /\ ~Ahead(k)
  BY <1>8 DEF Pends, Ahead, Does
<1>11. /\ Pends(2)' /\ Shows(2)' /\ Ahead(3)'
       /\ \A k : k \notin {2, 3} => ~Pends(k)'
  <2>1. Pends(2)' /\ \A k : k \notin {2, 3} => ~Pends(k)'
    BY <1>1, <1>5, <1>8, SameLegacy
  <2>2. Shows(2)'
    BY <1>5, <1>9, SameConsole
  <2>3. Ahead(3)'
    BY <1>5, SameConsole
  <2> QED
    BY <2>1, <2>2, <2>3
<1>12. ASSUME NEW k \in Fields \ (hist.foreign \cup hist'.unsaved), k \in Boxes => ui'.inputs[k] # Absent, ~Ahead(k)'
       PROVE  Follows(k)'
  <2>1. CASE k = 2
    BY <1>11, <2>1, SameConsole
  <2>2. CASE k # 2
    <3>1. k \notin {2, 3} /\ ~Pends(k)' /\ ui'.inputs[k] = ui.inputs[k]
      BY <1>9, <1>11, <1>12, <2>2
    <3>2. Follows(k) /\ ~Pends(k)
      BY <1>1, <1>7, <1>10, <1>12, <3>1 DEF ConsoleInv
    <3> QED
      BY <3>1, <3>2, SameConsole DEF Follows
  <2> QED
    BY <2>1, <2>2
<1>13. ASSUME NEW k \in Claimed' \cap Boxes PROVE Kept(k)'
  <2>1. CASE k = 2
    BY <1>3, <1>9, <2>1, SameConsole
  <2>2. CASE k # 2
    <3>1. k \in Claimed /\ k \in Fields
      BY <1>1, <1>3, <1>13, <2>2, SameLegacy DEF Claimed
    <3>2. Kept(k)
      BY <1>7, <1>13, <3>1 DEF ConsoleInv
    <3> QED
      BY <1>1, <1>9, <2>2, <3>1, <3>2, SameConsole DEF Kept
  <2> QED
    BY <2>1, <2>2
<1> QED
  BY <1>12, <1>13

(* The answer to a save: it was shown already, and the next one is shown now. *)
LEMMA SavedConsole ==
  ASSUME TypeInv, JobInv, RaceInv, ConsoleInv, NEW s \in Slots, Saved(s)
  PROVE  ConsoleInv'
<1> DEFINE q == jobs[s].queue
           r == Rest(q)
<1>0. PICK f, g : f = First(q) /\ g = First(r)
  OBVIOUS
<1>1. /\ section' = section /\ server' = server
      /\ InConsole /\ Does(s, "save") /\ jobs[s].phase = "served" /\ jobs[s] \in Job
      /\ ui'.inputs = IF DOMAIN r = {} THEN ui.inputs ELSE [ui.inputs EXCEPT ![g] = r[g]]
      /\ ui'.kept = ui.kept /\ ui'.loaded = ui.loaded
      /\ hist'.meant = hist.meant /\ hist'.foreign = hist.foreign /\ hist'.told = hist.told
      /\ hist'.blind = hist.blind /\ hist'.raced = hist.raced
      /\ hist'.unsaved = IF jobs[s].ok THEN hist.unsaved ELSE hist.unsaved \cup {f}
      /\ Moved(s, Then(r))
  BY <1>0, SavedFacts, Zenon DEF Page, Noted
<1>2. InConsole' = InConsole /\ Fields' = Fields /\ Boxes' = Boxes /\ section' = section
  BY <1>1, SameSection
<1>3. /\ q \in Maps(Values) /\ f \in DOMAIN q /\ DOMAIN q \subseteq Fields
      /\ r \in Maps(Values) /\ DOMAIN r = DOMAIN q \ {f} /\ \A k \in DOMAIN r : r[k] = q[k]
      /\ DOMAIN r # {} => g \in DOMAIN r /\ r[g] \in Values
  BY <1>0, <1>1, AnswerFacts, Zenon
<1>4. /\ \A t \in Slots \ {s} : jobs'[t] = jobs[t]
      /\ DOMAIN r = {} => jobs'[s] = Nobody /\ jobs'[s].op = "none"
      /\ DOMAIN r # {} => jobs'[s].op = "save" /\ jobs'[s].queue = r /\ g = First(jobs'[s].queue)
  BY <1>0, <1>1, <1>3, MovedThen
<1>5. \A k \in DOMAIN r : Is(k, {"lookup"})
  BY <1>0, <1>1, <1>3 DEF ConsoleInv, InOrder
<1>6. InOrder'
  BY <1>1, <1>3, <1>4, <1>5, SameConsole DEF ConsoleInv, InOrder, Does
<1> HIDE DEF r
<1>7. ui.inputs \in [Fields -> Values]
  BY DEF TypeInv, UiType
<1>8. /\ \A k \in Fields : k # g \/ DOMAIN r = {} => ui'.inputs[k] = ui.inputs[k]
      /\ DOMAIN r # {} => ui'.inputs[g] = r[g]
  BY <1>1, <1>3, <1>7
<1> SUFFICES ASSUME Fine'
             PROVE  /\ \A k \in Fields \ (hist.foreign \cup hist'.unsaved) :
                         (k \in Boxes => ui'.inputs[k] # Absent) /\ ~Ahead(k)' => Follows(k)'
                    /\ \A k \in Claimed' \cap Boxes : Kept(k)'
  BY <1>1, <1>2, <1>6, SameLegacy DEF ConsoleInv, Absent
<1>9. /\ Fine /\ Claimed' \subseteq Claimed /\ hist.unsaved \subseteq hist'.unsaved
      /\ f \notin hist'.unsaved => jobs[s].ok
  BY <1>1, SameLegacy DEF Fine, Claimed
<1>10. jobs[s].ok => server[f] = q[f] \/ f \in hist.foreign
  BY <1>0, <1>1, <1>9 DEF RaceInv, Held, HasSaved, Fine
<1>11. \A t \in Slots \ {s} : Does(t, "save") => DOMAIN jobs[t].queue \cap DOMAIN q = {}
  BY <1>1, <1>9 DEF RaceInv, Apart, Fine
<1>12. ASSUME f \notin hist.foreign \cup hist'.unsaved, f \in Boxes => ui.inputs[f] # Absent
       PROVE  server[f] = ui.inputs[f]
  <2>1. ~Ahead(f)
    BY <1>0, <1>3, <1>11 DEF Ahead
  <2>2. Pends(f)
    BY <1>1, <1>3 DEF Pends
  <2>3. Shows(f)
    BY <1>1, <1>3, <1>9, <1>12, <2>1, <2>2 DEF ConsoleInv, Follows
  <2>4. q[f] = ui.inputs[f]
    BY <1>3, <1>11, <2>3 DEF Shows
  <2> QED
    BY <1>9, <1>10, <1>12, <2>4
<1>13. ~Pends(f)'
  <2>1. \A t \in Slots : jobs'[t].op = "save" => f \notin DOMAIN jobs'[t].queue
    BY <1>3, <1>4, <1>11 DEF Does
  <2> QED
    BY <1>2, <2>1, SameLegacy
<1>14. ASSUME NEW k \in Fields, k \notin DOMAIN q
       PROVE  /\ Pends(k)' <=> Pends(k)
              /\ Ahead(k) => Ahead(k)'
              /\ Shows(k) => Shows(k)'
  <2>1. k \notin DOMAIN r /\ ui'.inputs[k] = ui.inputs[k]
    BY <1>3, <1>8, <1>14
  <2>2. Pends(k)' <=> Pends(k)
    BY <1>2, <1>4, <1>14, <2>1, SameLegacy DEF Pends, Does
  <2>3. Ahead(k) => Ahead(k)'
    BY <1>2, <1>4, <1>14, <2>1, SameConsole DEF Ahead, Does
  <2>4. Shows(k) => Shows(k)'
    BY <1>2, <1>4, <1>14, <2>1, SameConsole DEF Shows, Does
  <2> QED
    BY <2>2, <2>3, <2>4
<1> HIDE DEF q
<1>15. ASSUME NEW k \in Fields \ (hist.foreign \cup hist'.unsaved), k \in Boxes => ui'.inputs[k] # Absent, ~Ahead(k)'
       PROVE  Follows(k)'
  <2>1. CASE k \notin DOMAIN q
    <3>1. ui'.inputs[k] = ui.inputs[k]
      BY <1>3, <1>8, <2>1
    <3>2. Follows(k)
      BY <1>1, <1>9, <1>14, <1>15, <2>1, <3>1 DEF ConsoleInv
    <3> QED
      BY <1>1, <1>14, <2>1, <3>1, <3>2, SameConsole DEF Follows
  <2>2. CASE k = f
    <3>1. ui'.inputs[f] = ui.inputs[f]
      BY <1>3, <1>8
    <3>2. server[f] = ui.inputs[f]
      BY <1>12, <1>15, <2>2, <3>1
    <3> QED
      BY <1>1, <1>13, <2>2, <3>1, <3>2, SameConsole
  <2>3. CASE k \in DOMAIN r
    <3>1. jobs'[s].op = "save" /\ jobs'[s].queue = r /\ g = First(jobs'[s].queue)
      BY <1>4, <2>3
    <3>2. k = g
      BY <1>2, <1>15, <2>3, <3>1, SameConsole
    <3>3. Shows(k)'
      BY <1>2, <1>8, <2>3, <3>1, <3>2, SameConsole
    <3>4. Pends(k)'
      BY <1>2, <2>3, <3>1, SameLegacy
    <3> QED
      BY <1>2, <3>3, <3>4, SameConsole
  <2> QED
    BY <1>3, <2>1, <2>2, <2>3
<1>16. ASSUME NEW k \in Claimed' \cap Boxes PROVE Kept(k)'
  <2>1. ~Is(k, {"lookup"}) /\ k \in Fields
    BY <1>16 DEF Boxes, Is
  <2>2. ui'.inputs[k] = ui.inputs[k]
    BY <1>3, <1>5, <1>8, <2>1
  <2> QED
    BY <1>1, <1>9, <1>16, <2>2, SameConsole DEF ConsoleInv, Kept
<1> QED
  BY <1>15, <1>16

(* Every step of the console keeps what is shown in step with what is saved. *)
LEMMA NextConsole ==
  ASSUME TypeInv, JobInv, LoadInv, RaceInv, ConsoleInv, Next
  PROVE  ConsoleInv'
<1>1. section' = section
  BY NextTyped DEF WellTyped
<1>2. InConsole' = InConsole
  BY <1>1, SameSection
<1>3. CASE ~InConsole
  BY <1>2, <1>3 DEF ConsoleInv
<1>4. ASSUME NEW s \in Slots, Serve(s) \/ Lost(s) \/ Loaded(s) PROVE ConsoleInv'
  BY <1>4, ServeConsole, LostConsole, LoadedConsole
<1>5. ASSUME NEW k \in Fields, Elsewhere(k) PROVE ConsoleInv'
  <2>1. /\ ui' = ui /\ jobs' = jobs /\ hist'.foreign = hist.foreign \cup {k}
        /\ hist'.meant = hist.meant /\ hist'.told = hist.told
        /\ hist'.blind = hist.blind /\ hist'.raced = hist.raced /\ hist'.unsaved = hist.unsaved
    BY <1>5, ElsewhereFacts
  <2>2. PICK v \in {"a", "b", "true", "false"} : server' = [server EXCEPT ![k] = v]
    BY <1>5, ElsewhereFacts
  <2>3. \A j \in Fields : server'[j] = server[j] \/ j \in hist'.foreign
    BY <2>1, <2>2 DEF TypeInv
  <2>4. Fine' => Fine
    BY <1>1, <2>1, SameLegacy DEF Fine
  <2> QED
    BY <1>1, <2>1, <2>3, <2>4, IdleConsole
<1>6. ASSUME NEW k \in Fields, NEW v \in Texts(k), Leave(k, v) PROVE ConsoleInv'
  <2>1. InConsole /\ ui.loaded /\ k \in Boxes /\ v \in Values \ {Absent, None}
    BY <1>6, LeaveFacts
  <2>2. PICK c \in [Fields -> Values] :
          /\ c = IF v = Box(k) THEN ui.kept ELSE [ui.kept EXCEPT ![k] = v]
          /\ ui'.kept = c /\ \A j \in Fields \ {k} : c[j] = ui.kept[j]
          /\ v # Box(k) => c[k] = v
    <3> DEFINE c == IF v = Box(k) THEN ui.kept ELSE [ui.kept EXCEPT ![k] = v]
    <3>1. ui.kept \in [Fields -> Values]
      BY DEF TypeInv, UiType
    <3>2. c \in [Fields -> Values] /\ (\A j \in Fields \ {k} : c[j] = ui.kept[j]) /\ (v # Box(k) => c[k] = v)
      BY <2>1, <3>1
    <3>3. ui'.kept = c
      BY <1>6, LeaveFacts DEF Page
    <3> QED
      BY <3>2, <3>3
  <2>3. CASE /\ v # Known(k) /\ (v # Blank \/ Is(k, {"area"}))
             /\ Asks(One(k, v), {k}, {}, {k})
             /\ Page([ui.inputs EXCEPT ![k] = v], c, ui.busy, ui.asking)
    <3>1. ui'.inputs = [ui.inputs EXCEPT ![k] = v] /\ ui'.loaded = ui.loaded /\ ui'.kept = c
      BY <2>3 DEF Page
    <3>2. IF c[k] = None THEN ~Is(k, {"hidden"}) ELSE c[k] = v
      <4>1. CASE v # Box(k)
        BY <2>1, <2>2, <4>1
      <4>2. CASE v = Box(k) /\ ui.kept[k] # None
        BY <2>2, <4>2 DEF Box
      <4>3. CASE v = Box(k) /\ ui.kept[k] = None
        <5>1. ~Is(k, {"hidden"})
          BY <2>3, <4>3 DEF Box, Is
        <5> QED
          BY <2>2, <4>3, <5>1
      <4> QED
        BY <4>1, <4>2, <4>3
    <3> QED
      BY <2>1, <2>2, <2>3, <3>1, <3>2, AsksConsole
  <2>4. CASE /\ v = Known(k) \/ (v = Blank /\ ~Is(k, {"area"}))
             /\ section' = section /\ server' = server /\ jobs' = jobs
             /\ v # Box(k) /\ Page(ui.inputs, c, ui.busy, ui.asking)
             /\ Noted(IF v = Known(k) THEN hist.meant ELSE hist.meant \ {k}, hist.told,
                      hist.touched, hist.raced, hist.unsaved)
    <3>1. /\ ui'.inputs = ui.inputs /\ ui'.loaded = ui.loaded
          /\ hist'.meant = (IF v = Known(k) THEN hist.meant ELSE hist.meant \ {k})
          /\ hist'.told = hist.told /\ hist'.foreign = hist.foreign
          /\ hist'.blind = hist.blind /\ hist'.raced = hist.raced /\ hist'.unsaved = hist.unsaved
      BY <2>4 DEF Page, Noted
    <3>2. Fine' => Fine
      BY <1>1, <3>1, SameLegacy DEF Fine
    <3>3. \A j \in Boxes : j \in Fields
      BY DEF Boxes
    <3>4. \A j \in Boxes : j \in hist'.meant =>
            \/ ui'.kept[j] = ui.kept[j]
            \/ ui'.kept[j] # None /\ (ui.inputs[j] # Absent => ui'.kept[j] = ui.inputs[j])
      <4> SUFFICES ASSUME NEW j \in Boxes, j \in hist'.meant, j = k
                   PROVE  ui'.kept[j] # None /\ (ui.inputs[j] # Absent => ui'.kept[j] = ui.inputs[j])
        BY <2>2, <3>3
      <4>1. v = Known(k) /\ ui'.kept[k] = v
        BY <2>2, <2>4, <3>1
      <4> QED
        BY <2>1, <4>1 DEF Known
    <3>5. hist'.meant \subseteq hist.meant
      BY <3>1
    <3> QED
      BY <2>4, <3>1, <3>2, <3>4, <3>5, IdleConsole
  <2> QED
    BY <1>6, <2>2, <2>3, <2>4, LeaveFacts
<1>7. ASSUME NEW k \in Fields, Click(k) PROVE ConsoleInv'
  <2>1. PICK v : v = Flip(ui.inputs[k])
    OBVIOUS
  <2>2. /\ InConsole /\ ui.loaded /\ Is(k, {"switch", "enable"})
        /\ v \in Values /\ v # Absent /\ Asks(One(k, v), {k}, {}, {k})
        /\ ui'.inputs = [ui.inputs EXCEPT ![k] = v] /\ ui'.loaded = ui.loaded /\ ui'.kept = ui.kept
    BY <1>7, <2>1, ClickFacts DEF Page
  <2>3. k \notin Boxes
    BY <2>2 DEF Boxes, Is, Switches
  <2> QED
    BY <2>2, <2>3, AsksConsole
<1>8. ASSUME NEW k \in Fields, NEW v \in Texts(k), PickWell(k, v) PROVE ConsoleInv'
  <2>1. /\ Is(k, {"lookup"}) /\ server' = server /\ jobs' = jobs
        /\ ui'.inputs = ui.inputs /\ ui'.loaded = ui.loaded /\ ui'.kept = [ui.kept EXCEPT ![k] = v]
        /\ hist'.meant = hist.meant \ {k} /\ hist'.told = hist.told /\ hist'.foreign = hist.foreign
        /\ hist'.blind = hist.blind /\ hist'.raced = hist.raced /\ hist'.unsaved = hist.unsaved
    BY <1>8, PickWellFacts DEF Page, Noted
  <2>2. Fine' => Fine
    BY <1>1, <2>1, SameLegacy DEF Fine
  <2>3. \A j \in Boxes : ui'.kept[j] = ui.kept[j]
    <3>1. \A j \in Boxes : j \in Fields /\ j # k
      BY <2>1 DEF Boxes, Is
    <3> QED
      BY <2>1, <3>1 DEF TypeInv, UiType
  <2> QED
    BY <1>1, <2>1, <2>2, <2>3, IdleConsole
<1>9. ASSUME NEW k \in Fields, Discover(k) PROVE ConsoleInv'
  <2>1. PICK d \in Maps(Stored) : /\ Looks(d, {})
                                  /\ ui'.inputs = ui.inputs /\ ui'.loaded = ui.loaded /\ ui'.kept = ui.kept
    BY <1>9, DiscoverFacts DEF Page
  <2>2. /\ server' = server /\ hist'.foreign = hist.foreign
        /\ hist'.meant = hist.meant /\ hist'.told = hist.told /\ hist'.unsaved = hist.unsaved
        /\ (hist.blind => hist'.blind) /\ (hist.raced => hist'.raced)
    BY <2>1 DEF Looks, Recorded, TypeInv, HistType
  <2>3. \A s \in Slots : jobs'[s] = jobs[s] \/ (~Does(s, "save") /\ jobs'[s].op # "save")
    BY <2>1, FinderFacts, NobodyFacts DEF Looks, Started, Does
  <2>4. Fine' => Fine
    BY <1>1, <2>1, <2>2, SameLegacy DEF Fine
  <2> QED
    BY <1>1, <2>1, <2>2, <2>3, <2>4, IdleConsole
<1>10. ASSUME NEW s \in Slots, Discovered(s) PROVE ConsoleInv'
  <2>1. server' = server /\ InConsole /\ Rules = SsoRules /\ Does(s, "find")
    BY <1>10, DiscoveredFacts
  <2>2. CASE /\ Moved(s, Nobody) /\ Silent
             /\ \E hung \in BOOLEAN : Page(ui.inputs, ui.kept, hung, ui.asking)
    <3>1. /\ ui'.inputs = ui.inputs /\ ui'.loaded = ui.loaded /\ ui'.kept = ui.kept
          /\ hist'.meant = hist.meant /\ hist'.told = hist.told /\ hist'.foreign = hist.foreign
          /\ hist'.blind = hist.blind /\ hist'.raced = hist.raced /\ hist'.unsaved = hist.unsaved
          /\ jobs'[s] = Nobody /\ \A t \in Slots \ {s} : jobs'[t] = jobs[t]
      BY <2>2 DEF Page, Silent, Noted, Moved
    <3>2. \A t \in Slots : jobs'[t] = jobs[t] \/ (~Does(t, "save") /\ jobs'[t].op # "save")
      BY <2>1, <3>1, NobodyFacts DEF Does
    <3>3. Fine' => Fine
      BY <1>1, <3>1, SameLegacy DEF Fine
    <3> QED
      BY <1>1, <2>1, <3>1, <3>2, <3>3, IdleConsole
  <2>3. CASE \E q \in Maps(Values) :
                 /\ DOMAIN q = {2, 3} /\ q[2] \in {"a", "b"}
                 /\ Moved(s, Saver(q))
                 /\ Page([ui.inputs EXCEPT ![2] = q[2]], ui.kept, FALSE, ui.asking)
                 /\ Noted(hist.meant \cup {2, 3}, hist.told, hist.touched \cup {2, 3}, hist.raced,
                          hist.unsaved \ {2, 3})
    BY <1>1, <2>1, <2>3, DiscoveredConsole
  <2> QED
    BY <1>10, <2>2, <2>3, DiscoveredFacts, Zenon
<1>11. ASSUME NEW s \in Slots, Saved(s) PROVE ConsoleInv'
  BY <1>11, SavedConsole
<1>12. ASSUME LegacyNext PROVE ~InConsole
  <2>1. ASSUME NEW k \in Fields, Warned(k) PROVE ~InConsole
    BY <2>1, FieldFacts DEF Warned, Is, TypeInv
  <2> QED
    BY <1>12, <2>1 DEF LegacyNext, Enter, Switch, Submit, SubmitOidc, Updated, OidcFound, Legacy
<1> QED
  BY <1>3, <1>4, <1>5, <1>6, <1>7, <1>8, <1>9, <1>10, <1>11, <1>12, Zenon DEF Next, ConsoleNext

(* It is so at first, before the page is loaded. *)
LEMMA InitConsole == Init => ConsoleInv
<1> SUFFICES ASSUME Init PROVE ConsoleInv
  OBVIOUS
<1>1. \A s \in Slots : ~Does(s, "save")
  BY SmallQueues, NobodyFacts DEF Init, Handler, Does
<1>2. ~Fine
  BY DEF Init, Fine
<1> QED
  BY <1>1, <1>2 DEF ConsoleInv, InOrder

(* And after every step. *)
LEMMA StepConsole ==
  ASSUME TypeInv, JobInv, LoadInv, RaceInv, ConsoleInv, [Next]_vars
  PROVE  ConsoleInv'
<1>1. CASE Next
  BY <1>1, NextConsole
<1>2. CASE UNCHANGED vars
  <2>1. section' = section /\ server' = server /\ hist' = hist /\ ui' = ui /\ jobs' = jobs
    BY <1>2 DEF vars
  <2>2. Fine' => Fine
    BY <2>1, SameLegacy DEF Fine
  <2> QED
    BY <2>1, <2>2, IdleConsole
<1> QED
  BY <1>1, <1>2

-----------------------------------------------------------------------------
(* At rest nothing is about to be saved any more *)

\* All that the saves rest on.
MeansInv == TypeInv /\ JobInv /\ LoadInv /\ RaceInv /\ LegacyInv /\ ConsoleInv

(* It says what was claimed. *)
LEMMA MeansSaved == MeansInv => SavedMeansSaved
<1> SUFFICES ASSUME MeansInv, Quiet, ui.loaded, ~hist.blind, ~hist.raced,
                    NEW k \in hist.meant \ (hist.told \cup hist.foreign \cup hist.unsaved), ~Unsendable(k)
             PROVE  Display(server[k]) = IF InConsole /\ k \in Boxes THEN Box(k) ELSE ui.inputs[k]
  BY DEF SavedMeansSaved
<1>1. Fine /\ k \in Claimed /\ k \in Fields /\ k \notin hist.foreign \cup hist.unsaved
  BY DEF Fine, Claimed, MeansInv, TypeInv, HistType
<1>2. \A s \in Slots : ~Does(s, "save") /\ ~Does(s, "find")
  BY JobFacts DEF MeansInv, Quiet, InFlight, Does
<1>3. ~Pends(k) /\ ~Ahead(k) /\ ~Finds
  BY <1>2 DEF Pends, Ahead, Finds
<1>4. CASE ~InConsole
  <2>1. Settled(k)
    BY <1>1, <1>3, <1>4 DEF MeansInv, LegacyInv
  <2> QED
    BY <1>3, <1>4, <2>1 DEF Settled, Match
<1>5. CASE InConsole
  <2>1. ui.inputs[k] \in Values
    BY <1>1 DEF MeansInv, TypeInv, UiType
  <2>2. ASSUME k \in Boxes => ui.inputs[k] # Absent PROVE Display(server[k]) = ui.inputs[k]
    <3>1. Follows(k)
      BY <1>1, <1>3, <1>5, <2>2 DEF MeansInv, ConsoleInv
    <3>2. server[k] = ui.inputs[k]
      BY <1>3, <3>1 DEF Follows
    <3> QED
      BY <2>1, <3>2, ValueFacts
  <2>3. CASE k \in Boxes
    <3>1. Kept(k)
      BY <1>1, <1>5, <2>3 DEF MeansInv, ConsoleInv
    <3>2. ui.kept[k] # None => ~Is(k, {"endpoint"})
      BY <1>5 DEF Unsendable
    <3>3. Box(k) = ui.inputs[k]
      BY <3>1, <3>2 DEF Kept, Box, Known
    <3> QED
      BY <1>5, <2>2, <2>3, <3>1, <3>3 DEF Kept
  <2>4. CASE k \notin Boxes
    BY <2>2, <2>4
  <2> QED
    BY <2>3, <2>4
<1> QED
  BY <1>4, <1>5

(* At rest, what root meant to save on a page is what the server has, whichever of
   its saves were refused or lost.  Excepted are, in the inherited interfaces, the
   options an error was shown for, and in the console, which looks at no answer,
   those whose last save was refused or lost: of them the page says "saved", or
   nothing.  Nothing is said of options changed elsewhere or that no button sends,
   nor of a page whose handlers overtook each other. *)
THEOREM SavedIsSaved == Spec => []SavedMeansSaved
<1>1. Init => MeansInv
  BY InitTyped, InitLoaded, InitApart, InitSettled, InitConsole DEF MeansInv
<1>2. MeansInv /\ [Next]_vars => MeansInv'
  BY StepTyped, StepLoaded, StepApart, StepSettled, StepConsole DEF MeansInv
<1>3. MeansInv => SavedMeansSaved
  BY MeansSaved
<1> QED
  BY <1>1, <1>2, <1>3, PTL DEF Spec
=============================================================================
