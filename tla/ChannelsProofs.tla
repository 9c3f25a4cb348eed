--------------------------- MODULE ChannelsProofs ---------------------------
(***************************************************************************)
(* Proofs about Channels, for any channels, operations, pairs and groups.  *)
(***************************************************************************)
EXTENDS Channels, FiniteSetTheorems, WellFoundedInduction, TLAPS

(* What an operation begins with, whatever it is. *)
Starts(j, c) ==
    \/ \E f \in Forms : Insert(j, c, f) \/ Update(j, c, f)
    \/ Delete(j, c)
    \/ \E s \in Statuses : UpdateAbilityStatus(j, c, s)

(* The steps there are. *)
LEMMA NextCases ==
    ASSUME Next
    PROVE  \/ \E j \in Jobs, c \in ChannelIds : ~panicked /\ Starts(j, c)
           \/ \E j \in Jobs : ~panicked /\ OperationStep(j)
           \/ DeleteDisabledChannel
           \/ ReadRows
           \/ BuildTable
<1>1. ASSUME NEW j \in Jobs, Operation(j)
      PROVE  \E c \in ChannelIds : ~panicked /\ Starts(j, c)
  <2>1. ASSUME NEW c \in ChannelIds, NEW s \in Statuses, NEW o \in Offers \cup {{}},
               NEW p \in Priorities
        PROVE  [status |-> s, offers |-> o, prio |-> p] \in Forms
    BY ChannelAssumption DEF Forms
  <2> QED
    BY <1>1, <2>1 DEF Operation, Starts
<1> QED
  BY <1>1 DEF Next, SyncChannelCache, OperationStep

-----------------------------------------------------------------------------
(* Types.                                                                  *)

(* An operation under way works on a channel that has been created. *)
TypeInv == TypeOK /\ \A j \in Jobs : pc[j] # "idle" => job[j] \in known

(* The form of an operation that has none is a form. *)
LEMMA NoFormType == NoForm \in Forms
BY DEF NoForm, Forms, Statuses

(* AddAbilities makes abilities. *)
LEMMA AbilitiesType ==
    ASSUME NEW c \in ChannelIds, NEW f \in Forms
    PROVE  AbilitiesOf(c, f) \subseteq Abilities
<1>1. ASSUME NEW k \in f.offers
      PROVE  [ch |-> c, key |-> k, on |-> f.status = "enabled", prio |-> f.prio] \in Abilities
  <2>1. (f.status = "enabled") \in BOOLEAN
    OBVIOUS
  <2>2. k \in Keys /\ f.prio \in Int
    BY DEF Forms
  <2> QED
    BY <2>1, <2>2, Zenon DEF Abilities
<1> QED
  BY <1>1 DEF AbilitiesOf

(* What an operation begins with keeps the types, and begins on a channel that is known. *)
LEMMA TypeStart ==
    ASSUME TypeInv, NEW j \in Jobs, NEW c \in ChannelIds, Starts(j, c)
    PROVE  TypeInv'
<1> USE DEF TypeInv, TypeOK, Begin
<1>1. jobs < MaxJobs => jobs + 1 \in 0..MaxJobs
  BY ChannelAssumption
<1>2. ASSUME NEW f \in Forms, Insert(j, c, f) PROVE TypeInv'
  <2>1. channels' \subseteq known' /\ known' \subseteq ChannelIds /\ row' \in [ChannelIds -> Forms]
    BY <1>2 DEF Insert
  <2>2. pc' \in [Jobs -> {"idle", "reread", "delete", "renew", "add", "status"}]
        /\ job' \in [Jobs -> ChannelIds \cup {NoChannel}] /\ form' \in [Jobs -> Forms]
    BY <1>2 DEF Insert
  <2>3. \A i \in Jobs : pc'[i] # "idle" => job'[i] \in known'
    BY <1>2 DEF Insert
  <2> QED
    BY <1>1, <1>2, <2>1, <2>2, <2>3 DEF Insert, syncVars
<1>3. ASSUME NEW f \in Forms, Update(j, c, f) PROVE TypeInv'
  <2>1. [row[c] EXCEPT !.status = f.status] \in Forms
    BY DEF Forms
  <2>2. row' \in [ChannelIds -> Forms]
    BY <1>3, <2>1 DEF Update
  <2> QED
    BY <1>1, <1>3, <2>2 DEF Update, syncVars
<1>4. CASE Delete(j, c)
  BY <1>1, <1>4 DEF Delete, MarkOverlap, syncVars
<1>5. ASSUME NEW s \in Statuses, UpdateAbilityStatus(j, c, s) PROVE TypeInv'
  <2>1. [form[j] EXCEPT !.status = s] \in Forms
    BY DEF Forms
  <2>2. \A a \in Of(c) : [a EXCEPT !.on = (s = "enabled")] \in Abilities
    BY DEF Of, Abilities
  <2>3. abilities' \subseteq Abilities
    BY <1>5, <2>2 DEF UpdateAbilityStatus
  <2> QED
    BY <1>1, <1>5, <2>1, <2>3 DEF UpdateAbilityStatus, MarkOverlap, syncVars
<1> QED
  BY <1>2, <1>3, <1>4, <1>5 DEF Starts

(* So do its further steps. *)
LEMMA TypeContinues ==
    ASSUME TypeInv, NEW j \in Jobs, OperationStep(j)
    PROVE  TypeInv'
<1> USE DEF TypeInv, TypeOK
<1>1. CASE Reread(j)
  BY <1>1 DEF Reread, Goto, syncVars
<1>2. CASE DeleteAbilities(j)
  BY <1>2, NoFormType DEF DeleteAbilities, Goto, Finish, syncVars
<1>3. CASE AddAbilities(j)
  <2>1. AbilitiesOf(job[j], form[j]) \subseteq Abilities
    BY <1>3, AbilitiesType DEF AddAbilities
  <2>2. abilities' \subseteq Abilities
    BY <1>3, <2>1 DEF AddAbilities, Create
  <2> QED
    BY <1>3, <2>2, NoFormType DEF AddAbilities, Finish, syncVars
<1>4. CASE UpdateRowStatus(j)
  <2>1. \A c \in ChannelIds : [row[c] EXCEPT !.status = form[j].status] \in Forms
    BY DEF Forms
  <2>2. row' \in [ChannelIds -> Forms]
    BY <1>4, <2>1 DEF UpdateRowStatus
  <2> QED
    BY <1>4, <2>2, NoFormType DEF UpdateRowStatus, Finish, syncVars
<1> QED
  BY <1>1, <1>2, <1>3, <1>4 DEF OperationStep

(* So do the purge and the sync goroutine. *)
LEMMA TypeSync ==
    ASSUME TypeInv, DeleteDisabledChannel \/ ReadRows \/ BuildTable
    PROVE  TypeInv'
<1> USE DEF TypeInv, TypeOK
<1>1. CASE DeleteDisabledChannel
  BY <1>1, ChannelAssumption DEF DeleteDisabledChannel, syncVars
<1>2. CASE ReadRows
  BY <1>2 DEF ReadRows, EnabledRows, opVars
<1>3. CASE BuildTable
  <2>1. CASE UNCHANGED table
    BY <1>3, <2>1 DEF BuildTable, opVars
  <2>2. CASE table' = [k \in Keys |-> {[ch |-> r.ch, prio |-> r.row.prio] :
                                         r \in {q \in rows : k \in q.row.offers}}]
    <3>1. \A r \in rows : [ch |-> r.ch, prio |-> r.row.prio] \in [ch : ChannelIds, prio : Int]
      BY DEF Forms
    <3>2. table' \in [Keys -> SUBSET [ch : ChannelIds, prio : Int]]
      BY <2>2, <3>1
    <3>3. panicked' \in BOOLEAN
      BY <1>3, Zenon DEF BuildTable
    <3>4. UNCHANGED <<channels, row, known, abilities, pc, job, form, jobs, rows, since, drifted>>
          /\ sync' = "sleep"
      BY <1>3 DEF BuildTable, opVars
    <3> QED
      BY <3>2, <3>3, <3>4
  <2> QED
    BY <1>3, <2>1, <2>2 DEF BuildTable
<1> QED
  BY <1>1, <1>2, <1>3

(* Together: the types are invariant. *)
LEMMA TypeInvHolds == Spec => []TypeInv
<1>1. Init => TypeInv
  <2> SUFFICES ASSUME Init PROVE TypeInv
    OBVIOUS
  <2>1. table \in [Keys -> SUBSET [ch : ChannelIds, prio : Int]] /\ panicked \in BOOLEAN
    BY DEF Init
  <2>2. jobs \in 0..MaxJobs
    BY ChannelAssumption DEF Init
  <2>3. row \in [ChannelIds -> Forms] /\ form \in [Jobs -> Forms]
    BY NoFormType DEF Init
  <2> QED
    BY <2>1, <2>2, <2>3 DEF Init, TypeInv, TypeOK
<1>2. TypeInv /\ [Next]_vars => TypeInv'
  <2>1. CASE Next
    BY <2>1, NextCases, TypeStart, TypeContinues, TypeSync
  <2>2. CASE UNCHANGED vars
    BY <2>2 DEF vars, opVars, syncVars, TypeInv, TypeOK
  <2> QED
    BY <2>1, <2>2
<1> QED
  BY <1>1, <1>2, PTL DEF Spec

(* Rows, abilities, table and the locals of operations keep their types. *)
THEOREM TypeCorrect == Spec => []TypeOK
BY TypeInvHolds, PTL DEF TypeInv

-----------------------------------------------------------------------------
(* Drift.  A channel on which operations do not overlap has at most one at *)
(* work on it, and how far that one has come says what the abilities are.  *)

WorksOn(j, c) == pc[j] # "idle" /\ job[j] = c

Midway(j, c) ==
    /\ pc[j] \in {"reread", "renew", "add"} => c \in channels
    /\ pc[j] \in {"renew", "add"} => form[j] = row[c]
    /\ pc[j] = "add" => Of(c) = {}
    /\ pc[j] = "delete" => c \notin channels
    /\ pc[j] = "status" =>
          Of(c) = IF c \in channels
                  THEN AbilitiesOf(c, [row[c] EXCEPT !.status = form[j].status]) ELSE {}

InStep(c) ==
    /\ \A i, j \in Jobs : WorksOn(i, c) /\ WorksOn(j, c) => i = j
    /\ \A j \in Jobs : WorksOn(j, c) => Midway(j, c)
    /\ ~Busy(c) => Matches(c)

ChannelInv(c) ==
    /\ c \notin known => Of(c) = {}
    /\ c \notin drifted => InStep(c)

\* What a step that does not work on channel c leaves alone.
LeavesAlone(c) ==
    /\ c \in known => c \in known'
    /\ c \in channels' <=> c \in channels
    /\ row'[c] = row[c]
    /\ Of(c)' = Of(c)
    /\ c \in drifted => c \in drifted'
    /\ \A j \in Jobs : /\ WorksOn(j, c)' = WorksOn(j, c)
                       /\ WorksOn(j, c) => pc'[j] = pc[j] /\ form'[j] = form[j]

(* A channel a step leaves alone stays in step. *)
LEMMA Alone ==
    ASSUME NEW c \in ChannelIds, ChannelInv(c), LeavesAlone(c)
    PROVE  ChannelInv(c)'
<1>1. c \notin known' => Of(c)' = {}
  BY DEF ChannelInv, LeavesAlone
<1>2. ASSUME c \notin drifted' PROVE InStep(c)'
  <2>1. InStep(c)
    BY <1>2 DEF ChannelInv, LeavesAlone
  <2>2. \A i, j \in Jobs : WorksOn(i, c)' /\ WorksOn(j, c)' => i = j
    BY <2>1 DEF InStep, LeavesAlone
  <2>3. ASSUME NEW j \in Jobs, WorksOn(j, c)' PROVE Midway(j, c)'
    <3>1. Midway(j, c) /\ pc'[j] = pc[j] /\ form'[j] = form[j]
      BY <2>1, <2>3 DEF InStep, LeavesAlone
    <3> QED
      BY <3>1 DEF Midway, LeavesAlone, AbilitiesOf
  <2>4. ~Busy(c)' => Matches(c)'
    <3>1. Busy(c)' <=> Busy(c)
      BY DEF LeavesAlone, Busy, WorksOn
    <3> QED
      BY <2>1, <3>1 DEF InStep, Matches, LeavesAlone, AbilitiesOf
  <2> QED
    BY <2>2, <2>3, <2>4 DEF InStep
<1> QED
  BY <1>1, <1>2 DEF ChannelInv

(* Operations begin on a channel in step with nothing else at work on it. *)
LEMMA StartsInStep ==
    ASSUME TypeInv, NEW j \in Jobs, NEW d \in ChannelIds, Starts(j, d), ChannelInv(d)
    PROVE  ChannelInv(d)'
<1> USE DEF TypeInv, TypeOK
<1>1. \A i \in Jobs : d \notin known => ~WorksOn(i, d)
  BY DEF WorksOn
<1>2. pc'[j] # "idle" /\ job'[j] = d /\ \A i \in Jobs \ {j} : WorksOn(i, d)' = WorksOn(i, d)
  BY DEF Starts, Insert, Update, Delete, UpdateAbilityStatus, Begin, WorksOn
<1>3. d \in known'
  BY DEF Starts, Insert, Update, Delete, UpdateAbilityStatus
<1>4. WorksOn(j, d)'
  BY <1>2 DEF WorksOn
<1>5. ASSUME d \notin drifted', NEW i \in Jobs, WorksOn(i, d)' PROVE i = j
  <2>1. ASSUME i # j PROVE FALSE
    <3>1. WorksOn(i, d) /\ d \in known /\ Busy(d)
      BY <1>1, <1>2, <1>5, <2>1 DEF WorksOn, Busy
    <3> QED
      BY <1>5, <3>1 DEF Starts, Insert, Update, Delete, UpdateAbilityStatus, MarkOverlap
  <2> QED
    BY <2>1
<1>6. ASSUME d \notin drifted' PROVE Midway(j, d)'
  <2>1. ASSUME NEW f \in Forms, Insert(j, d, f) PROVE Midway(j, d)'
    <3>1. Of(d) = {} /\ abilities' = abilities
      BY <2>1 DEF ChannelInv, Insert
    <3>2. Of(d)' = {}
      BY <3>1 DEF Of
    <3>3. pc'[j] = "add" /\ form'[j] = f /\ row'[d] = f /\ d \in channels'
      BY <2>1 DEF Insert, Begin
    <3> QED
      BY <3>2, <3>3 DEF Midway
  <2>2. ASSUME NEW f \in Forms, Update(j, d, f) PROVE Midway(j, d)'
    <3>1. pc'[j] = "reread" /\ d \in channels'
      BY <1>6, <2>2 DEF Update, Begin
    <3> QED
      BY <3>1 DEF Midway
  <2>3. CASE Delete(j, d)
    <3>1. pc'[j] = "delete" /\ d \notin channels'
      BY <2>3 DEF Delete, Begin
    <3> QED
      BY <3>1 DEF Midway
  <2>4. ASSUME NEW s \in Statuses, UpdateAbilityStatus(j, d, s) PROVE Midway(j, d)'
    <3>1. ~Busy(d) /\ d \notin drifted
      BY <1>6, <2>4 DEF UpdateAbilityStatus, MarkOverlap
    <3>2. Matches(d)
      BY <3>1 DEF ChannelInv, InStep
    <3>3. pc'[j] = "status" /\ form'[j].status = s /\ row' = row /\ channels' = channels
      BY <2>4 DEF UpdateAbilityStatus, Begin, Forms
    <3>4. Of(d)' = {[a EXCEPT !.on = (s = "enabled")] : a \in Of(d)}
      BY <2>4 DEF UpdateAbilityStatus, Of, Abilities
    <3>5. CASE d \in channels
      <4>1. Of(d) = AbilitiesOf(d, row[d])
        BY <3>2, <3>5 DEF Matches
      <4>2. \A k : [[ch |-> d, key |-> k, on |-> row[d].status = "enabled",
                     prio |-> row[d].prio] EXCEPT !.on = (s = "enabled")]
                   = [ch |-> d, key |-> k, on |-> s = "enabled", prio |-> row[d].prio]
        OBVIOUS
      <4>3. Of(d)' = {[ch |-> d, key |-> k, on |-> s = "enabled", prio |-> row[d].prio] :
                          k \in row[d].offers}
        <5> DEFINE Old(k) == [ch |-> d, key |-> k, on |-> row[d].status = "enabled",
                              prio |-> row[d].prio]
        <5>1. Of(d) = {Old(k) : k \in row[d].offers}
          BY <4>1 DEF AbilitiesOf
        <5>2. Of(d)' = {[Old(k) EXCEPT !.on = (s = "enabled")] : k \in row[d].offers}
          <6> HIDE DEF Old
          <6> QED
            BY <3>4, <5>1
        <5> DEFINE New(k) == [ch |-> d, key |-> k, on |-> s = "enabled", prio |-> row[d].prio]
        <5>3. \A k : [Old(k) EXCEPT !.on = (s = "enabled")] = New(k)
          BY <4>2
        <5>4. Of(d)' = {New(k) : k \in row[d].offers}
          <6> HIDE DEF Old, New
          <6> QED
            BY <5>2, <5>3
        <5> QED
          BY <5>4
      <4>4. [row[d] EXCEPT !.status = s].offers = row[d].offers
            /\ [row[d] EXCEPT !.status = s].prio = row[d].prio
            /\ [row[d] EXCEPT !.status = s].status = s
        BY DEF Forms
      <4>5. Of(d)' = AbilitiesOf(d, [row[d] EXCEPT !.status = s])
        BY <4>3, <4>4 DEF AbilitiesOf
      <4> QED
        BY <3>3, <3>5, <4>5 DEF Midway, AbilitiesOf
    <3>6. CASE d \notin channels
      <4>1. Of(d)' = {}
        BY <3>2, <3>4, <3>6 DEF Matches
      <4> QED
        BY <3>3, <3>6, <4>1 DEF Midway
    <3> QED
      BY <3>5, <3>6
  <2> QED
    BY <2>1, <2>2, <2>3, <2>4 DEF Starts
<1>7. ASSUME d \notin drifted' PROVE InStep(d)'
  BY <1>4, <1>5, <1>6, <1>7 DEF InStep, Busy, WorksOn
<1> QED
  BY <1>3, <1>7 DEF ChannelInv

(* An operation leaves the channels it does not begin on alone. *)
LEMMA StartsAlone ==
    ASSUME TypeInv, NEW j \in Jobs, NEW d \in ChannelIds, Starts(j, d),
           NEW c \in ChannelIds \ {d}, ChannelInv(c)
    PROVE  ChannelInv(c)'
<1> USE DEF TypeInv, TypeOK
<1>1. \A i \in Jobs : /\ WorksOn(i, c)' = WorksOn(i, c)
                      /\ WorksOn(i, c) => pc'[i] = pc[i] /\ form'[i] = form[i]
  BY DEF Starts, Insert, Update, Delete, UpdateAbilityStatus, Begin, WorksOn
<1>2. Of(c)' = Of(c)
  <2>1. ASSUME NEW s \in Statuses, UpdateAbilityStatus(j, d, s) PROVE Of(c)' = Of(c)
    <3>1. \A a \in Of(d) : [a EXCEPT !.on = (s = "enabled")].ch = d
      BY DEF Of, Abilities
    <3> QED
      BY <2>1, <3>1 DEF UpdateAbilityStatus, Of
  <2>2. CASE abilities' = abilities
    BY <2>2 DEF Of
  <2> QED
    BY <2>1, <2>2 DEF Starts, Insert, Update, Delete
<1>3. row'[c] = row[c] /\ (c \in channels' <=> c \in channels)
  <2>1. ASSUME NEW f \in Forms, Insert(j, d, f)
        PROVE  row'[c] = row[c] /\ (c \in channels' <=> c \in channels)
    BY <2>1 DEF Insert
  <2>2. ASSUME NEW f \in Forms, Update(j, d, f)
        PROVE  row'[c] = row[c] /\ (c \in channels' <=> c \in channels)
    BY <2>2 DEF Update
  <2>3. CASE Delete(j, d)
    BY <2>3 DEF Delete
  <2>4. CASE UNCHANGED <<row, channels>>
    BY <2>4
  <2> QED
    BY <2>1, <2>2, <2>3, <2>4 DEF Starts, UpdateAbilityStatus
<1>4. (c \in known => c \in known') /\ (c \in drifted => c \in drifted')
  BY DEF Starts, Insert, Update, Delete, UpdateAbilityStatus, MarkOverlap
<1> QED
  BY <1>1, <1>2, <1>3, <1>4, Alone DEF LeavesAlone

(* The further steps of an operation keep the channel it works on in step. *)
LEMMA ContinuesInStep ==
    ASSUME TypeInv, NEW j \in Jobs, OperationStep(j),
           NEW d \in ChannelIds, job[j] = d, ChannelInv(d)
    PROVE  ChannelInv(d)'
<1> USE DEF TypeInv, TypeOK
<1>1. pc[j] # "idle" /\ d \in known /\ d \in known'
  BY DEF OperationStep, Reread, DeleteAbilities, AddAbilities, UpdateRowStatus
<1>2. drifted' = drifted
  BY DEF OperationStep, Reread, DeleteAbilities, AddAbilities, UpdateRowStatus
<1> SUFFICES ASSUME d \notin drifted PROVE InStep(d)'
  BY <1>1, <1>2 DEF ChannelInv
<1>3. InStep(d) /\ WorksOn(j, d) /\ Midway(j, d)
  BY <1>1 DEF ChannelInv, InStep, WorksOn
<1>4. \A i \in Jobs \ {j} : ~WorksOn(i, d)
  BY <1>3 DEF InStep
<1>5. \A i \in Jobs \ {j} : ~WorksOn(i, d)'
  BY <1>4 DEF OperationStep, Reread, DeleteAbilities, AddAbilities, UpdateRowStatus,
              Goto, Finish, WorksOn
<1>6. (WorksOn(j, d)' /\ Midway(j, d)') \/ (~WorksOn(j, d)' /\ Matches(d)')
  <2>1. CASE Reread(j)
    <3>1. pc'[j] = "renew" /\ job'[j] = d /\ form'[j] = row[d] /\ d \in channels
      BY <1>3, <2>1 DEF Reread, Goto, Midway
    <3>2. row' = row /\ channels' = channels
      BY <2>1 DEF Reread
    <3> QED
      BY <3>1, <3>2 DEF WorksOn, Midway
  <2>2. CASE DeleteAbilities(j) /\ pc[j] = "renew"
    <3>1. pc'[j] = "add" /\ job'[j] = d /\ form'[j] = row[d] /\ d \in channels
      BY <1>3, <2>2 DEF DeleteAbilities, Goto, Midway
    <3>2. row' = row /\ channels' = channels /\ Of(d)' = {}
      BY <2>2 DEF DeleteAbilities, Of
    <3> QED
      BY <3>1, <3>2 DEF WorksOn, Midway
  <2>3. CASE DeleteAbilities(j) /\ pc[j] = "delete"
    <3>1. pc'[j] = "idle" /\ d \notin channels
      BY <1>3, <2>3 DEF DeleteAbilities, Finish, Midway
    <3>2. channels' = channels /\ Of(d)' = {}
      BY <2>3 DEF DeleteAbilities, Of
    <3> QED
      BY <3>1, <3>2 DEF WorksOn, Matches
  <2>4. CASE AddAbilities(j)
    <3>1. pc'[j] = "idle" /\ d \in channels /\ form[j] = row[d] /\ Of(d) = {}
      BY <1>3, <2>4 DEF AddAbilities, Finish, Midway
    <3>2. channels' = channels /\ row' = row /\ abilities' = abilities \cup AbilitiesOf(d, row[d])
      BY <2>4, <3>1 DEF AddAbilities, Create
    <3>3. \A a \in AbilitiesOf(d, row[d]) : a.ch = d
      BY DEF AbilitiesOf
    <3>4. Of(d)' = AbilitiesOf(d, row[d])
      BY <3>1, <3>2, <3>3 DEF Of
    <3> QED
      BY <3>1, <3>2, <3>4 DEF WorksOn, Matches, AbilitiesOf
  <2>5. CASE UpdateRowStatus(j)
    <3>1. pc'[j] = "idle" /\ pc[j] = "status"
      BY <2>5 DEF UpdateRowStatus, Finish
    <3>2. abilities' = abilities /\ channels' = channels
      BY <2>5 DEF UpdateRowStatus
    <3>3. Of(d)' = Of(d)
      BY <3>2 DEF Of
    <3>4. d \in channels => row'[d] = [row[d] EXCEPT !.status = form[j].status]
      BY <1>1, <2>5 DEF UpdateRowStatus
    <3>5. Of(d)' = IF d \in channels
                   THEN AbilitiesOf(d, [row[d] EXCEPT !.status = form[j].status]) ELSE {}
      BY <1>3, <3>1, <3>3 DEF Midway
    <3>6. Matches(d)'
      <4>1. CASE d \in channels
        <5>1. Of(d)' = AbilitiesOf(d, row'[d])
          BY <3>4, <3>5, <4>1
        <5> QED
          BY <3>2, <4>1, <5>1 DEF Matches, AbilitiesOf
      <4>2. CASE d \notin channels
        BY <3>2, <3>5, <4>2 DEF Matches
      <4> QED
        BY <4>1, <4>2
    <3> QED
      BY <3>1, <3>6 DEF WorksOn
  <2> QED
    BY <2>1, <2>2, <2>3, <2>4, <2>5 DEF OperationStep, DeleteAbilities
<1> QED
  BY <1>5, <1>6 DEF InStep, Busy, WorksOn

(* They leave the other channels alone. *)
LEMMA ContinuesAlone ==
    ASSUME TypeInv, NEW j \in Jobs, OperationStep(j),
           NEW c \in ChannelIds, c # job[j], ChannelInv(c)
    PROVE  ChannelInv(c)'
<1> USE DEF TypeInv, TypeOK
<1>1. pc[j] # "idle" /\ job[j] \in ChannelIds
  BY DEF OperationStep, Reread, DeleteAbilities, AddAbilities, UpdateRowStatus
<1>2. \A i \in Jobs : /\ WorksOn(i, c)' = WorksOn(i, c)
                      /\ WorksOn(i, c) => pc'[i] = pc[i] /\ form'[i] = form[i]
  <2>1. ~WorksOn(j, c) /\ ~WorksOn(j, c)'
    BY <1>1 DEF OperationStep, Reread, DeleteAbilities, AddAbilities, UpdateRowStatus,
                Goto, Finish, WorksOn
  <2>2. \A i \in Jobs \ {j} : pc'[i] = pc[i] /\ job'[i] = job[i] /\ form'[i] = form[i]
    <3>1. CASE Reread(j)
      BY <3>1 DEF Reread, Goto
    <3>2. CASE DeleteAbilities(j)
      BY <3>2 DEF DeleteAbilities, Goto, Finish
    <3>3. CASE AddAbilities(j) \/ UpdateRowStatus(j)
      BY <3>3 DEF AddAbilities, UpdateRowStatus, Finish
    <3> QED
      BY <3>1, <3>2, <3>3 DEF OperationStep
  <2> QED
    BY <2>1, <2>2 DEF WorksOn
<1>3. Of(c)' = Of(c)
  <2>1. CASE DeleteAbilities(j)
    BY <2>1 DEF DeleteAbilities, Of
  <2>2. CASE AddAbilities(j)
    <3>1. \A a \in AbilitiesOf(job[j], form[j]) : a.ch = job[j]
      BY DEF AbilitiesOf
    <3> QED
      BY <2>2, <3>1 DEF AddAbilities, Create, Of
  <2>3. CASE Reread(j) \/ UpdateRowStatus(j)
    BY <2>3 DEF Reread, UpdateRowStatus, Of
  <2> QED
    BY <2>1, <2>2, <2>3 DEF OperationStep
<1>4. row'[c] = row[c]
  BY DEF OperationStep, Reread, DeleteAbilities, AddAbilities, UpdateRowStatus
<1>5. channels' = channels /\ known' = known /\ drifted' = drifted
  BY DEF OperationStep, Reread, DeleteAbilities, AddAbilities, UpdateRowStatus
<1> QED
  BY <1>2, <1>3, <1>4, <1>5, Alone DEF LeavesAlone

(* Purging and syncing leave the channels they do not purge alone. *)
LEMMA SyncAlone ==
    ASSUME TypeInv, DeleteDisabledChannel \/ ReadRows \/ BuildTable \/ UNCHANGED vars,
           NEW c \in ChannelIds, ChannelInv(c)
    PROVE  ChannelInv(c)'
<1>1. \A i \in Jobs : /\ WorksOn(i, c)' = WorksOn(i, c)
                      /\ pc'[i] = pc[i] /\ form'[i] = form[i]
  BY DEF DeleteDisabledChannel, ReadRows, BuildTable, vars, opVars, WorksOn
<1>2. Of(c)' = Of(c) /\ row' = row /\ known' = known
  BY DEF DeleteDisabledChannel, ReadRows, BuildTable, vars, Of
<1>3. c \in drifted => c \in drifted'
  BY DEF DeleteDisabledChannel, ReadRows, BuildTable, vars
<1>4. CASE c \in channels' <=> c \in channels
  BY <1>1, <1>2, <1>3, <1>4, Alone DEF LeavesAlone
<1>5. CASE ~(c \in channels' <=> c \in channels)
  <2>1. c \in drifted'
    BY <1>5 DEF DeleteDisabledChannel, ReadRows, BuildTable, vars
  <2> QED
    BY <1>2, <2>1 DEF ChannelInv
<1> QED
  BY <1>4, <1>5

(* Every channel is in step at all times. *)
LEMMA AllInStep == Spec => [](\A c \in ChannelIds : ChannelInv(c))
<1> DEFINE AllInv == \A c \in ChannelIds : ChannelInv(c)
<1>1. Init => AllInv
  BY DEF Init, ChannelInv, InStep, WorksOn, Matches, Of
<1>2. TypeInv /\ AllInv /\ [Next]_vars => AllInv'
  <2> SUFFICES ASSUME TypeInv, AllInv, [Next]_vars, NEW c \in ChannelIds
               PROVE  ChannelInv(c)'
    OBVIOUS
  <2>1. ASSUME NEW j \in Jobs, NEW d \in ChannelIds, Starts(j, d) PROVE ChannelInv(c)'
    BY <2>1, StartsInStep, StartsAlone
  <2>2. ASSUME NEW j \in Jobs, OperationStep(j) PROVE ChannelInv(c)'
    BY <2>2, ContinuesInStep, ContinuesAlone
  <2> QED
    BY <2>1, <2>2, NextCases, SyncAlone
<1> HIDE DEF AllInv
<1> QED
  <2>1. Spec => []AllInv
    BY <1>1, <1>2, TypeInvHolds, PTL DEF Spec
  <2> QED
    BY <2>1 DEF AllInv

(* Abilities drift from the rows only where operations overlapped, a channel was *)
(* saved after its deletion, or was purged.                                      *)
THEOREM DriftHolds == Spec => []DriftNeedsOverlap
<1>1. (\A c \in ChannelIds : ChannelInv(c)) => DriftNeedsOverlap
  BY DEF ChannelInv, InStep, DriftNeedsOverlap
<1> QED
  BY <1>1, AllInStep, PTL

-----------------------------------------------------------------------------
(* The table.  What has been read of a channel nobody has written since is *)
(* what its row says, and so is what the table says of it.                 *)

RowsFollow(c) ==
    {r \in rows : r.ch = c} = IF Enabled(c) THEN {[ch |-> c, row |-> row[c]]} ELSE {}

TableFollows(c) ==
    \A k \in Keys :
        {e \in table[k] : e.ch = c} =
            IF Enabled(c) /\ k \in row[c].offers
            THEN {[ch |-> c, prio |-> row[c].prio]} ELSE {}

SyncInv ==
    /\ \A c \in ChannelIds : Busy(c) => c \in since
    /\ \A c \in ChannelIds \ since : sync = "read" => RowsFollow(c)
    /\ \A c \in ChannelIds \ since : sync = "sleep" /\ ~panicked => TableFollows(c)
    /\ PanicNeedsRewrite

(* Whatever writes a channel, or is in the middle of it, is noted. *)
LEMMA WritersNoted ==
    ASSUME TypeInv, SyncInv, \/ \E j \in Jobs, d \in ChannelIds : Starts(j, d)
                             \/ \E j \in Jobs : OperationStep(j)
                             \/ DeleteDisabledChannel
    PROVE  /\ since \subseteq since'
           /\ UNCHANGED <<sync, rows, table, panicked>>
           /\ drifted \subseteq drifted'
           /\ \A c \in ChannelIds : Busy(c)' => c \in since'
           /\ \A c \in ChannelIds \ since' : row'[c] = row[c] /\ (Enabled(c)' <=> Enabled(c))
<1> DEFINE Noted ==
       /\ since \subseteq since'
       /\ UNCHANGED <<sync, rows, table, panicked>>
       /\ drifted \subseteq drifted'
       /\ \A c \in ChannelIds : Busy(c)' => c \in since'
       /\ \A c \in ChannelIds \ since' : row'[c] = row[c] /\ (Enabled(c)' <=> Enabled(c))
<1> USE DEF TypeInv, TypeOK
<1>1. \A c \in ChannelIds, j \in Jobs : WorksOn(j, c) => c \in since
  BY DEF SyncInv, Busy, WorksOn
<1>2. ASSUME NEW j \in Jobs, NEW d \in ChannelIds, Starts(j, d) PROVE Noted
  <2>1. since' = since \cup {d} /\ UNCHANGED <<sync, rows, table, panicked>>
    BY <1>2 DEF Starts, Insert, Update, Delete, UpdateAbilityStatus, Begin, syncVars
  <2>2. drifted \subseteq drifted'
    BY <1>2 DEF Starts, Insert, Update, Delete, UpdateAbilityStatus, MarkOverlap
  <2>3. job'[j] = d /\ \A i \in Jobs \ {j} : pc'[i] = pc[i] /\ job'[i] = job[i]
    BY <1>2 DEF Starts, Insert, Update, Delete, UpdateAbilityStatus, Begin
  <2>4. \A c \in ChannelIds : Busy(c)' => c \in since'
    BY <1>1, <2>1, <2>3 DEF Busy, WorksOn
  <2>5. ASSUME NEW c \in ChannelIds \ {d}
        PROVE  row'[c] = row[c] /\ (c \in channels' <=> c \in channels)
    <3>1. ASSUME NEW f \in Forms, Insert(j, d, f)
          PROVE  row'[c] = row[c] /\ (c \in channels' <=> c \in channels)
      BY <3>1 DEF Insert
    <3>2. ASSUME NEW f \in Forms, Update(j, d, f)
          PROVE  row'[c] = row[c] /\ (c \in channels' <=> c \in channels)
      BY <3>2 DEF Update
    <3>3. CASE Delete(j, d) \/ \E s \in Statuses : UpdateAbilityStatus(j, d, s)
      BY <3>3 DEF Delete, UpdateAbilityStatus
    <3> QED
      BY <1>2, <3>1, <3>2, <3>3 DEF Starts
  <2> QED
    BY <2>1, <2>2, <2>4, <2>5 DEF Enabled
<1>3. ASSUME NEW j \in Jobs, OperationStep(j) PROVE Noted
  <2>1. job[j] \in ChannelIds
    BY <1>3 DEF OperationStep, Reread, DeleteAbilities, AddAbilities, UpdateRowStatus
  <2>2. since' = since \cup {job[j]}
    BY <1>3 DEF OperationStep, Reread, DeleteAbilities, AddAbilities, UpdateRowStatus, Goto, Finish
  <2>3. UNCHANGED <<sync, rows, table, panicked, drifted, channels>>
    BY <1>3 DEF OperationStep, Reread, DeleteAbilities, AddAbilities, UpdateRowStatus, syncVars
  <2>4. \A i \in Jobs, c \in ChannelIds : WorksOn(i, c)' => c \in since'
    <3>1. \A i \in Jobs \ {j} : pc'[i] = pc[i] /\ job'[i] = job[i]
      BY <1>3 DEF OperationStep, Reread, DeleteAbilities, AddAbilities, UpdateRowStatus,
                  Goto, Finish
    <3>2. pc'[j] # "idle" => job'[j] = job[j]
      BY <1>3 DEF OperationStep, Reread, DeleteAbilities, AddAbilities, UpdateRowStatus,
                  Goto, Finish
    <3> QED
      BY <1>1, <2>2, <3>1, <3>2 DEF WorksOn
  <2>5. \A c \in ChannelIds \ {job[j]} : row'[c] = row[c]
    BY <1>3, <2>1 DEF OperationStep, Reread, DeleteAbilities, AddAbilities, UpdateRowStatus
  <2> QED
    BY <2>2, <2>3, <2>4, <2>5 DEF Busy, WorksOn, Enabled
<1>4. CASE DeleteDisabledChannel
  <2>1. UNCHANGED <<row, pc, job, sync, rows, table, panicked>> /\ since \subseteq since'
        /\ drifted \subseteq drifted'
    BY <1>4 DEF DeleteDisabledChannel, syncVars
  <2>2. \A c \in ChannelIds \ since' : c \in channels' <=> c \in channels
    BY <1>4 DEF DeleteDisabledChannel
  <2> QED
    BY <1>1, <2>1, <2>2 DEF Busy, WorksOn, Enabled
<1> QED
  BY <1>2, <1>3, <1>4

(* When nothing was written since the rows were read and no abilities drifted, *)
(* every group of a row that was read has an ability.                          *)
LEMMA GroupsKnown ==
    ASSUME TypeInv, SyncInv, \A c \in ChannelIds : ChannelInv(c),
           sync = "read", GroupMissing
    PROVE  since # {} \/ drifted # {}
<1> SUFFICES ASSUME since = {}, drifted = {} PROVE FALSE
  OBVIOUS
<1>1. PICK r \in rows, k \in Keys :
         k \in r.row.offers /\ GroupOf[k] \notin {GroupOf[a.key] : a \in abilities}
  BY DEF GroupMissing
<1>2. r.ch \in ChannelIds
  BY DEF TypeInv, TypeOK
<1>3. RowsFollow(r.ch) /\ ~Busy(r.ch)
  BY <1>2 DEF SyncInv
<1>4. Enabled(r.ch) /\ r.row = row[r.ch]
  BY <1>3 DEF RowsFollow
<1>5. Of(r.ch) = AbilitiesOf(r.ch, row[r.ch])
  BY <1>2, <1>3, <1>4 DEF ChannelInv, InStep, Matches, Enabled
<1> DEFINE a == [ch |-> r.ch, key |-> k, on |-> row[r.ch].status = "enabled",
                 prio |-> row[r.ch].prio]
<1>6. a \in AbilitiesOf(r.ch, row[r.ch])
  BY <1>1, <1>4 DEF AbilitiesOf
<1>7. a \in abilities /\ a.key = k
  BY <1>5, <1>6 DEF Of
<1> QED
  BY <1>1, <1>7

(* What is noted, read and built keeps up with the rows at all times. *)
LEMMA SyncInvHolds == Spec => []SyncInv
<1> DEFINE AllInv == \A c \in ChannelIds : ChannelInv(c)
<1>1. Init => SyncInv
  BY DEF Init, SyncInv, Busy, TableFollows, Enabled, PanicNeedsRewrite
<1>2. TypeInv /\ AllInv /\ SyncInv /\ [Next]_vars => SyncInv'
  <2> SUFFICES ASSUME TypeInv, AllInv, SyncInv, [Next]_vars PROVE SyncInv'
    OBVIOUS
  <2>1. CASE \/ \E j \in Jobs, d \in ChannelIds : Starts(j, d)
             \/ \E j \in Jobs : OperationStep(j)
             \/ DeleteDisabledChannel
    <3>1. /\ since \subseteq since'
          /\ UNCHANGED <<sync, rows, table, panicked>>
          /\ drifted \subseteq drifted'
          /\ \A c \in ChannelIds : Busy(c)' => c \in since'
          /\ \A c \in ChannelIds \ since' : row'[c] = row[c] /\ (Enabled(c)' <=> Enabled(c))
      BY <2>1, WritersNoted
    <3>2. \A c \in ChannelIds \ since' : sync' = "read" => RowsFollow(c)'
      BY <3>1 DEF SyncInv, RowsFollow
    <3>3. \A c \in ChannelIds \ since' : sync' = "sleep" /\ ~panicked' => TableFollows(c)'
      BY <3>1 DEF SyncInv, TableFollows
    <3>4. PanicNeedsRewrite'
      BY <3>1 DEF SyncInv, PanicNeedsRewrite
    <3> QED
      BY <3>1, <3>2, <3>3, <3>4 DEF SyncInv
  <2>2. CASE ReadRows
    <3>1. \A c \in ChannelIds : Busy(c)' <=> Busy(c)
      BY <2>2 DEF ReadRows, opVars, Busy
    <3>2. \A c \in ChannelIds : Busy(c)' => c \in since'
      BY <2>2, <3>1 DEF ReadRows
    <3>3. \A c \in ChannelIds : RowsFollow(c)'
      BY <2>2 DEF ReadRows, EnabledRows, RowsFollow, Enabled
    <3> QED
      BY <2>2, <3>2, <3>3 DEF SyncInv, ReadRows, PanicNeedsRewrite
  <2>3. CASE BuildTable
    <3>1. \A c \in ChannelIds : Busy(c)' <=> Busy(c)
      BY <2>3 DEF BuildTable, opVars, Busy
    <3>2. ASSUME NEW c \in ChannelIds \ since, ~panicked' PROVE TableFollows(c)'
      <4>1. CASE ~GroupMissing
        <5>1. RowsFollow(c) /\ UNCHANGED <<channels, row>>
          BY <2>3 DEF BuildTable, SyncInv
        <5> SUFFICES ASSUME NEW k \in Keys
                     PROVE  {e \in table'[k] : e.ch = c} =
                                IF Enabled(c) /\ k \in row[c].offers
                                THEN {[ch |-> c, prio |-> row[c].prio]} ELSE {}
          BY <5>1 DEF TableFollows, Enabled
        <5>2. table'[k] = {[ch |-> r.ch, prio |-> r.row.prio] : r \in {q \in rows : k \in q.row.offers}}
          BY <2>3, <4>1 DEF BuildTable
        <5>3. \A e \in table'[k] : e.ch = c =>
                 Enabled(c) /\ k \in row[c].offers /\ e = [ch |-> c, prio |-> row[c].prio]
          BY <5>1, <5>2 DEF RowsFollow
        <5>4. Enabled(c) /\ k \in row[c].offers => [ch |-> c, prio |-> row[c].prio] \in table'[k]
          <6>1. Enabled(c) => [ch |-> c, row |-> row[c]] \in rows
            BY <5>1 DEF RowsFollow
          <6> QED
            BY <5>2, <6>1
        <5> QED
          BY <5>3, <5>4
      <4> QED
        BY <2>3, <3>2, <4>1 DEF BuildTable
    <3>3. PanicNeedsRewrite'
      BY <2>3, GroupsKnown DEF BuildTable, SyncInv, PanicNeedsRewrite
    <3> QED
      BY <2>3, <3>1, <3>2, <3>3 DEF SyncInv, BuildTable
  <2>4. CASE UNCHANGED vars
    BY <2>4 DEF vars, opVars, syncVars, SyncInv, Busy, RowsFollow, TableFollows, Enabled,
                PanicNeedsRewrite
  <2> QED
    BY <2>1, <2>2, <2>3, <2>4, NextCases
<1> HIDE DEF AllInv
<1> QED
  <2>1. Spec => []AllInv
    BY AllInStep DEF AllInv
  <2> QED
    BY <1>1, <1>2, <2>1, TypeInvHolds, PTL DEF Spec

(* The sync goroutine can only panic while a channel it has read is rewritten, or *)
(* after abilities drifted.                                                       *)
THEOREM PanicHolds == Spec => []PanicNeedsRewrite
BY SyncInvHolds, PTL DEF SyncInv

(* While the sync loop sleeps the table follows the rows nobody has written since. *)
THEOREM TableHolds == Spec => []TableFollowsRows
<1>1. SyncInv => TableFollowsRows
  BY DEF SyncInv, TableFollows, TableFollowsRows
<1> QED
  BY <1>1, SyncInvHolds, PTL

-----------------------------------------------------------------------------
(* Routing.  On a fresh table both routers choose from the same candidates. *)

(* Of finitely many one has the highest priority. *)
LEMMA HighestExists ==
    ASSUME NEW S, IsFiniteSet(S), S # {}, NEW p \in [S -> Int]
    PROVE  \E m \in S : \A n \in S : p[m] >= p[n]
<1> DEFINE Above(m) == {n \in S : p[n] > p[m]}
           T == {Above(m) : m \in S}
<1>1. IsWellFoundedOn(StrictSubsetOrdering(S), SUBSET S)
  BY FS_StrictSubsetOrderingWellFounded, FS_FiniteSubsetsOfFinite
<1>2. T \subseteq SUBSET S /\ T # {}
  <2>1. \A m \in S : Above(m) \in SUBSET S /\ Above(m) \in T
    OBVIOUS
  <2> HIDE DEF Above
  <2> QED
    BY <2>1
<1>3. PICK x \in T : \A y \in T : <<y, x>> \notin StrictSubsetOrdering(S)
  <2> HIDE DEF T
  <2> QED
    BY <1>1, <1>2, WFMin
<1>4. PICK m \in S : x = Above(m)
  OBVIOUS
<1>5. ASSUME NEW n \in S, ~(p[m] >= p[n]) PROVE FALSE
  <2>1. n \in Above(m) /\ n \notin Above(n)
    BY <1>5
  <2>2. Above(n) \subseteq Above(m)
    BY <1>5
  <2>3. <<Above(n), Above(m)>> \in StrictSubsetOrdering(S)
    <3>1. Above(n) \in SUBSET S /\ Above(m) \in SUBSET S /\ Above(n) # Above(m)
      BY <2>1
    <3> HIDE DEF Above
    <3> QED
      BY <2>2, <3>1 DEF StrictSubsetOrdering
  <2>4. Above(n) \in T
    OBVIOUS
  <2> QED
    BY <1>3, <1>4, <2>3, <2>4
<1> QED
  BY <1>5

On(k) == {a \in abilities : a.key = k /\ a.on}

(* A fresh table has, for every pair, what the abilities that are on say. *)
LEMMA TableIsAbilities ==
    ASSUME TypeInv, SyncInv, \A c \in ChannelIds : ChannelInv(c), Fresh, NEW k \in Keys
    PROVE  /\ \A e \in table[k] : \E a \in On(k) : a.ch = e.ch /\ a.prio = e.prio
           /\ \A a \in On(k) : \E e \in table[k] : a.ch = e.ch /\ a.prio = e.prio
<1>1. \A c \in ChannelIds : TableFollows(c) /\ Matches(c)
  BY DEF Fresh, SyncInv, ChannelInv, InStep
<1>2. ASSUME NEW e \in table[k] PROVE \E a \in On(k) : a.ch = e.ch /\ a.prio = e.prio
  <2> DEFINE c == e.ch
             a == [ch |-> c, key |-> k, on |-> row[c].status = "enabled", prio |-> row[c].prio]
  <2>1. c \in ChannelIds
    BY DEF TypeInv, TypeOK
  <2>2. e \in {d \in table[k] : d.ch = c}
    OBVIOUS
  <2>3. Enabled(c) /\ k \in row[c].offers /\ e = [ch |-> c, prio |-> row[c].prio]
    BY <1>1, <2>1, <2>2 DEF TableFollows
  <2>4. Of(c) = AbilitiesOf(c, row[c])
    BY <1>1, <2>1, <2>3 DEF Matches, Enabled
  <2>5. a \in Of(c)
    BY <2>3, <2>4 DEF AbilitiesOf
  <2>6. a.ch = c /\ a.key = k /\ a.prio = e.prio
    BY <2>3
  <2>7. a.on
    BY <2>3, Zenon DEF Enabled
  <2>8. a \in On(k)
    <3> HIDE DEF a
    <3> QED
      BY <2>5, <2>6, <2>7 DEF Of, On
  <2> QED
    BY <2>6, <2>8
<1>3. ASSUME NEW a \in On(k) PROVE \E e \in table[k] : a.ch = e.ch /\ a.prio = e.prio
  <2> DEFINE c == a.ch
             e == [ch |-> c, prio |-> row[c].prio]
  <2>1. c \in ChannelIds /\ a \in Of(c) /\ a.key = k /\ a.on
    BY DEF On, Of, TypeInv, TypeOK, Abilities
  <2>2. c \in channels /\ a \in AbilitiesOf(c, row[c])
    BY <1>1, <2>1 DEF Matches
  <2>3. Enabled(c) /\ k \in row[c].offers /\ a.prio = row[c].prio
    <3>1. PICK l \in row[c].offers :
             a = [ch |-> c, key |-> l, on |-> row[c].status = "enabled", prio |-> row[c].prio]
      BY <2>2 DEF AbilitiesOf
    <3>2. a.key = l /\ a.prio = row[c].prio
      BY <3>1
    <3>3. a.on = (row[c].status = "enabled")
      <4> HIDE DEF c
      <4> QED
        BY <3>1, Zenon
    <3> QED
      BY <2>1, <2>2, <3>2, <3>3, Zenon DEF Enabled
  <2>4. {d \in table[k] : d.ch = c} = {e}
    BY <1>1, <2>1, <2>3 DEF TableFollows
  <2>5. e \in table[k] /\ a.ch = e.ch /\ a.prio = e.prio
    BY <2>3, <2>4
  <2> QED
    BY <2>5
<1> QED
  BY <1>2, <1>3

(* A pair the fresh table has is offered with a highest priority. *)
LEMMA HighestEntry ==
    ASSUME TypeInv, SyncInv, Fresh, NEW k \in Keys, table[k] # {}
    PROVE  FirstPriority(k) # {}
<1> DEFINE S == {c \in ChannelIds : \E e \in table[k] : e.ch = c}
           p == [c \in S |-> row[c].prio]
<1>1. ASSUME NEW e \in table[k]
      PROVE  e.ch \in S /\ e.prio = p[e.ch]
  <2>1. e.ch \in ChannelIds /\ e.ch \in S
    BY DEF TypeInv, TypeOK
  <2>2. TableFollows(e.ch)
    BY <2>1 DEF SyncInv, Fresh
  <2>3. e \in {d \in table[k] : d.ch = e.ch}
    OBVIOUS
  <2>4. e = [ch |-> e.ch, prio |-> row[e.ch].prio]
    BY <2>2, <2>3 DEF TableFollows
  <2> QED
    BY <2>1, <2>4
<1>2. IsFiniteSet(S)
  BY ChannelAssumption, FS_Subset
<1>3. p \in [S -> Int]
  BY DEF TypeInv, TypeOK, Forms
<1>4. S # {}
  BY <1>1
<1> HIDE DEF p
<1>5. PICK m \in S : \A n \in S : p[m] >= p[n]
  <2> HIDE DEF S
  <2> QED
    BY <1>2, <1>3, <1>4, HighestExists
<1>6. PICK e \in table[k] : e.ch = m
  OBVIOUS
<1> HIDE DEF S
<1>7. \A d \in table[k] : e.prio >= d.prio
  BY <1>1, <1>5, <1>6
<1> QED
  BY <1>7 DEF FirstPriority

(* The two routers, on a fresh table. *)
LEMMA FreshRouters ==
    ASSUME TypeInv, SyncInv, \A c \in ChannelIds : ChannelInv(c), Fresh, NEW k \in Keys
    PROVE  /\ (CacheCandidates(k, FALSE) = {}) = (DbCandidates(k, FALSE) = {})
           /\ (\E e \in table[k] : e.prio > 0) =>
                 CacheCandidates(k, FALSE) = DbCandidates(k, FALSE)
           /\ CacheCandidates(k, TRUE) \subseteq DbCandidates(k, TRUE)
<1> DEFINE Top == {a \in On(k) : \A b \in On(k) : a.prio >= b.prio}
           First == IF \E e \in FirstPriority(k) : e.prio > 0
                    THEN FirstPriority(k) ELSE table[k]
           Rest == table[k] \ First
<1>1. /\ \A e \in table[k] : \E a \in On(k) : a.ch = e.ch /\ a.prio = e.prio
      /\ \A a \in On(k) : \E e \in table[k] : a.ch = e.ch /\ a.prio = e.prio
  BY TableIsAbilities
<1>2. /\ DbCandidates(k, FALSE) = {a.ch : a \in Top}
      /\ DbCandidates(k, TRUE) = {a.ch : a \in On(k)}
  BY DEF DbCandidates, On
<1>3. /\ CacheCandidates(k, FALSE) = {e.ch : e \in First}
      /\ CacheCandidates(k, TRUE) = {e.ch : e \in IF Rest # {} THEN Rest ELSE First}
  BY DEF CacheCandidates
<1>4. FirstPriority(k) \subseteq table[k] /\ First \subseteq table[k]
  BY DEF FirstPriority
<1>5. table[k] # {} => FirstPriority(k) # {}
  BY HighestEntry
<1>6. {e.ch : e \in FirstPriority(k)} = {a.ch : a \in Top}
  <2>1. ASSUME NEW e \in FirstPriority(k) PROVE \E a \in Top : a.ch = e.ch
    BY <1>1 DEF FirstPriority
  <2>2. ASSUME NEW a \in Top PROVE \E e \in FirstPriority(k) : a.ch = e.ch
    BY <1>1 DEF FirstPriority
  <2> QED
    BY <2>1, <2>2
<1> HIDE DEF Top
<1>7. (CacheCandidates(k, FALSE) = {}) = (DbCandidates(k, FALSE) = {})
  <2>1. First = {} <=> table[k] = {}
    BY <1>4, <1>5
  <2>2. {a.ch : a \in Top} = {} <=> table[k] = {}
    BY <1>4, <1>5, <1>6
  <2>3. {e.ch : e \in First} = {} <=> First = {}
    OBVIOUS
  <2> QED
    BY <1>2, <1>3, <2>1, <2>2, <2>3
<1>8. ASSUME NEW d \in table[k], d.prio > 0
      PROVE  CacheCandidates(k, FALSE) = DbCandidates(k, FALSE)
  <2>1. PICK e \in FirstPriority(k) : TRUE
    BY <1>5
  <2>2. e.prio >= d.prio /\ e.prio \in Int /\ d.prio \in Int
    BY <2>1 DEF FirstPriority, TypeInv, TypeOK
  <2>3. First = FirstPriority(k)
    BY <1>8, <2>2
  <2> QED
    BY <1>2, <1>3, <1>6, <2>3
<1>9. CacheCandidates(k, TRUE) \subseteq DbCandidates(k, TRUE)
  <2> DEFINE Chosen == IF Rest # {} THEN Rest ELSE First
  <2>1. Chosen \subseteq table[k]
    BY <1>4
  <2>2. CacheCandidates(k, TRUE) = {e.ch : e \in Chosen}
    BY <1>3
  <2>3. ASSUME NEW e \in table[k] PROVE e.ch \in DbCandidates(k, TRUE)
    BY <1>1, <1>2
  <2> HIDE DEF Chosen
  <2> QED
    BY <2>1, <2>2, <2>3
<1> QED
  BY <1>7, <1>8, <1>9

(* On a fresh table a first attempt is routed to the same channels with and without *)
(* the memory cache, and a retry to none the database would not offer.              *)
THEOREM RoutersHold == Spec => []RoutersAgree
<1> DEFINE AllInv == \A c \in ChannelIds : ChannelInv(c)
<1>1. TypeInv /\ SyncInv /\ AllInv => RoutersAgree
  BY FreshRouters DEF RoutersAgree
<1>2. Spec => []AllInv
  BY AllInStep
<1> HIDE DEF AllInv
<1> QED
  BY <1>1, <1>2, TypeInvHolds, SyncInvHolds, PTL
=============================================================================
