-------------------------- MODULE UserAccessProofs --------------------------
(***************************************************************************)
(* Proofs about UserAccess, for any users, instances, requests and         *)
(* operations, with and without Redis, with failing calls and restarts.    *)
(***************************************************************************)
EXTENDS UserAccess, TLAPS

Rows == [status : Statuses, role : Roles]

(* Writing a form changes what the form names, and keeps the type of a row. *)
LEMMA UpdatesIs ==
    ASSUME NEW old \in Rows, NEW f \in Forms
    PROVE  /\ Updates(old, f) \in Rows
           /\ Updates(old, f).status = IF f.status = "keep" THEN old.status ELSE f.status
           /\ Updates(old, f).role = IF f.role = "keep" THEN old.role ELSE f.role
           /\ Updates(Updates(old, f), f) = Updates(old, f)
           /\ f \in Rows => Updates(old, f) = f
BY SMTT(30) DEF Updates, Rows, Forms, Statuses, Roles

(* A row is a form, and so is what ManageUser changes of it. *)
LEMMA FormTypes ==
    /\ Rows \subseteq Forms
    /\ KeepAll \in Forms
    /\ \A u \in Users : ManageForms(u) \subseteq Forms
<1>1. Rows \subseteq Forms /\ KeepAll \in Forms
  BY DEF Rows, Forms, KeepAll
<1>2. ASSUME NEW u \in Users, NEW d \in ManageForms(u) PROVE d \in Forms
  <2>1. CASE \E s \in Statuses : d = [KeepAll EXCEPT !.status = s]
    BY <2>1 DEF KeepAll, Forms
  <2>2. CASE \E r \in Roles \ {role[u]} : d = [KeepAll EXCEPT !.role = r]
    BY <2>2 DEF KeepAll, Forms
  <2> QED
    BY <1>2, <2>1, <2>2 DEF ManageForms
<1> QED
  BY <1>1, <1>2

(* The way an operation begins, whatever it is. *)
LEMMA BeginForms ==
    ASSUME TypeOK, NEW j \in Jobs, NEW u \in Users,
           ManageUser(j, u) \/ UpdateUser(j, u) \/ UpdateOwnRow(j, u)
    PROVE  \E l \in {"ban", "list"}, d \in Forms, f \in Forms :
              /\ Begin(j, u, l, d, f)
              /\ Updates(Read(u), f) = Updates(Read(u), d)
              /\ l = "ban" => f.status = "deleted"
              /\ l = "list" /\ f.status = "deleted" => status[u] = "deleted"
<1>1. Read(u) \in Rows /\ Read(u).status = status[u]
  BY DEF TypeOK, Read, Rows
<1>2. CASE ManageUser(j, u)
  <2>1. PICK d \in ManageForms(u) :
           Begin(j, u, IF d.status = "deleted" THEN "ban" ELSE "list", d, Updates(Read(u), d))
    BY <1>2 DEF ManageUser
  <2> DEFINE f == Updates(Read(u), d)
  <2>2. d \in Forms
    BY FormTypes
  <2>3. f \in Rows /\ f.status = IF d.status = "keep" THEN status[u] ELSE d.status
    BY <1>1, <2>2, UpdatesIs
  <2>4. f \in Forms /\ Updates(Read(u), f) = Updates(Read(u), d)
    BY <1>1, <2>3, FormTypes, UpdatesIs
  <2>5. CASE d.status = "deleted"
    BY <2>1, <2>2, <2>3, <2>4, <2>5
  <2>6. CASE d.status # "deleted"
    BY <2>1, <2>2, <2>3, <2>4, <2>6
  <2> QED
    BY <2>5, <2>6
<1>3. CASE UpdateUser(j, u)
  <2>1. PICK s \in {"enabled", "disabled", "keep"}, r \in Roles \cup {"keep"} :
           Begin(j, u, "list", [status |-> s, role |-> r], [status |-> s, role |-> r])
    BY <1>3 DEF UpdateUser
  <2>2. [status |-> s, role |-> r] \in Forms
    BY DEF Forms, Statuses
  <2> QED
    BY <2>1, <2>2
<1>4. CASE UpdateOwnRow(j, u)
  <2>1. Begin(j, u, "list", KeepAll, Read(u))
    BY <1>4 DEF UpdateOwnRow
  <2>2. Updates(Read(u), KeepAll) = Read(u) /\ Updates(Read(u), Read(u)) = Read(u)
    BY <1>1, UpdatesIs, FormTypes DEF Updates, KeepAll, Read
  <2> QED
    BY <1>1, <2>1, <2>2, FormTypes
<1> QED
  BY <1>2, <1>3, <1>4

-----------------------------------------------------------------------------
(* Statuses, copies, lists and histories keep their types, whatever        *)
(* operations, requests, faults and restarts come together.                *)
THEOREM TypeCorrect == Spec => []TypeOK
<1>1. Init => TypeOK
  BY AccessAssumption, FormTypes DEF Init, TypeOK, Statuses, Roles
<1>2. TypeOK /\ [Next]_vars => TypeOK'
  <2> SUFFICES ASSUME TypeOK, [Next]_vars PROVE TypeOK'
    OBVIOUS
  <2> USE DEF TypeOK
  <2>1. ASSUME NEW j \in Jobs, NEW u \in Users,
               ManageUser(j, u) \/ UpdateUser(j, u) \/ UpdateOwnRow(j, u)
        PROVE  TypeOK'
    <3>1. PICK l \in {"ban", "list"}, d \in Forms, f \in Forms : Begin(j, u, l, d, f)
      BY <2>1, BeginForms
    <3>2. Updates(decided[u], d) \in Rows
      BY UpdatesIs DEF Rows
    <3>3. ops' \in 0..MaxOps
      BY <3>1, AccessAssumption DEF Begin
    <3> QED
      BY <3>1, <3>2, <3>3, AccessAssumption DEF Begin, Rows, row, reqVars
  <2>2. ASSUME NEW j \in Jobs, Ban(j) \/ List(j) PROVE TypeOK'
    <3>1. job[j] \in Users /\ NodeOf[j] \in Nodes
      BY <2>2, AccessAssumption DEF Ban, List
    <3>2. local' \in [Nodes -> SUBSET Users] /\ redis' \subseteq Users /\ unsettled' \subseteq Users
      BY <2>2, <3>1 DEF Ban, List, Enlist, BanUser, UnbanUser, InRedis
    <3> QED
      BY <2>2, <3>1, <3>2 DEF Ban, List, row, reqVars
  <2>3. ASSUME NEW j \in Jobs, Write(j) PROVE TypeOK'
    <3> DEFINE new == Updates(Read(job[j]), form[j])
    <3>1. job[j] \in Users
      BY <2>3 DEF Write
    <3>2. new \in Rows
      BY <3>1, UpdatesIs DEF Read, Rows
    <3>3. status' = [status EXCEPT ![job[j]] = new.status] /\ role' = [role EXCEPT ![job[j]] = new.role]
      BY <2>3 DEF Write
    <3>4. status' \in [Users -> Statuses] /\ role' \in [Users -> Roles]
      BY <3>2, <3>3 DEF Rows
    <3>5. UNCHANGED <<redisOn, cached, redis, local, ops, restarts, reqVars, shut, decided,
                      unsettled>>
      BY <2>3 DEF Write
    <3>6. CASE pc[j] = "rename" /\ pc' = [pc EXCEPT ![j] = "list"] /\ UNCHANGED <<job, form>>
      BY <3>1, <3>4, <3>5, <3>6 DEF reqVars
    <3>7. CASE Finish({j})
      BY <3>4, <3>5, <3>7, FormTypes DEF Finish, reqVars
    <3> QED
      BY <2>3, <3>6, <3>7 DEF Write
  <2>4. ASSUME NEW j \in Jobs, WriteFails(j) PROVE TypeOK'
    BY <2>4, FormTypes DEF WriteFails, Finish, row, reqVars
  <2>5. ASSUME NEW r \in Requests, TokenAuth(r) \/ NextRequest(r) PROVE TypeOK'
    <3>1. UserOf[r] \in Users /\ NodeOf[r] \in Nodes
      BY AccessAssumption
    <3>2. UNCHANGED noRequest
      BY <2>5 DEF TokenAuth, GetEnabled, ReadEnabled, FillEnabled, LookUp, NextRequest
    <3>3. apc' \in [Requests -> {"idle", "read", "fill", "lookup", "admitted", "rejected"}]
      BY <2>5 DEF TokenAuth, GetEnabled, ReadEnabled, FillEnabled, LookUp, NextRequest, Goto
    <3>4. saw' \in [Requests -> BOOLEAN] /\ shut' \subseteq Requests /\ fellBack' \subseteq Requests
      BY <2>5 DEF TokenAuth, GetEnabled, ReadEnabled, FillEnabled, LookUp, NextRequest
    <3>5. cached' \in [Users -> {"none", "0", "1"}]
      BY <2>5, <3>1 DEF TokenAuth, GetEnabled, ReadEnabled, FillEnabled, LookUp, NextRequest, Copy
    <3> QED
      BY <3>2, <3>3, <3>4, <3>5 DEF noRequest, row, jobVars
  <2>6. ASSUME NEW u \in Users, ExpireCache(u) PROVE TypeOK'
    BY <2>6 DEF ExpireCache, noRequest, row, jobVars, reqVars
  <2>7. ASSUME NEW n \in Nodes, Restart(n) PROVE TypeOK'
    <3>1. restarts' \in 0..MaxRestarts
      BY <2>7, AccessAssumption DEF Restart
    <3>2. apc' \in [Requests -> {"idle", "read", "fill", "lookup", "admitted", "rejected"}]
      BY <2>7 DEF Restart
    <3> QED
      BY <2>7, <3>1, <3>2, FormTypes DEF Restart, Finish, row
  <2>8. CASE UNCHANGED vars
    BY <2>8 DEF vars, row, jobVars, reqVars
  <2> QED
    BY <2>1, <2>2, <2>3, <2>4, <2>5, <2>6, <2>7, <2>8 DEF Next, JobStep
<1> QED
  BY <1>1, <1>2, PTL DEF Spec
-----------------------------------------------------------------------------
(* What holds of a user whom no operation has left unsettled.              *)

Alone(u) ==
    \A i, j \in Jobs : pc[i] # "idle" /\ job[i] = u /\ pc[j] # "idle" /\ job[j] = u => i = j

\* The blacklist agrees with a status.
Listed(u, s) == redisOn => (u \in redis <=> s # "enabled")

\* Between the operations.
AtRest(u) == Read(u) = decided[u] /\ Listed(u, status[u])

\* While j is at work on u: it will leave what was decided on, and the blacklist is
\* right once j has been at it, or if j leaves it alone.
AtWork(j, u) ==
    /\ Updates(Read(u), form[j]) = decided[u]
    /\ pc[j] \in {"ban", "rename"} => form[j].status = "deleted"
    /\ pc[j] = "rename" => (redisOn => u \in redis)
    /\ pc[j] = "write" => Listed(u, decided[u].status)
    /\ pc[j] = "list" /\ form[j].status = "keep" => Listed(u, status[u])
    /\ pc[j] = "list" /\ form[j].status = "deleted" => (redisOn => u \in redis)

UserInv(u) ==
    u \notin unsettled =>
        /\ Alone(u)
        /\ ~Busy(u) => AtRest(u)
        /\ \A j \in Jobs : pc[j] # "idle" /\ job[j] = u => AtWork(j, u)

\* A request of a user who has been shut out cannot get past the row without Redis,
\* nor past the blacklist with it.
ShutInv ==
    \A r \in Requests :
        /\ apc[r] = "fill" => redisOn
        /\ r \in shut =>
              /\ Settled(UserOf[r])
              /\ decided[UserOf[r]].status # "enabled"
              /\ apc[r] = "lookup" => redisOn
              /\ apc[r] = "admitted" => r \in fellBack

AccessInv == (\A u \in Users : UserInv(u)) /\ ShutInv

(* What a user's part of the invariant speaks of.                          *)
userState == <<redisOn, row, redis, jobVars, decided, unsettled>>

(* Steps that change nothing of this keep the part.                        *)
LEMMA UserInvStays ==
    ASSUME NEW u \in Users, UserInv(u), UNCHANGED userState
    PROVE  UserInv(u)'
<1>1. Alone(u)' <=> Alone(u)
  BY DEF Alone, userState, jobVars
<1>2. Busy(u)' <=> Busy(u)
  BY DEF Busy, userState, jobVars
<1>3. AtRest(u)' <=> AtRest(u)
  BY DEF AtRest, Read, Listed, userState, row
<1>4. \A j \in Jobs : AtWork(j, u)' <=> AtWork(j, u)
  BY DEF AtWork, Read, Listed, userState, row, jobVars
<1> QED
  BY <1>1, <1>2, <1>3, <1>4 DEF UserInv, userState, jobVars

(* A step of an operation on one user does not concern another.            *)
LEMMA OthersStay ==
    ASSUME TypeOK, NEW j \in Jobs, NEW u \in Users, NEW v \in Users, u # v, UserInv(v),
           \A i \in Jobs \ {j} : pc'[i] = pc[i] /\ job'[i] = job[i] /\ form'[i] = form[i],
           pc[j] # "idle" => job[j] = u,
           pc'[j] # "idle" => job'[j] = u,
           redisOn' = redisOn,
           status'[v] = status[v], role'[v] = role[v], decided'[v] = decided[v],
           v \in redis' <=> v \in redis,
           v \in unsettled' <=> v \in unsettled
    PROVE  UserInv(v)'
<1>1. \A i \in Jobs : pc[i] # "idle" /\ job[i] = v => i # j
  OBVIOUS
<1>2. \A i \in Jobs : (pc[i] # "idle" /\ job[i] = v)' => i # j
  OBVIOUS
<1>3. \A i \in Jobs : (pc[i] # "idle" /\ job[i] = v)' <=> pc[i] # "idle" /\ job[i] = v
  BY <1>1, <1>2
<1>4. Alone(v)' <=> Alone(v)
  BY <1>3 DEF Alone
<1>5. Busy(v)' <=> Busy(v)
  BY <1>3 DEF Busy
<1>6. AtRest(v)' <=> AtRest(v)
  BY DEF AtRest, Read, Listed
<1>7. \A i \in Jobs \ {j} : AtWork(i, v)' <=> AtWork(i, v)
  BY DEF AtWork, Read, Listed
<1> QED
  BY <1>1, <1>2, <1>3, <1>4, <1>5, <1>6, <1>7 DEF UserInv

(* An operation on u, by an administrator or by u, begins.                 *)
LEMMA BeginKeeps ==
    ASSUME TypeOK, NEW j \in Jobs, NEW u \in Users, UserInv(u),
           ManageUser(j, u) \/ UpdateUser(j, u) \/ UpdateOwnRow(j, u)
    PROVE  UserInv(u)'
<1>1. PICK l \in {"ban", "list"}, d \in Forms, f \in Forms :
         /\ Begin(j, u, l, d, f)
         /\ Updates(Read(u), f) = Updates(Read(u), d)
         /\ l = "ban" => f.status = "deleted"
         /\ l = "list" /\ f.status = "deleted" => status[u] = "deleted"
  BY BeginForms
<1>2. CASE Busy(u) \/ u \in unsettled
  BY <1>1, <1>2 DEF Begin, UserInv
<1>3. CASE ~Busy(u) /\ u \notin unsettled
  <2>1. AtRest(u)
    BY <1>3 DEF UserInv
  <2>2. /\ unsettled' = unsettled
        /\ pc' = [pc EXCEPT ![j] = l]
        /\ job' = [job EXCEPT ![j] = u]
        /\ form' = [form EXCEPT ![j] = f]
        /\ decided' = [decided EXCEPT ![u] = Updates(@, d)]
        /\ pc[j] = "idle"
        /\ UNCHANGED <<redisOn, status, role, redis>>
    BY <1>1, <1>3 DEF Begin, row
  <2>3. pc'[j] = l /\ job'[j] = u /\ form'[j] = f /\ l # "idle"
    BY <2>2 DEF TypeOK
  <2>4. \A i \in Jobs : (pc[i] # "idle" /\ job[i] = u)' => i = j
    BY <1>3, <2>2 DEF Busy, TypeOK
  <2>5. Alone(u)' /\ Busy(u)'
    BY <2>3, <2>4 DEF Alone, Busy
  <2>6. Read(u)' = Read(u)
    BY <2>2 DEF Read
  <2>7. decided'[u] = Updates(Read(u), f)
    BY <1>1, <2>1, <2>2 DEF AtRest, TypeOK
  <2>8. AtWork(j, u)'
    BY <1>1, <2>1, <2>2, <2>3, <2>6, <2>7 DEF AtWork, AtRest, Listed
  <2> QED
    BY <2>4, <2>5, <2>8 DEF UserInv
<1> QED
  BY <1>2, <1>3

(* An operation on u bans or unbans him.                                   *)
LEMMA ListKeeps ==
    ASSUME TypeOK, NEW j \in Jobs, NEW u \in Users, u = job[j], UserInv(u),
           Ban(j) \/ List(j)
    PROVE  UserInv(u)'
<1>1. /\ pc[j] \in {"ban", "list"}
      /\ pc' = [pc EXCEPT ![j] = IF pc[j] = "ban" THEN "rename" ELSE "write"]
      /\ UNCHANGED <<redisOn, status, role, job, form, decided>>
  BY DEF Ban, List, row
<1>2. CASE u \in unsettled'
  BY <1>2 DEF UserInv
<1>3. CASE u \notin unsettled'
  <2>1. u \notin unsettled
    BY <1>3 DEF Ban, List, Enlist, BanUser, UnbanUser, InRedis
  <2>2. Alone(u) /\ AtWork(j, u) /\ Busy(u)
    BY <1>1, <2>1 DEF UserInv, Busy
  <2>3. pc'[j] # "idle" /\ \A i \in Jobs : pc'[i] # "idle" <=> pc[i] # "idle"
    BY <1>1 DEF TypeOK
  <2>4. Alone(u)' /\ Busy(u)'
    BY <1>1, <2>2, <2>3 DEF Alone, Busy
  <2>5. \A i \in Jobs : (pc[i] # "idle" /\ job[i] = u)' => i = j
    BY <1>1, <2>2, <2>3 DEF Alone
  <2>6. Read(u) \in Rows /\ Read(u).status = status[u] /\ form[j] \in Forms
    BY DEF TypeOK, Read, Rows
  <2>7. decided[u].status = IF form[j].status = "keep" THEN status[u] ELSE form[j].status
    BY <2>2, <2>6, UpdatesIs DEF AtWork
  <2>8. Read(u)' = Read(u)
    BY <1>1 DEF Read
  <2>9. CASE Ban(j)
    <3>1. redisOn => u \in redis'
      BY <1>3, <2>9 DEF Ban, BanUser, InRedis
    <3>2. pc'[j] = "rename"
      BY <2>9 DEF Ban, TypeOK
    <3> QED
      BY <1>1, <2>2, <2>4, <2>5, <2>8, <2>9, <3>1, <3>2 DEF AtWork, UserInv, Ban
  <2>10. CASE List(j)
    <3>1. pc'[j] = "write" /\ pc[j] = "list"
      BY <2>10 DEF List, TypeOK
    <3>2. redisOn => (u \in redis' <=> decided[u].status # "enabled")
      <4>1. CASE form[j].status = "disabled"
        BY <1>3, <2>7, <2>10, <4>1 DEF List, Enlist, BanUser, InRedis
      <4>2. CASE form[j].status = "enabled"
        BY <1>3, <2>7, <2>10, <4>2 DEF List, Enlist, UnbanUser, InRedis
      <4>3. CASE form[j].status \notin {"disabled", "enabled"}
        <5>1. redis' = redis
          BY <2>10, <4>3 DEF List, Enlist
        <5>2. form[j].status \in {"keep", "deleted"}
          BY <2>6, <4>3 DEF Forms, Statuses
        <5> QED
          BY <2>2, <2>7, <3>1, <5>1, <5>2 DEF AtWork, Listed
      <4> QED
        BY <4>1, <4>2, <4>3
    <3> QED
      BY <1>1, <2>2, <2>4, <2>5, <2>8, <3>1, <3>2 DEF AtWork, UserInv, Listed
  <2> QED
    BY <2>9, <2>10
<1> QED
  BY <1>2, <1>3

(* An operation on u writes his row.                                       *)
LEMMA WriteKeeps ==
    ASSUME TypeOK, NEW j \in Jobs, NEW u \in Users, u = job[j], UserInv(u), Write(j)
    PROVE  UserInv(u)'
<1> SUFFICES ASSUME u \notin unsettled PROVE UserInv(u)'
  BY DEF Write, UserInv
<1> DEFINE new == Updates(Read(u), form[j])
<1>1. /\ pc[j] \in {"rename", "write"}
      /\ status' = [status EXCEPT ![u] = new.status]
      /\ role' = [role EXCEPT ![u] = new.role]
      /\ UNCHANGED <<redisOn, redis, decided, unsettled>>
  BY DEF Write
<1>2. Alone(u) /\ AtWork(j, u)
  BY <1>1 DEF UserInv
<1>3. Read(u) \in Rows /\ form[j] \in Forms
  BY DEF TypeOK, Read, Rows
<1>4. new \in Rows /\ Updates(new, form[j]) = new
  BY <1>3, UpdatesIs
<1>5. status'[u] = new.status /\ role'[u] = new.role
  BY <1>1 DEF TypeOK
<1>6. Read(u)' = new
  BY <1>4, <1>5 DEF Read, Rows
<1>7. new = decided[u] /\ status'[u] = decided[u].status
  BY <1>2, <1>5 DEF AtWork
<1> HIDE DEF new
<1>8. CASE pc[j] = "rename" /\ pc' = [pc EXCEPT ![j] = "list"] /\ UNCHANGED <<job, form>>
  <2>1. pc'[j] = "list" /\ \A i \in Jobs : pc'[i] # "idle" <=> pc[i] # "idle"
    BY <1>8 DEF TypeOK
  <2>2. Alone(u)' /\ Busy(u)'
    BY <1>2, <1>8, <2>1 DEF Alone, Busy
  <2>3. \A i \in Jobs : (pc[i] # "idle" /\ job[i] = u)' => i = j
    BY <1>2, <1>8, <2>1 DEF Alone
  <2>4. AtWork(j, u)'
    BY <1>1, <1>2, <1>4, <1>6, <1>7, <1>8, <2>1 DEF AtWork, Listed
  <2> QED
    BY <2>2, <2>3, <2>4 DEF UserInv
<1>9. CASE pc[j] = "write" /\ Finish({j})
  <2>1. \A i \in Jobs : (pc[i] # "idle" /\ job[i] = u)' => FALSE
    BY <1>2, <1>9 DEF Alone, Finish
  <2>2. AtRest(u)'
    BY <1>1, <1>2, <1>6, <1>7, <1>9 DEF AtRest, AtWork, Listed
  <2> QED
    BY <2>1, <2>2 DEF UserInv, Alone, Busy
<1> QED
  BY <1>8, <1>9 DEF Write
(* Every step keeps the part of every user.                                *)
LEMMA UsersKeep ==
    ASSUME TypeOK, TypeOK', \A u \in Users : UserInv(u), [Next]_vars, NEW v \in Users
    PROVE  UserInv(v)'
<1>1. ASSUME NEW j \in Jobs, NEW u \in Users,
             ManageUser(j, u) \/ UpdateUser(j, u) \/ UpdateOwnRow(j, u)
      PROVE  UserInv(v)'
  <2>1. PICK l \in {"ban", "list"}, d \in Forms, f \in Forms : Begin(j, u, l, d, f)
    BY <1>1, BeginForms
  <2>2. CASE v = u
    BY <1>1, <2>2, BeginKeeps
  <2>3. CASE v # u
    <3>1. pc[j] = "idle" /\ job' = [job EXCEPT ![j] = u]
          /\ pc' = [pc EXCEPT ![j] = l] /\ form' = [form EXCEPT ![j] = f]
      BY <2>1 DEF Begin
    <3>2. job'[j] = u /\ \A i \in Jobs \ {j} : pc'[i] = pc[i] /\ job'[i] = job[i] /\ form'[i] = form[i]
      BY <3>1 DEF TypeOK
    <3>3. UNCHANGED <<redisOn, status, role, redis>> /\ decided'[v] = decided[v]
          /\ (v \in unsettled' <=> v \in unsettled)
      BY <2>1, <2>3 DEF Begin, row, TypeOK
    <3> QED
      BY <2>3, <3>1, <3>2, <3>3, OthersStay
  <2> QED
    BY <2>2, <2>3
<1>2. ASSUME NEW j \in Jobs, Ban(j) \/ List(j) PROVE UserInv(v)'
  <2> DEFINE u == job[j]
  <2>1. u \in Users
    BY <1>2 DEF Ban, List, TypeOK
  <2>2. CASE v = u
    BY <1>2, <2>2, ListKeeps
  <2>3. CASE v # u
    <3>1. UNCHANGED <<redisOn, status, role, job, form, decided>>
      BY <1>2 DEF Ban, List, row
    <3>2. \A i \in Jobs \ {j} : pc'[i] = pc[i]
      BY <1>2 DEF Ban, List, TypeOK
    <3>3. (v \in redis' <=> v \in redis) /\ (v \in unsettled' <=> v \in unsettled)
      BY <1>2, <2>3 DEF Ban, List, Enlist, BanUser, UnbanUser, InRedis
    <3> QED
      BY <2>1, <2>3, <3>1, <3>2, <3>3, OthersStay
  <2> QED
    BY <2>2, <2>3
<1>3. ASSUME NEW j \in Jobs, Write(j) \/ WriteFails(j) PROVE UserInv(v)'
  <2> DEFINE u == job[j]
  <2>1. u \in Users
    BY <1>3 DEF Write, WriteFails, TypeOK
  <2>2. CASE v = u /\ Write(j)
    BY <2>2, WriteKeeps
  <2>3. CASE v = u /\ WriteFails(j)
    BY <2>3 DEF WriteFails, UserInv
  <2>4. CASE v # u
    <3>1. UNCHANGED <<redisOn, redis, decided>>
      BY <1>3 DEF Write, WriteFails
    <3>2. status'[v] = status[v] /\ role'[v] = role[v]
      BY <1>3, <2>4 DEF Write, WriteFails, TypeOK, row
    <3>3. \A i \in Jobs \ {j} : pc'[i] = pc[i] /\ job'[i] = job[i] /\ form'[i] = form[i]
      BY <1>3 DEF Write, WriteFails, Finish, TypeOK
    <3>4. pc'[j] # "idle" => job'[j] = u
      BY <1>3 DEF Write, WriteFails, Finish, TypeOK
    <3>5. v \in unsettled' <=> v \in unsettled
      BY <1>3, <2>4 DEF Write, WriteFails
    <3> QED
      BY <2>1, <2>4, <3>1, <3>2, <3>3, <3>4, <3>5, OthersStay
  <2> QED
    BY <1>3, <2>2, <2>3, <2>4
<1>4. ASSUME NEW r \in Requests, TokenAuth(r) \/ NextRequest(r) PROVE UserInv(v)'
  <2>1. UNCHANGED userState
    BY <1>4 DEF TokenAuth, GetEnabled, ReadEnabled, FillEnabled, LookUp, NextRequest, noRequest,
                userState
  <2> QED
    BY <2>1, UserInvStays
<1>5. ASSUME NEW u \in Users, ExpireCache(u) PROVE UserInv(v)'
  <2>1. UNCHANGED userState
    BY <1>5 DEF ExpireCache, noRequest, userState
  <2> QED
    BY <2>1, UserInvStays
<1>6. ASSUME NEW n \in Nodes, Restart(n) PROVE UserInv(v)'
  <2> SUFFICES ASSUME v \notin unsettled' PROVE UserInv(v)'
    BY DEF UserInv
  <2> DEFINE js == {j \in Jobs : NodeOf[j] = n}
  <2>1. v \notin unsettled /\ \A j \in js : job[j] # v
    BY <1>6 DEF Restart
  <2>2. \A j \in Jobs : j \notin js => pc'[j] = pc[j] /\ job'[j] = job[j] /\ form'[j] = form[j]
    BY <1>6 DEF Restart, Finish
  <2>3. \A j \in js : pc'[j] = "idle"
    BY <1>6 DEF Restart, Finish
  <2>4. \A j \in Jobs : (pc[j] # "idle" /\ job[j] = v)' <=> pc[j] # "idle" /\ job[j] = v
    BY <2>1, <2>2, <2>3
  <2>5. UNCHANGED <<redisOn, status, role, redis, decided>>
    BY <1>6 DEF Restart, row
  <2> HIDE DEF js
  <2>6. Alone(v)' <=> Alone(v)
    BY <2>4 DEF Alone
  <2>7. Busy(v)' <=> Busy(v)
    BY <2>4 DEF Busy
  <2>8. AtRest(v)' <=> AtRest(v)
    BY <2>5 DEF AtRest, Read, Listed
  <2>9. ASSUME NEW j \in Jobs, (pc[j] # "idle" /\ job[j] = v)', AtWork(j, v) PROVE AtWork(j, v)'
    BY <2>2, <2>3, <2>5, <2>9 DEF AtWork, Read, Listed
  <2> QED
    BY <2>1, <2>4, <2>6, <2>7, <2>8, <2>9 DEF UserInv
<1>7. CASE UNCHANGED vars
  BY <1>7, UserInvStays DEF vars, userState
<1> QED
  BY <1>1, <1>2, <1>3, <1>4, <1>5, <1>6, <1>7 DEF Next, JobStep

(* A user stays settled and shut out until an operation on him begins.     *)
LEMMA SettledStays ==
    ASSUME TypeOK, NEW u \in Users, Settled(u), [Next]_vars,
           ~\E j \in Jobs : ManageUser(j, u) \/ UpdateUser(j, u) \/ UpdateOwnRow(j, u)
    PROVE  Settled(u)' /\ decided'[u] = decided[u]
<1> USE DEF Settled
<1>1. ASSUME NEW j \in Jobs, NEW v \in Users,
             ManageUser(j, v) \/ UpdateUser(j, v) \/ UpdateOwnRow(j, v)
      PROVE  Settled(u)' /\ decided'[u] = decided[u]
  <2>1. u # v
    BY <1>1
  <2>2. PICK l \in {"ban", "list"}, d \in Forms, f \in Forms : Begin(j, v, l, d, f)
    BY <1>1, BeginForms
  <2> QED
    BY <2>1, <2>2 DEF Begin, Busy, TypeOK
<1>2. ASSUME NEW j \in Jobs, Ban(j) \/ List(j) PROVE Settled(u)' /\ decided'[u] = decided[u]
  <2>1. job[j] # u
    BY <1>2 DEF Ban, List, Busy
  <2>2. u \notin unsettled'
    BY <1>2, <2>1 DEF Ban, List, Enlist, BanUser, UnbanUser, InRedis
  <2>3. ~Busy(u)'
    BY <1>2, <2>1 DEF Ban, List, Busy, TypeOK
  <2> QED
    BY <1>2, <2>2, <2>3 DEF Ban, List
<1>3. ASSUME NEW j \in Jobs, Write(j) \/ WriteFails(j) PROVE Settled(u)' /\ decided'[u] = decided[u]
  <2>1. job[j] # u
    BY <1>3 DEF Write, WriteFails, Busy
  <2>2. ~Busy(u)'
    BY <1>3, <2>1 DEF Write, WriteFails, Finish, Busy, TypeOK
  <2> QED
    BY <1>3, <2>1, <2>2 DEF Write, WriteFails
<1>4. ASSUME NEW r \in Requests, TokenAuth(r) \/ NextRequest(r)
      PROVE  Settled(u)' /\ decided'[u] = decided[u]
  BY <1>4 DEF TokenAuth, GetEnabled, ReadEnabled, FillEnabled, LookUp, NextRequest, noRequest,
              jobVars, Busy
<1>5. ASSUME NEW v \in Users, ExpireCache(v) PROVE Settled(u)' /\ decided'[u] = decided[u]
  BY <1>5 DEF ExpireCache, noRequest, jobVars, Busy
<1>6. ASSUME NEW n \in Nodes, Restart(n) PROVE Settled(u)' /\ decided'[u] = decided[u]
  <2>1. \A j \in Jobs : pc'[j] # "idle" => pc[j] # "idle" /\ job'[j] = job[j]
    BY <1>6 DEF Restart, Finish
  <2>2. ~Busy(u)' /\ \A j \in Jobs : job[j] # u
    BY <2>1, AccessAssumption DEF Busy, TypeOK
  <2> QED
    BY <1>6, <2>2 DEF Restart
<1>7. CASE UNCHANGED vars
  BY <1>7 DEF vars, jobVars, Busy
<1> QED
  BY <1>1, <1>2, <1>3, <1>4, <1>5, <1>6, <1>7 DEF Next, JobStep
(* A request takes its steps under the eyes of the row or the blacklist.   *)
LEMMA RequestKeeps ==
    ASSUME TypeOK, AccessInv, NEW r \in Requests, TokenAuth(r) \/ NextRequest(r)
    PROVE  ShutInv'
<1>1. PICK u \in Users : u = UserOf[r]
  BY AccessAssumption
<1>2. UNCHANGED <<redisOn, decided, unsettled, pc, job>>
  BY DEF TokenAuth, GetEnabled, ReadEnabled, FillEnabled, LookUp, NextRequest, noRequest, jobVars
<1>3. \A v \in Users : Settled(v)' <=> Settled(v)
  BY <1>2 DEF Settled, Busy
<1>4. \A q \in Requests \ {r} : /\ apc'[q] = apc[q]
                                /\ q \in shut' <=> q \in shut
                                /\ q \in fellBack' <=> q \in fellBack
  BY DEF TypeOK, TokenAuth, GetEnabled, ReadEnabled, FillEnabled, LookUp, NextRequest, Goto
<1>5. /\ apc[r] = "fill" => redisOn
      /\ r \in shut => /\ Settled(u)
                       /\ decided[u].status # "enabled"
                       /\ apc[r] = "lookup" => redisOn
  BY <1>1 DEF AccessInv, ShutInv
<1>6. Settled(u) => status[u] = decided[u].status /\ (redisOn => (u \in redis <=> status[u] # "enabled"))
  <2>1. UserInv(u)
    BY DEF AccessInv
  <2>2. Settled(u) => Read(u) = decided[u] /\ Listed(u, status[u])
    BY <2>1 DEF UserInv, AtRest, Settled
  <2> QED
    BY <2>2 DEF Read, Listed
<1>7. /\ apc'[r] = "fill" => redisOn
      /\ r \in shut' => /\ Settled(u)
                        /\ decided[u].status # "enabled"
                        /\ apc'[r] = "lookup" => redisOn
                        /\ apc'[r] = "admitted" => r \in fellBack'
  <2>1. CASE GetEnabled(r)
    BY <1>1, <1>5, <2>1 DEF GetEnabled, Goto, TypeOK
  <2>2. CASE ReadEnabled(r)
    <3>1. shut' = shut /\ apc'[r] \in {"fill", "lookup", "rejected"}
          /\ (apc'[r] = "fill" => redisOn)
          /\ (apc'[r] = "lookup" => status[u] = "enabled")
      BY <1>1, <2>2 DEF ReadEnabled, Goto, TypeOK
    <3>2. ASSUME r \in shut PROVE apc'[r] \in {"fill", "rejected"}
      BY <1>5, <1>6, <3>1, <3>2
    <3>3. r \in shut => Settled(u) /\ decided[u].status # "enabled"
      BY <1>5
    <3> QED
      BY ONLY <3>1, <3>2, <3>3
  <2>3. CASE FillEnabled(r)
    <3>1. shut' = shut /\ apc'[r] \in {"lookup", "rejected"} /\ apc[r] = "fill"
      BY <2>3 DEF FillEnabled, Goto, TypeOK
    <3> QED
      BY <1>5, <3>1
  <2>4. CASE LookUp(r)
    <3>1. shut' = shut /\ apc[r] = "lookup" /\ apc'[r] \in {"admitted", "rejected"}
      BY <2>4 DEF LookUp, Goto, TypeOK
    <3>2. redisOn /\ u \in redis /\ r \notin fellBack' => apc'[r] = "rejected"
      BY <1>1, <2>4 DEF LookUp, Goto, Banned, TypeOK
    <3> QED
      BY <1>5, <1>6, <3>1, <3>2
  <2>5. CASE NextRequest(r)
    <3>1. r \notin shut' /\ apc'[r] = "idle"
      BY <2>5 DEF NextRequest, Goto, TypeOK
    <3> QED
      BY <3>1
  <2> QED
    BY <2>1, <2>2, <2>3, <2>4, <2>5 DEF TokenAuth
<1>8. ASSUME NEW q \in Requests
      PROVE  /\ apc'[q] = "fill" => redisOn'
             /\ q \in shut' => /\ Settled(UserOf[q])'
                               /\ decided'[UserOf[q]].status # "enabled"
                               /\ apc'[q] = "lookup" => redisOn'
                               /\ apc'[q] = "admitted" => q \in fellBack'
  <2>1. UserOf[q] \in Users
    BY AccessAssumption
  <2>2. CASE q = r
    BY <1>1, <1>2, <1>3, <1>7, <2>2
  <2>3. CASE q # r
    BY <1>2, <1>3, <1>4, <2>1, <2>3 DEF AccessInv, ShutInv
  <2> QED
    BY <2>2, <2>3
<1> QED
  BY <1>8 DEF ShutInv

(* No step of others lets a request through that is shut out.              *)
LEMMA OthersKeepShut ==
    ASSUME TypeOK, AccessInv, [Next]_vars,
           ~\E r \in Requests : TokenAuth(r) \/ NextRequest(r)
    PROVE  ShutInv'
<1>1. ASSUME NEW q \in Requests
      PROVE  /\ redisOn' = redisOn
             /\ apc'[q] = apc[q] \/ apc'[q] = "rejected"
             /\ q \in fellBack' <=> q \in fellBack
             /\ q \in shut' => q \in shut
             /\ q \in shut' =>
                   ~\E j \in Jobs : LET u == UserOf[q] IN
                       ManageUser(j, u) \/ UpdateUser(j, u) \/ UpdateOwnRow(j, u)
  <2>1. ASSUME NEW j \in Jobs, NEW u \in Users,
               ManageUser(j, u) \/ UpdateUser(j, u) \/ UpdateOwnRow(j, u)
        PROVE  UNCHANGED <<redisOn, reqVars>> /\ shut' = {r \in shut : UserOf[r] # u}
    <3>1. PICK l \in {"ban", "list"}, d \in Forms, f \in Forms : Begin(j, u, l, d, f)
      BY <2>1, BeginForms
    <3> QED
      BY <3>1 DEF Begin
  <2>2. ASSUME NEW j \in Jobs, JobStep(j) PROVE UNCHANGED <<redisOn, reqVars, shut>>
    BY <2>2 DEF JobStep, Ban, List, Write, WriteFails
  <2>3. ASSUME NEW u \in Users, ExpireCache(u) PROVE UNCHANGED <<redisOn, reqVars, shut>>
    BY <2>3 DEF ExpireCache, noRequest
  <2>4. ASSUME NEW n \in Nodes, Restart(n)
        PROVE  UNCHANGED <<redisOn, fellBack, shut>> /\ (apc'[q] = apc[q] \/ apc'[q] = "rejected")
    BY <2>4 DEF Restart
  <2>5. UserOf[q] \in Users
    BY AccessAssumption
  <2>6. UNCHANGED vars => UNCHANGED <<redisOn, reqVars, shut>>
    BY DEF vars
  <2>7. q \in shut' => ~\E j \in Jobs : LET u == UserOf[q] IN
                            ManageUser(j, u) \/ UpdateUser(j, u) \/ UpdateOwnRow(j, u)
    BY <2>1, <2>5
  <2> QED
    BY <2>1, <2>2, <2>3, <2>4, <2>6, <2>7 DEF Next, reqVars
<1>2. ASSUME NEW q \in Requests, q \in shut'
      PROVE  Settled(UserOf[q])' /\ decided'[UserOf[q]].status # "enabled"
  <2>1. UserOf[q] \in Users /\ Settled(UserOf[q]) /\ decided[UserOf[q]].status # "enabled"
    BY <1>1, <1>2, AccessAssumption DEF AccessInv, ShutInv
  <2> QED
    BY <1>1, <1>2, <2>1, SettledStays
<1> QED
  BY <1>1, <1>2 DEF AccessInv, ShutInv

(* The invariant that both properties rest on.                             *)
THEOREM AccessInvHolds == Spec => []AccessInv
<1>1. Init => AccessInv
  <2> SUFFICES ASSUME Init PROVE AccessInv
    OBVIOUS
  <2>1. ASSUME NEW u \in Users PROVE UserInv(u)
    <3>1. \A j \in Jobs : pc[j] = "idle"
      BY DEF Init
    <3>2. AtRest(u)
      BY DEF Init, AtRest, Read, Listed
    <3> QED
      BY <3>1, <3>2 DEF UserInv, Alone, Busy
  <2>2. ShutInv
    BY DEF Init, ShutInv
  <2> QED
    BY <2>1, <2>2 DEF AccessInv
<1>2. TypeOK /\ TypeOK' /\ AccessInv /\ [Next]_vars => AccessInv'
  <2> SUFFICES ASSUME TypeOK, TypeOK', AccessInv, [Next]_vars PROVE AccessInv'
    OBVIOUS
  <2>1. \A u \in Users : UserInv(u)'
    BY UsersKeep DEF AccessInv
  <2>2. ShutInv'
    BY RequestKeeps, OthersKeepShut
  <2> QED
    BY <2>1, <2>2 DEF AccessInv
<1> QED
  BY <1>1, <1>2, TypeCorrect, PTL DEF Spec

(* Who is shut out stays out: disabling needs no cache to expire, on no    *)
(* number of instances (CHANGELOG.md:20, CacheIsUserEnabled, IsUserBanned).*)
THEOREM ShutOutHolds == Spec => []DisabledIsShutOut
<1>1. TypeOK /\ AccessInv => DisabledIsShutOut
  BY DEF AccessInv, ShutInv, DisabledIsShutOut, TypeOK
<1> QED
  BY <1>1, AccessInvHolds, TypeCorrect, PTL

(* Row, blacklist and decision agree when nothing disturbed the operations *)
(* on a user (User.Update, User.Delete).                                   *)
THEOREM AgreementHolds == Spec => []RowAndBlacklistAgree
<1>1. AccessInv => RowAndBlacklistAgree
  BY DEF AccessInv, UserInv, AtRest, Listed, Settled, RowAndBlacklistAgree
<1> QED
  BY <1>1, AccessInvHolds, PTL

=============================================================================
